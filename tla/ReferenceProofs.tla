--------------------------- MODULE ReferenceProofs ---------------------------
(***************************************************************************)
(* The sets, the pictures and the lists of a slice are those the           *)
(* bitstream means, for any sequence parameter sets, sets and long-term    *)
(* pictures.  The argument: parsing and deriving a set, of distances or of *)
(* another set, gives the set that was coded; so the syntax that is kept   *)
(* of a sequence parameter set restores its sets whenever a picture        *)
(* starts, and what is computed from the set and the long-term pictures of *)
(* a slice header is what was meant by them.                               *)
(***************************************************************************)
EXTENDS SliceReferences, SequenceTheorems, FiniteSetTheorems, WellFoundedInduction, TLAPS

-------------------------------------------------------------------------------
(* Induction.  A set of natural numbers has a least element, so a claim    *)
(* with a counterexample has a first one.                                  *)
LEMMA LeastOf ==
    ASSUME NEW T \in SUBSET Nat, T # {}
    PROVE  \E x \in T : \A y \in T : x <= y
<1> DEFINE R == {ss \in Nat \X Nat : ss[1] < ss[2]}
<1>1. IsWellFoundedOn(R, Nat)
  BY NatLessThanWellFounded, Zenon DEF OpToRel
<1>2. \A a, b \in Nat : <<a, b>> \notin R => b <= a
  OBVIOUS
<1> HIDE DEF R
<1>3. PICK x \in T : \A y \in T : <<y, x>> \notin R
  BY <1>1, WFMin, Zenon
<1>4. ASSUME NEW y \in T PROVE x <= y
  BY <1>2, <1>3, Zenon
<1> QED
  BY <1>4

(* A set that holds 0 and, below n, the successor of each of its members   *)
(* holds every number up to n.                                             *)
LEMMA StepByStep ==
    ASSUME NEW n \in Nat, NEW S, 0 \in S, \A k \in 0 .. n - 1 : k \in S => k + 1 \in S
    PROVE  \A k \in 0 .. n : k \in S
<1> SUFFICES ASSUME NEW j \in 0 .. n, j \notin S PROVE FALSE
  OBVIOUS
<1> DEFINE T == {k \in 0 .. n : k \notin S}
<1>1. T \in SUBSET Nat /\ j \in T
  OBVIOUS
<1>2. PICK k \in T : \A y \in T : k <= y
  BY <1>1, LeastOf
<1>3. k \in 0 .. n /\ k \notin S /\ k # 0
  OBVIOUS
<1>4. k - 1 \in 0 .. n - 1 /\ k - 1 \in 0 .. n /\ (k - 1) + 1 = k /\ ~(k <= k - 1)
  BY <1>3
<1>5. k - 1 \in S
  BY <1>2, <1>4
<1> QED
  BY <1>3, <1>4, <1>5

(* A function on 1 .. n is a sequence of n elements.                       *)
LEMMA AsSequence ==
    ASSUME NEW n \in Nat, NEW T, NEW f \in [1 .. n -> T]
    PROVE  f \in Seq(T) /\ Len(f) = n /\ DOMAIN f = 1 .. n
<1>1. f \in Seq(T)
  BY SeqDef
<1>2. DOMAIN f = 1 .. n
  OBVIOUS
<1>3. DOMAIN f = 1 .. Len(f) /\ Len(f) \in Nat
  BY <1>1, LenProperties
<1> QED
  BY <1>1, <1>2, <1>3

-------------------------------------------------------------------------------
(* Lists in rising order.                                                  *)
Rises(s, n) == \A i, j \in 1 .. n : i < j => s[i] < s[j]
Falls(s, n) == \A i, j \in 1 .. n : i < j => s[j] < s[i]
Elements(s, n) == {s[i] : i \in 1 .. n}

(* A finite set of numbers that is not empty has a largest one.            *)
LEMMA LargestOf ==
    ASSUME NEW S \in SUBSET Int, IsFiniteSet(S), S # {}
    PROVE  \E m \in S : \A x \in S : x <= m
<1> DEFINE Has(T) == \E m \in T : \A x \in T : x <= m
           N == Cardinality(S)
           K == {n \in 0 .. N : \A T \in SUBSET S : IsFiniteSet(T) /\ T # {} /\ Cardinality(T) = n => Has(T)}
<1>1. N \in Nat
  BY FS_CardinalityType
<1>2. 0 \in K
  BY <1>1, FS_EmptySet
<1>3. ASSUME NEW n \in 0 .. N - 1, n \in K PROVE n + 1 \in K
  <2> SUFFICES ASSUME NEW T \in SUBSET S, IsFiniteSet(T), T # {}, Cardinality(T) = n + 1
               PROVE  Has(T)
    BY <1>1
  <2>1. PICK x \in T : TRUE
    OBVIOUS
  <2>2. IsFiniteSet(T \ {x}) /\ Cardinality(T \ {x}) = n
    <3>1. IsFiniteSet(T \ {x}) /\ Cardinality(T \ {x}) = Cardinality(T) - 1
      BY FS_RemoveElement, Zenon
    <3> QED
      BY <3>1
  <2>3. CASE T \ {x} = {}
    BY <2>3
  <2>4. CASE T \ {x} # {}
    <3>1. PICK m \in T \ {x} : \A y \in T \ {x} : y <= m
      BY <1>3, <2>2, <2>4
    <3>2. m \in Int /\ x \in Int /\ \A y \in T : y \in Int /\ (y = x \/ y <= m)
      BY <3>1
    <3>3. CASE x <= m
      BY <3>1, <3>2, <3>3
    <3>4. CASE m < x
      <4>1. \A y \in T : y <= x
        BY <3>2, <3>4
      <4> QED
        BY <4>1
    <3> QED
      BY <3>2, <3>3, <3>4
  <2> QED
    BY <2>3, <2>4
<1>4. \A n \in 0 .. N : n \in K
  <2> HIDE DEF K, N
  <2> QED
    BY <1>1, <1>2, <1>3, StepByStep
<1>5. N \in K
  BY <1>1, <1>4
<1> QED
  BY <1>5

(* It can be put in rising order.                                          *)
LEMMA RisingExists ==
    ASSUME NEW S \in SUBSET Int, IsFiniteSet(S)
    PROVE  \E s \in [1 .. Cardinality(S) -> S] : Rises(s, Cardinality(S))
<1> DEFINE N == Cardinality(S)
           K == {n \in 0 .. N : \A T \in SUBSET S : IsFiniteSet(T) /\ Cardinality(T) = n =>
                                   \E s \in [1 .. n -> T] : Rises(s, n)}
<1>1. N \in Nat
  BY FS_CardinalityType
<1>2. 0 \in K
  <2> SUFFICES ASSUME NEW T \in SUBSET S PROVE \E s \in [1 .. 0 -> T] : Rises(s, 0)
    BY <1>1
  <2>1. [i \in 1 .. 0 |-> i] \in [1 .. 0 -> T] /\ Rises([i \in 1 .. 0 |-> i], 0)
    BY DEF Rises
  <2> QED
    BY <2>1
<1>3. ASSUME NEW n \in 0 .. N - 1, n \in K PROVE n + 1 \in K
  <2> SUFFICES ASSUME NEW T \in SUBSET S, IsFiniteSet(T), Cardinality(T) = n + 1
               PROVE  \E s \in [1 .. n + 1 -> T] : Rises(s, n + 1)
    BY <1>1
  <2>1. T # {} /\ T \in SUBSET Int
    BY FS_EmptySet
  <2>2. PICK m \in T : \A x \in T : x <= m
    BY <2>1, LargestOf
  <2>3. IsFiniteSet(T \ {m}) /\ Cardinality(T \ {m}) = n
    <3>1. IsFiniteSet(T \ {m}) /\ Cardinality(T \ {m}) = Cardinality(T) - 1
      BY FS_RemoveElement, Zenon
    <3> QED
      BY <3>1
  <2>4. PICK s \in [1 .. n -> T \ {m}] : Rises(s, n)
    BY <1>3, <2>3
  <2> DEFINE u == [i \in 1 .. n + 1 |-> IF i = n + 1 THEN m ELSE s[i]]
  <2>5. \A i \in 1 .. n + 1 : i = n + 1 \/ i \in 1 .. n
    OBVIOUS
  <2>6. u \in [1 .. n + 1 -> T]
    BY <2>5
  <2>7. \A i \in 1 .. n : s[i] \in Int /\ m \in Int /\ s[i] < m
    <3> TAKE i \in 1 .. n
    <3>1. s[i] \in T /\ s[i] # m
      BY <2>4
    <3>2. s[i] \in Int /\ m \in Int /\ s[i] <= m
      BY <3>1, <2>1, <2>2
    <3> QED
      BY <3>1, <3>2
  <2>8. Rises(u, n + 1)
    <3> SUFFICES ASSUME NEW i \in 1 .. n + 1, NEW j \in 1 .. n + 1, i < j PROVE u[i] < u[j]
      BY DEF Rises
    <3>1. i \in 1 .. n /\ i # n + 1
      OBVIOUS
    <3> QED
      BY <3>1, <2>4, <2>5, <2>7 DEF Rises
  <2> QED
    BY <2>6, <2>8
<1>4. \A n \in 0 .. N : n \in K
  <2> HIDE DEF K, N
  <2> QED
    BY <1>1, <1>2, <1>3, StepByStep
<1>5. N \in K
  BY <1>1, <1>4
<1> QED
  BY <1>5

(* Rising lists with the same elements are the same.                       *)
LEMMA RisingPrefix ==
    ASSUME NEW m \in Nat, NEW n \in Nat, NEW s \in [1 .. m -> Int], NEW u \in [1 .. n -> Int],
           Rises(s, m), Rises(u, n), Elements(s, m) = Elements(u, n)
    PROVE  \A k \in 1 .. m : k \in 1 .. n /\ s[k] = u[k]
<1> DEFINE T == {k \in 1 .. m : ~(k \in 1 .. n /\ s[k] = u[k])}
<1> SUFFICES ASSUME T # {} PROVE FALSE
  OBVIOUS
<1>1. PICK k \in T : \A j \in T : k <= j
  <2>1. T \in SUBSET Nat
    OBVIOUS
  <2> HIDE DEF T
  <2> QED
    BY <2>1, LeastOf
<1>2. k \in 1 .. m /\ ~(k \in 1 .. n /\ s[k] = u[k])
  OBVIOUS
<1>3. \A j \in 1 .. m : j < k => j \in 1 .. n /\ s[j] = u[j]
  <2> SUFFICES ASSUME NEW j \in 1 .. m, j < k, j \in T PROVE FALSE
    OBVIOUS
  <2> QED
    BY <1>1, <1>2
<1> HIDE DEF T
<1>4. PICK j \in 1 .. n : s[k] = u[j]
  BY <1>2 DEF Elements
<1>5. ~(j < k)
  <2> SUFFICES ASSUME j < k PROVE FALSE
    OBVIOUS
  <2>1. j \in 1 .. m
    BY <1>2
  <2>2. s[j] = u[j] /\ s[j] < s[k]
    BY <1>2, <1>3, <2>1 DEF Rises
  <2>3. s[j] \in Int /\ s[k] \in Int
    BY <1>2, <2>1
  <2> QED
    BY <1>4, <2>2, <2>3
<1>6. k \in 1 .. n
  BY <1>2, <1>5
<1>7. PICK i \in 1 .. m : u[k] = s[i]
  BY <1>6 DEF Elements
<1>8. ~(i < k)
  <2> SUFFICES ASSUME i < k PROVE FALSE
    OBVIOUS
  <2>1. i \in 1 .. n /\ s[i] = u[i]
    BY <1>3
  <2>2. u[i] < u[k]
    BY <1>6, <2>1 DEF Rises
  <2>3. u[i] \in Int /\ u[k] \in Int
    BY <1>6, <2>1
  <2> QED
    BY <1>7, <2>1, <2>2, <2>3
<1>9. s[k] <= s[i] /\ u[k] <= u[j]
  <2>1. k = i \/ k < i
    BY <1>2, <1>8
  <2>2. k = j \/ k < j
    BY <1>2, <1>5
  <2>3. s[k] \in Int /\ s[i] \in Int /\ u[k] \in Int /\ u[j] \in Int
    BY <1>2, <1>6
  <2> QED
    BY <1>2, <1>6, <2>1, <2>2, <2>3 DEF Rises
<1>10. s[k] \in Int /\ u[k] \in Int
  BY <1>2, <1>6
<1> QED
  BY <1>2, <1>4, <1>6, <1>7, <1>9, <1>10

LEMMA RisingUnique ==
    ASSUME NEW m \in Nat, NEW n \in Nat, NEW s \in [1 .. m -> Int], NEW u \in [1 .. n -> Int],
           Rises(s, m), Rises(u, n), Elements(s, m) = Elements(u, n)
    PROVE  m = n /\ s = u
<1>1. \A k \in 1 .. m : k \in 1 .. n /\ s[k] = u[k]
  BY RisingPrefix, Zenon
<1>2. \A k \in 1 .. n : k \in 1 .. m /\ u[k] = s[k]
  BY RisingPrefix, Zenon
<1>3. m = n
  <2>1. m = 0 \/ m \in 1 .. m
    OBVIOUS
  <2>2. n = 0 \/ n \in 1 .. n
    OBVIOUS
  <2> QED
    BY <1>1, <1>2, <2>1, <2>2
<1> QED
  BY <1>1, <1>3

LEMMA FallingUnique ==
    ASSUME NEW m \in Nat, NEW n \in Nat, NEW s \in [1 .. m -> Int], NEW u \in [1 .. n -> Int],
           Falls(s, m), Falls(u, n), Elements(s, m) = Elements(u, n)
    PROVE  m = n /\ s = u
<1> DEFINE a == [i \in 1 .. m |-> -s[i]]
           b == [i \in 1 .. n |-> -u[i]]
<1>1. a \in [1 .. m -> Int] /\ b \in [1 .. n -> Int]
  OBVIOUS
<1>2. Rises(a, m) /\ Rises(b, n)
  BY DEF Rises, Falls
<1>3. Elements(a, m) = Elements(b, n)
  <2>1. Elements(a, m) = {-x : x \in Elements(s, m)} /\ Elements(b, n) = {-x : x \in Elements(u, n)}
    BY DEF Elements
  <2> QED
    BY <2>1
<1> HIDE DEF a, b
<1>4. m = n /\ a = b
  BY <1>1, <1>2, <1>3, RisingUnique, Zenon
<1>5. \A i \in 1 .. m : s[i] = u[i]
  <2> TAKE i \in 1 .. m
  <2>1. a[i] = -s[i] /\ b[i] = -u[i] /\ s[i] \in Int /\ u[i] \in Int
    BY <1>4 DEF a, b
  <2> QED
    BY <1>4, <2>1
<1> QED
  BY <1>4, <1>5

(* What Sorted is.                                                         *)
LEMMA SortedIs ==
    ASSUME NEW S \in SUBSET Int, IsFiniteSet(S)
    PROVE  /\ Cardinality(S) \in Nat
           /\ Sorted(S) \in [1 .. Cardinality(S) -> S]
           /\ Rises(Sorted(S), Cardinality(S))
           /\ Elements(Sorted(S), Cardinality(S)) = S
<1> DEFINE n == Cardinality(S)
           s == Sorted(S)
<1>1. n \in Nat
  BY FS_CardinalityType
<1>2. s \in [1 .. n -> S] /\ Rises(s, n)
  <2>1. \E w \in [1 .. n -> S] : \A i, j \in 1 .. n : i < j => w[i] < w[j]
    BY RisingExists DEF Rises
  <2>2. s \in [1 .. n -> S] /\ \A i, j \in 1 .. n : i < j => s[i] < s[j]
    BY <2>1 DEF Sorted
  <2> QED
    BY <2>2 DEF Rises
<1> HIDE DEF s
<1>3. s \in Injection(1 .. n, S)
  <2>1. ASSUME NEW i \in 1 .. n, NEW j \in 1 .. n, s[i] = s[j] PROVE i = j
    <3>1. s[i] \in Int /\ s[j] \in Int
      BY <1>2
    <3>2. ~(i < j) /\ ~(j < i)
      BY <1>2, <2>1, <3>1 DEF Rises
    <3> QED
      BY <3>2
  <2> QED
    BY <1>2, <2>1 DEF Injection, IsInjective
<1>4. Cardinality(1 .. n) = n
  BY <1>1, FS_Interval
<1>5. s \in Surjection(1 .. n, S)
  BY <1>3, <1>4, FS_Injection
<1>6. Elements(s, n) = S
  <2>1. \A x \in S : \E i \in 1 .. n : s[i] = x
    BY <1>5 DEF Surjection
  <2> QED
    BY <1>2, <2>1 DEF Elements
<1> QED
  BY <1>1, <1>2, <1>6 DEF s

(* A rising list is the sorted set of its elements.                        *)
LEMMA SortedUnique ==
    ASSUME NEW n \in Nat, NEW s \in [1 .. n -> Int], Rises(s, n)
    PROVE  /\ IsFiniteSet(Elements(s, n)) /\ Cardinality(Elements(s, n)) = n
           /\ Sorted(Elements(s, n)) = s
<1> DEFINE S == Elements(s, n)
<1>1. S \in SUBSET Int
  BY DEF Elements
<1>2. IsFiniteSet(S)
  <2>1. s \in Surjection(1 .. n, S)
    BY DEF Surjection, Elements
  <2>2. IsFiniteSet(1 .. n)
    BY FS_Interval
  <2> QED
    BY <2>1, <2>2, FS_Surjection
<1> HIDE DEF S
<1>3. /\ Cardinality(S) \in Nat /\ Sorted(S) \in [1 .. Cardinality(S) -> S]
      /\ Rises(Sorted(S), Cardinality(S)) /\ Elements(Sorted(S), Cardinality(S)) = S
  BY <1>1, <1>2, SortedIs
<1>4. Sorted(S) \in [1 .. Cardinality(S) -> Int]
  BY <1>1, <1>3
<1>5. Elements(Sorted(S), Cardinality(S)) = Elements(s, n)
  BY <1>3 DEF S
<1>6. Cardinality(S) = n /\ Sorted(S) = s
  BY <1>3, <1>4, <1>5, RisingUnique, Zenon
<1> QED
  BY <1>2, <1>6 DEF S

(* What Selected is.                                                       *)
Picks(list, P, c, p) ==
    /\ p \in [1 .. c -> P] /\ Rises(p, c) /\ Elements(p, c) = P
    /\ Selected(list, P) = [i \in 1 .. c |-> list[p[i]]]

LEMMA SelectedIs ==
    ASSUME NEW n \in Nat, NEW P \in SUBSET (1 .. n), NEW list
    PROVE  /\ IsFiniteSet(P) /\ Cardinality(P) \in Nat
           /\ Picks(list, P, Cardinality(P), Sorted(P))
<1>1. IsFiniteSet(1 .. n)
  BY FS_Interval
<1>2. IsFiniteSet(P)
  BY <1>1, FS_Subset
<1>3. P \in SUBSET Int
  OBVIOUS
<1>4. /\ Cardinality(P) \in Nat /\ Sorted(P) \in [1 .. Cardinality(P) -> P]
      /\ Rises(Sorted(P), Cardinality(P)) /\ Elements(Sorted(P), Cardinality(P)) = P
  BY <1>2, <1>3, SortedIs
<1> QED
  BY <1>2, <1>4, Zenon DEF Selected, Picks

LEMMA LengthOf ==
    ASSUME NEW n \in Nat, NEW f, f = [i \in 1 .. n |-> f[i]]
    PROVE  f \in Seq(Elements(f, n)) /\ Len(f) = n /\ DOMAIN f = 1 .. n
<1>1. f \in [1 .. n -> Elements(f, n)]
  BY Zenon DEF Elements
<1> QED
  BY <1>1, AsSequence, Zenon

-------------------------------------------------------------------------------
(* A set that is sent, and its pictures before and after the current one.  *)
LEMMA TargetIs ==
    ASSUME NEW t \in Targets
    PROVE  /\ IsFiniteSet(DOMAIN t) /\ Cardinality(DOMAIN t) <= MaxSize
           /\ DOMAIN t \in SUBSET Int /\ DOMAIN t \in SUBSET Distances
           /\ \A d \in DOMAIN t : t[d] \in BOOLEAN /\ d \in Int /\ d # 0
<1>1. PICK D \in SUBSET Distances : t \in [D -> BOOLEAN] /\ Cardinality(D) <= MaxSize
  BY Zenon DEF Targets
<1>2. IsFiniteSet(D)
  BY SliceReferencesAssumption, FS_Subset DEF SliceReferencesAssumption
<1>3. DOMAIN t = D
  BY <1>1
<1>4. D \in SUBSET Int /\ \A d \in D : d # 0
  BY SliceReferencesAssumption DEF SliceReferencesAssumption
<1> QED
  BY <1>1, <1>2, <1>3, <1>4

LEMMA AboveIs ==
    ASSUME NEW t \in Targets
    PROVE  /\ Len(Above(t)) \in Nat
           /\ Above(t) \in [1 .. Len(Above(t)) -> DOMAIN t]
           /\ Above(t) \in [1 .. Len(Above(t)) -> Int]
           /\ Rises(Above(t), Len(Above(t)))
           /\ Elements(Above(t), Len(Above(t))) = {d \in DOMAIN t : d > 0}
           /\ \A i \in 1 .. Len(Above(t)) : Above(t)[i] > 0
<1> DEFINE S == {d \in DOMAIN t : d > 0}
           n == Cardinality(S)
           s == Above(t)
<1>1. IsFiniteSet(DOMAIN t) /\ DOMAIN t \in SUBSET Int /\ S \in SUBSET DOMAIN t
  BY TargetIs, Zenon
<1>2. IsFiniteSet(S) /\ S \in SUBSET Int
  BY <1>1, FS_Subset, Zenon
<1>3. n \in Nat /\ s \in [1 .. n -> S] /\ Rises(s, n) /\ Elements(s, n) = S
  BY <1>2, SortedIs, Zenon DEF Above
<1> HIDE DEF s, n
<1>4. Len(s) = n
  BY <1>3, AsSequence
<1>5. s \in [1 .. n -> DOMAIN t] /\ s \in [1 .. n -> Int] /\ \A i \in 1 .. n : s[i] > 0
  BY <1>1, <1>3
<1> QED
  BY <1>3, <1>4, <1>5 DEF s

LEMMA BelowIs ==
    ASSUME NEW t \in Targets
    PROVE  /\ Len(Below(t)) \in Nat
           /\ Below(t) \in [1 .. Len(Below(t)) -> DOMAIN t]
           /\ Below(t) \in [1 .. Len(Below(t)) -> Int]
           /\ Falls(Below(t), Len(Below(t)))
           /\ Elements(Below(t), Len(Below(t))) = {d \in DOMAIN t : d < 0}
           /\ \A i \in 1 .. Len(Below(t)) : Below(t)[i] < 0
<1> DEFINE S == {d \in DOMAIN t : d < 0}
           n == Cardinality(S)
           u == Sorted(S)
           s == Below(t)
<1>1. IsFiniteSet(DOMAIN t) /\ DOMAIN t \in SUBSET Int /\ S \in SUBSET DOMAIN t
  BY TargetIs, Zenon
<1>2. IsFiniteSet(S) /\ S \in SUBSET Int
  BY <1>1, FS_Subset, Zenon
<1>3. n \in Nat /\ u \in [1 .. n -> S] /\ Rises(u, n) /\ Elements(u, n) = S
  BY <1>2, SortedIs, Zenon
<1>4. s = Reverse(u)
  BY Zenon DEF Below
<1> HIDE DEF s, n, u
<1>5. Len(u) = n
  BY <1>3, AsSequence
<1>6. s = [i \in 1 .. n |-> u[(n - i) + 1]]
  BY <1>4, <1>5 DEF Reverse
<1>7. \A i \in 1 .. n : (n - i) + 1 \in 1 .. n
  BY <1>3
<1>8. s \in [1 .. n -> S]
  BY <1>3, <1>6, <1>7
<1>9. Len(s) = n
  BY <1>3, <1>8, AsSequence
<1>10. Falls(s, n)
  <2> SUFFICES ASSUME NEW i \in 1 .. n, NEW j \in 1 .. n, i < j PROVE s[j] < s[i]
    BY DEF Falls
  <2>1. (n - j) + 1 < (n - i) + 1
    BY <1>3
  <2> QED
    BY <1>3, <1>6, <1>7, <2>1 DEF Rises
<1>11. Elements(s, n) = S
  <2>1. \A i \in 1 .. n : s[i] \in S
    BY <1>8
  <2>2. ASSUME NEW x \in S PROVE \E i \in 1 .. n : s[i] = x
    <3>1. PICK j \in 1 .. n : u[j] = x
      BY <1>3 DEF Elements
    <3>2. (n - j) + 1 \in 1 .. n /\ (n - ((n - j) + 1)) + 1 = j
      BY <1>3
    <3> QED
      BY <1>6, <3>1, <3>2
  <2> QED
    BY <2>1, <2>2 DEF Elements
<1>12. s \in [1 .. n -> DOMAIN t] /\ s \in [1 .. n -> Int] /\ \A i \in 1 .. n : s[i] < 0
  BY <1>1, <1>8
<1> QED
  BY <1>3, <1>9, <1>10, <1>11, <1>12 DEF s

-------------------------------------------------------------------------------
(* The distances between the pictures of a list add up to the list.        *)
LEMMA DeltasOfGaps ==
    ASSUME NEW n \in Nat, NEW b \in [1 .. n -> Int], NEW t, NEW sign \in {-1, 1},
           \A i \in 1 .. n : sign * b[i] > 0,
           \A i, j \in 1 .. n : i < j => sign * b[i] < sign * b[j]
    PROVE  Deltas(Gaps(b, t), sign) = Side(b, t)
<1> DEFINE g == Gaps(b, t)
           Is(w) == w = [i \in 0 .. Len(g) |->
                           IF i = 0 THEN 0 ELSE w[i - 1] + sign * (g[i].minus1 + 1)]
           w == [i \in 0 .. n |-> IF i = 0 THEN 0 ELSE b[i]]
           delta == CHOOSE x : Is(x)
<1>1. g = [i \in 1 .. n |-> [minus1 |-> Magnitude(IF i = 1 THEN b[1] ELSE b[i] - b[i - 1]) - 1,
                             used |-> t[b[i]]]]
  BY DEF Gaps
<1>2. Len(g) = n /\ DOMAIN g = 1 .. n
  <2>1. g = [i \in 1 .. n |-> g[i]]
    BY <1>1
  <2> HIDE DEF g
  <2> QED
    BY <2>1, LengthOf
<1>3. \A i \in 1 .. n : sign * (g[i].minus1 + 1) = IF i = 1 THEN b[1] ELSE b[i] - b[i - 1]
  <2> TAKE i \in 1 .. n
  <2> DEFINE d == IF i = 1 THEN b[1] ELSE b[i] - b[i - 1]
  <2>1. g[i].minus1 = Magnitude(d) - 1
    BY <1>1
  <2>2. d \in Int /\ (sign = 1 => d > 0) /\ (sign = -1 => d < 0)
    <3>1. CASE i = 1
      BY <3>1
    <3>2. CASE i # 1
      <4>1. i - 1 \in 1 .. n /\ i - 1 < i
        BY <3>2
      <4>2. b[i] \in Int /\ b[i - 1] \in Int /\ sign * b[i - 1] < sign * b[i]
        BY <4>1
      <4> QED
        BY <3>2, <4>2
    <3> QED
      BY <3>1, <3>2
  <2> HIDE DEF d, g
  <2>3. sign * ((Magnitude(d) - 1) + 1) = d
    BY <2>2 DEF Magnitude
  <2> QED
    BY <2>1, <2>3 DEF d
<1>4. \A i \in 1 .. n : g[i].used = t[b[i]]
  BY <1>1
<1> HIDE DEF g
<1>5. Is(w)
  <2>1. \A i \in 0 .. n : w[i] = IF i = 0 THEN 0 ELSE w[i - 1] + sign * (g[i].minus1 + 1)
    <3> TAKE i \in 0 .. n
    <3>1. CASE i = 0
      BY <3>1
    <3>2. CASE i = 1
      <4>1. w[0] = 0 /\ w[1] = b[1] /\ b[1] \in Int
        BY <3>2
      <4>2. sign * (g[1].minus1 + 1) = b[1]
        BY <3>2, <1>3
      <4> QED
        BY <3>2, <4>1, <4>2
    <3>3. CASE i # 0 /\ i # 1
      <4>1. i \in 1 .. n /\ i - 1 \in 1 .. n /\ i - 1 \in 0 .. n /\ i - 1 # 0
        BY <3>3
      <4>2. w[i] = b[i] /\ w[i - 1] = b[i - 1] /\ b[i] \in Int /\ b[i - 1] \in Int
        BY <4>1
      <4>3. sign * (g[i].minus1 + 1) = b[i] - b[i - 1]
        BY <3>3, <4>1, <1>3
      <4> HIDE DEF w
      <4> QED
        BY <3>3, <4>2, <4>3
    <3> QED
      BY <3>1, <3>2, <3>3
  <2>2. w = [i \in 0 .. n |-> w[i]]
    OBVIOUS
  <2> HIDE DEF w
  <2> QED
    BY <2>1, <2>2, <1>2
<1>6. Is(delta)
  BY <1>5
<1> HIDE DEF delta
<1>7. \A i \in 0 .. n : delta[i] = w[i]
  <2> DEFINE S == {i \in 0 .. n : delta[i] = w[i]}
  <2>d. \A i \in 0 .. n : delta[i] = IF i = 0 THEN 0 ELSE delta[i - 1] + sign * (g[i].minus1 + 1)
    BY <1>2, <1>6
  <2>w. \A i \in 0 .. n : w[i] = IF i = 0 THEN 0 ELSE w[i - 1] + sign * (g[i].minus1 + 1)
    <3> HIDE DEF w
    <3> QED
      BY <1>2, <1>5
  <2> HIDE DEF w
  <2>1. 0 \in S
    BY <2>d, <2>w
  <2>2. ASSUME NEW k \in 0 .. n - 1, k \in S PROVE k + 1 \in S
    <3>1. k + 1 \in 0 .. n /\ k + 1 # 0 /\ (k + 1) - 1 = k /\ delta[k] = w[k]
      BY <2>2
    <3> QED
      BY <2>d, <2>w, <3>1
  <2> HIDE DEF S
  <2>3. \A k \in 0 .. n : k \in S
    BY <2>1, <2>2, StepByStep
  <2> QED
    BY <2>3 DEF S
<1>8. \A i \in 1 .. n : delta[i] = b[i]
  BY <1>7
<1>9. Deltas(g, sign) = [i \in 1 .. n |-> [delta |-> delta[i], used |-> g[i].used]]
  BY <1>2, Zenon DEF Deltas, delta
<1>10. Side(b, t) = [i \in 1 .. n |-> [delta |-> b[i], used |-> t[b[i]]]]
  BY DEF Side
<1> QED
  BY <1>4, <1>8, <1>9, <1>10 DEF g

(* A set that is sent explicitly is derived as it was meant.               *)
LEMMA ExplicitAsMeant ==
    ASSUME NEW t \in Targets
    PROVE  [s0 |-> Deltas(Explicitly(t).s0, -1), s1 |-> Deltas(Explicitly(t).s1, 1)] = EntryOf(t)
<1>1. Deltas(Gaps(Below(t), t), -1) = Side(Below(t), t)
  <2> DEFINE b == Below(t)
             n == Len(b)
  <2>1. n \in Nat /\ b \in [1 .. n -> Int] /\ Falls(b, n) /\ \A i \in 1 .. n : b[i] < 0
    BY BelowIs, Zenon
  <2> HIDE DEF b, n
  <2>2. \A i \in 1 .. n : (-1) * b[i] > 0
    BY <2>1
  <2>3. \A i, j \in 1 .. n : i < j => (-1) * b[i] < (-1) * b[j]
    BY <2>1 DEF Falls
  <2>4. -1 \in {-1, 1}
    OBVIOUS
  <2>5. Deltas(Gaps(b, t), -1) = Side(b, t)
    BY <2>1, <2>2, <2>3, <2>4, DeltasOfGaps, Zenon
  <2> QED
    BY <2>5 DEF b
<1>2. Deltas(Gaps(Above(t), t), 1) = Side(Above(t), t)
  <2> DEFINE b == Above(t)
             n == Len(b)
  <2>1. n \in Nat /\ b \in [1 .. n -> Int] /\ Rises(b, n) /\ \A i \in 1 .. n : b[i] > 0
    BY AboveIs, Zenon
  <2> HIDE DEF b, n
  <2>2. \A i \in 1 .. n : 1 * b[i] > 0
    BY <2>1
  <2>3. \A i, j \in 1 .. n : i < j => 1 * b[i] < 1 * b[j]
    BY <2>1 DEF Rises
  <2>4. 1 \in {-1, 1}
    OBVIOUS
  <2>5. Deltas(Gaps(b, t), 1) = Side(b, t)
    BY <2>1, <2>2, <2>3, <2>4, DeltasOfGaps, Zenon
  <2> QED
    BY <2>5 DEF b
<1>3. Explicitly(t).s0 = Gaps(Below(t), t) /\ Explicitly(t).s1 = Gaps(Above(t), t)
  BY DEF Explicitly
<1> QED
  BY <1>1, <1>2, <1>3, Zenon DEF EntryOf

-------------------------------------------------------------------------------
(* A function that is defined by recursion exists.                         *)
Solves(g, n, first, step) ==
    g[0] = first /\ \A k \in 1 .. n : g[k] = step[<<k, g[k - 1]>>]

LEMMA RecursionExists ==
    ASSUME NEW n \in Nat, NEW C, NEW first \in C, NEW step \in [(1 .. n) \X C -> C]
    PROVE  \E g \in [0 .. n -> C] : Solves(g, n, first, step)
<1> DEFINE S == {k \in 0 .. n : \E g \in [0 .. k -> C] : Solves(g, k, first, step)}
<1>1. 0 \in S
  <2> DEFINE g == [j \in 0 .. 0 |-> first]
  <2>1. g \in [0 .. 0 -> C] /\ Solves(g, 0, first, step)
    BY DEF Solves
  <2> HIDE DEF g
  <2> QED
    BY <2>1
<1>2. ASSUME NEW k \in 0 .. n - 1, k \in S PROVE k + 1 \in S
  <2>1. PICK g \in [0 .. k -> C] : Solves(g, k, first, step)
    BY <1>2
  <2> DEFINE h == [j \in 0 .. k + 1 |-> IF j = k + 1 THEN step[<<k + 1, g[k]>>] ELSE g[j]]
  <2>2. k \in Nat /\ k + 1 \in 1 .. n /\ k \in 0 .. k /\ 0 \in 0 .. k /\ k + 1 \in 0 .. n
    OBVIOUS
  <2>3. step[<<k + 1, g[k]>>] \in C
    BY <2>2
  <2>4. h \in [0 .. k + 1 -> C]
    <3>1. \A j \in 0 .. k + 1 : j = k + 1 \/ j \in 0 .. k
      BY <2>2
    <3> QED
      BY <2>3, <3>1
  <2>5. h[0] = first
    BY <2>1, <2>2 DEF Solves
  <2>6. \A j \in 1 .. k + 1 : h[j] = step[<<j, h[j - 1]>>]
    <3> TAKE j \in 1 .. k + 1
    <3>1. j - 1 \in 0 .. k /\ j - 1 # k + 1 /\ j - 1 \in 0 .. k + 1 /\ j \in 0 .. k + 1
      BY <2>2
    <3>2. h[j - 1] = g[j - 1]
      BY <3>1
    <3>3. CASE j = k + 1
      <4>1. h[j] = step[<<k + 1, g[k]>>] /\ j - 1 = k
        BY <3>1, <3>3
      <4> QED
        BY <3>2, <3>3, <4>1
    <3>4. CASE j # k + 1
      <4>1. h[j] = g[j] /\ j \in 1 .. k
        BY <3>1, <3>4
      <4> QED
        BY <2>1, <3>2, <4>1 DEF Solves
    <3> QED
      BY <3>3, <3>4
  <2> HIDE DEF h
  <2> QED
    BY <2>2, <2>4, <2>5, <2>6 DEF Solves
<1>3. \A k \in 0 .. n : k \in S
  <2> HIDE DEF S
  <2> QED
    BY <1>1, <1>2, StepByStep
<1>4. n \in S
  BY <1>3
<1> QED
  BY <1>4

(* Sequences one after the other: where each of them is.                   *)
Joined(g, seqs, n) ==
    /\ g \in [0 .. n -> Seq({0, 1})] /\ g[0] = <<>>
    /\ \A k \in 1 .. n : g[k] = g[k - 1] \o seqs[k]

Lengths(g, seqs, n) ==
    \A k \in 1 .. n :
        /\ Len(g[k - 1]) \in Nat /\ Len(g[k]) = Len(g[k - 1]) + Len(seqs[k])
        /\ Len(g[k]) <= Len(g[n])
        /\ \A j \in 1 .. Len(seqs[k]) : g[n][Len(g[k - 1]) + j] = seqs[k][j]

LEMMA JoinedExists ==
    ASSUME NEW n \in Nat, NEW seqs \in [1 .. n -> Seq({0, 1})]
    PROVE  \E g : Joined(g, seqs, n)
<1> DEFINE C == Seq({0, 1})
           step == [x \in (1 .. n) \X C |-> x[2] \o seqs[x[1]]]
<1>1. \A k \in 1 .. n, x \in C : x \o seqs[k] \in C
  BY ConcatProperties
<1>2. step \in [(1 .. n) \X C -> C]
  <2>1. \A x \in (1 .. n) \X C : x[1] \in 1 .. n /\ x[2] \in C
    OBVIOUS
  <2> HIDE DEF C
  <2> QED
    BY <1>1, <2>1
<1>3. <<>> \in C
  OBVIOUS
<1> HIDE DEF C
<1>4. PICK g \in [0 .. n -> C] : g[0] = <<>> /\ \A k \in 1 .. n : g[k] = step[<<k, g[k - 1]>>]
  <2> DEFINE first == <<>>
  <2>1. first \in C
    BY <1>3
  <2> HIDE DEF step, first
  <2>2. \E g \in [0 .. n -> C] : Solves(g, n, first, step)
    BY <1>2, <2>1, RecursionExists, Zenon
  <2> QED
    BY <2>2 DEF first, Solves
<1>5. \A k \in 1 .. n : g[k] = g[k - 1] \o seqs[k]
  <2> TAKE k \in 1 .. n
  <2>1. g[k - 1] \in C
    BY <1>4
  <2>2. <<k, g[k - 1]>> \in (1 .. n) \X C
    BY <2>1
  <2> QED
    BY <1>4, <2>2
<1> QED
  BY <1>4, <1>5 DEF Joined, C

LEMMA JoinedAt ==
    ASSUME NEW n \in Nat, NEW seqs \in [1 .. n -> Seq({0, 1})], NEW g, Joined(g, seqs, n)
    PROVE  Lengths(g, seqs, n)
<1> DEFINE S == {m \in 0 .. n : \A k \in 0 .. m : /\ Len(g[k]) <= Len(g[m])
                                                  /\ \A j \in 1 .. Len(g[k]) : g[m][j] = g[k][j]}
<1>1. \A k \in 0 .. n : g[k] \in Seq({0, 1}) /\ Len(g[k]) \in Nat
  BY DEF Joined
<1>2. \A k \in 1 .. n : /\ k - 1 \in 0 .. n /\ k \in 0 .. n
                        /\ g[k - 1] \in Seq({0, 1}) /\ seqs[k] \in Seq({0, 1})
                        /\ Len(seqs[k]) \in Nat /\ Len(g[k - 1]) \in Nat
  BY <1>1
<1>3. \A k \in 1 .. n :
        /\ Len(g[k]) = Len(g[k - 1]) + Len(seqs[k])
        /\ \A j \in 1 .. Len(g[k]) :
             g[k][j] = IF j <= Len(g[k - 1]) THEN g[k - 1][j] ELSE seqs[k][j - Len(g[k - 1])]
  <2> TAKE k \in 1 .. n
  <2>1. g[k] = g[k - 1] \o seqs[k]
    BY DEF Joined
  <2> QED
    BY <1>2, <2>1, ConcatProperties
<1>4. 0 \in S
  <2>1. \A k \in 0 .. 0 : k = 0
    OBVIOUS
  <2> QED
    BY <1>1, <2>1
<1>5. ASSUME NEW m \in 0 .. n - 1, m \in S PROVE m + 1 \in S
  <2>1. m + 1 \in 1 .. n /\ m + 1 \in 0 .. n /\ (m + 1) - 1 = m /\ m \in 0 .. n
    OBVIOUS
  <2>2. ASSUME NEW k \in 0 .. m + 1
        PROVE  Len(g[k]) <= Len(g[m + 1]) /\ \A j \in 1 .. Len(g[k]) : g[m + 1][j] = g[k][j]
    <3>1. CASE k = m + 1
      BY <3>1, <2>1, <1>1
    <3>2. CASE k # m + 1
      <4>1. k \in 0 .. m /\ k \in 0 .. n
        BY <3>2
      <4>2. Len(g[k]) <= Len(g[m]) /\ \A j \in 1 .. Len(g[k]) : g[m][j] = g[k][j]
        BY <1>5, <4>1
      <4>3. /\ Len(g[m + 1]) = Len(g[m]) + Len(seqs[m + 1])
            /\ \A j \in 1 .. Len(g[m + 1]) : j <= Len(g[m]) => g[m + 1][j] = g[m][j]
        BY <1>3, <2>1
      <4>4. Len(g[m]) \in Nat /\ Len(seqs[m + 1]) \in Nat /\ Len(g[k]) \in Nat
        BY <1>1, <1>2, <2>1, <4>1
      <4>5. Len(g[k]) <= Len(g[m + 1])
        <5>1. \A a, b, c, d \in Nat : a <= b /\ d = b + c => a <= d
          OBVIOUS
        <5>2. Len(g[m + 1]) \in Nat
          BY <1>1, <2>1
        <5> QED
          BY <4>2, <4>3, <4>4, <5>1, <5>2, Zenon
      <4>6. ASSUME NEW j \in 1 .. Len(g[k]) PROVE g[m + 1][j] = g[k][j]
        <5>1. j \in 1 .. Len(g[m + 1]) /\ j <= Len(g[m])
          <6>1. \A a, b, c, d \in Nat : a <= b /\ b <= c /\ d \in 1 .. a => d \in 1 .. c /\ d <= b
            OBVIOUS
          <6>2. Len(g[m + 1]) \in Nat /\ Len(g[m]) <= Len(g[m + 1]) /\ j \in Nat
            <7>1. Len(g[m + 1]) \in Nat /\ j \in Nat
              BY <1>1, <2>1, <4>4
            <7>2. \A b, c, d \in Nat : d = b + c => b <= d
              OBVIOUS
            <7> QED
              BY <4>3, <4>4, <7>1, <7>2, Zenon
          <6> QED
            BY <4>2, <4>4, <6>1, <6>2, Zenon
        <5> QED
          BY <4>2, <4>3, <5>1
      <4> QED
        BY <4>5, <4>6
    <3> QED
      BY <3>1, <3>2
  <2> QED
    BY <2>1, <2>2
<1>6. n \in S
  <2> HIDE DEF S
  <2>1. \A k \in 0 .. n : k \in S
    BY <1>4, <1>5, StepByStep
  <2> QED
    BY <2>1
<1>7. \A k \in 0 .. n : Len(g[k]) <= Len(g[n]) /\ \A j \in 1 .. Len(g[k]) : g[n][j] = g[k][j]
  BY <1>6
<1> HIDE DEF S
<1>8. ASSUME NEW k \in 1 .. n, NEW j \in 1 .. Len(seqs[k])
      PROVE  g[n][Len(g[k - 1]) + j] = seqs[k][j]
  <2>1. /\ Len(g[k - 1]) + j \in 1 .. Len(g[k]) /\ ~(Len(g[k - 1]) + j <= Len(g[k - 1]))
        /\ (Len(g[k - 1]) + j) - Len(g[k - 1]) = j
    BY <1>2, <1>3
  <2>2. g[k][Len(g[k - 1]) + j] = seqs[k][j]
    BY <1>3, <2>1
  <2>3. k \in 0 .. n
    BY <1>2
  <2> QED
    BY <1>7, <2>1, <2>2, <2>3
<1> QED
  BY <1>2, <1>3, <1>7, <1>8 DEF Lengths

(* FlattenSeq joins them.                                                  *)
LEMMA FlattenIs ==
    ASSUME NEW n \in Nat \ {0}, NEW seqs \in [1 .. n -> Seq({0, 1})], NEW g, Joined(g, seqs, n)
    PROVE  FlattenSeq(seqs) = g[n]
<1> DEFINE Is(w) == w = [i \in 1 .. Len(seqs) |-> IF i = 1 THEN seqs[i] ELSE w[i - 1] \o seqs[i]]
           w == [i \in 1 .. n |-> g[i]]
           flatten == CHOOSE x : Is(x)
<1>1. Len(seqs) = n
  BY AsSequence
<1>2. g[1] = seqs[1]
  <2>1. 1 \in 1 .. n /\ 1 - 1 = 0 /\ seqs[1] \in Seq({0, 1})
    OBVIOUS
  <2>2. g[1] = <<>> \o seqs[1]
    BY <2>1 DEF Joined
  <2> QED
    BY <2>1, <2>2, ConcatEmptySeq
<1>3. Is(w)
  <2>1. \A i \in 1 .. n : w[i] = IF i = 1 THEN seqs[i] ELSE w[i - 1] \o seqs[i]
    <3> TAKE i \in 1 .. n
    <3>1. CASE i = 1
      BY <1>2, <3>1
    <3>2. CASE i # 1
      <4>1. i - 1 \in 1 .. n
        BY <3>2
      <4>2. w[i] = g[i] /\ w[i - 1] = g[i - 1]
        BY <4>1
      <4>3. g[i] = g[i - 1] \o seqs[i]
        BY DEF Joined
      <4> QED
        BY <3>2, <4>2, <4>3
    <3> QED
      BY <3>1, <3>2
  <2>2. w = [i \in 1 .. n |-> w[i]]
    OBVIOUS
  <2> HIDE DEF w
  <2> QED
    BY <2>1, <2>2, <1>1
<1>4. Is(flatten)
  BY <1>3
<1> HIDE DEF flatten
<1>5. \A k \in 0 .. n : k # 0 => flatten[k] = g[k]
  <2> DEFINE S == {i \in 0 .. n : i # 0 => flatten[i] = g[i]}
  <2>d. \A i \in 1 .. n : flatten[i] = IF i = 1 THEN seqs[i] ELSE flatten[i - 1] \o seqs[i]
    BY <1>1, <1>4
  <2>1. 0 \in S
    OBVIOUS
  <2>2. ASSUME NEW k \in 0 .. n - 1, k \in S PROVE k + 1 \in S
    <3>1. k + 1 \in 1 .. n /\ (k + 1) - 1 = k /\ k + 1 \in 0 .. n
      OBVIOUS
    <3>2. CASE k = 0
      BY <1>2, <2>d, <3>1, <3>2
    <3>3. CASE k # 0
      <4>1. k + 1 # 1 /\ flatten[k] = g[k]
        BY <2>2, <3>3
      <4>2. flatten[k + 1] = flatten[k] \o seqs[k + 1]
        BY <2>d, <3>1, <4>1
      <4>3. g[k + 1] = g[k] \o seqs[k + 1]
        BY <3>1 DEF Joined
      <4> QED
        BY <3>1, <4>1, <4>2, <4>3
    <3> QED
      BY <3>2, <3>3
  <2> HIDE DEF S
  <2>3. \A k \in 0 .. n : k \in S
    BY <2>1, <2>2, StepByStep
  <2> QED
    BY <2>3 DEF S
<1>6. FlattenSeq(seqs) = flatten[n]
  BY <1>1 DEF FlattenSeq, flatten
<1> QED
  BY <1>5, <1>6

-------------------------------------------------------------------------------
(* The flags of a predicted set are parsed as they were sent, to the last. *)
Codings == {<<0, 0>>, <<1>>, <<0, 1>>}

LEMMA CodingIs ==
    ASSUME NEW c \in Codings
    PROVE  /\ c \in Seq({0, 1}) /\ Len(c) \in {1, 2}
           /\ c[1] = 1 <=> c = <<1>>
           /\ Len(c) = 1 <=> c = <<1>>
           /\ c # <<1>> => (c[2] = 1 <=> c = <<0, 1>>)
           /\ c = <<1>> => c # <<0, 0>> /\ c # <<0, 1>>
           /\ c = <<0, 1>> => c # <<0, 0>>
<1>1. CASE c = <<1>>
  BY <1>1
<1>2. CASE c = <<0, 1>>
  BY <1>2
<1>3. CASE c = <<0, 0>>
  BY <1>3
<1> QED
  BY <1>1, <1>2, <1>3, Zenon DEF Codings

LEMMA FlagsParsed ==
    ASSUME NEW n \in Nat \ {0}, NEW seqs \in [1 .. n -> Codings]
    PROVE  /\ ParseFlags(FlattenSeq(seqs), n - 1).read = Len(FlattenSeq(seqs))
           /\ \A i \in 0 .. n - 1 :
                /\ seqs[i + 1] = <<1>> =>
                     ParseFlags(FlattenSeq(seqs), n - 1).flags[i] = [used |-> TRUE, use |-> TRUE]
                /\ seqs[i + 1] = <<0, 1>> =>
                     ParseFlags(FlattenSeq(seqs), n - 1).flags[i] = [used |-> FALSE, use |-> TRUE]
                /\ seqs[i + 1] = <<0, 0>> =>
                     ParseFlags(FlattenSeq(seqs), n - 1).flags[i] = [used |-> FALSE, use |-> FALSE]
<1>1. seqs \in [1 .. n -> Seq({0, 1})]
  BY CodingIs
<1>2. PICK g : Joined(g, seqs, n)
  BY <1>1, JoinedExists
<1> DEFINE bits == FlattenSeq(seqs)
           last == n - 1
           Bit(at) == at \in DOMAIN bits /\ bits[at] = 1
           Is(w) == w = [i \in 0 .. last + 1 |->
                           IF i = 0 THEN 1 ELSE w[i - 1] + (IF Bit(w[i - 1]) THEN 1 ELSE 2)]
           w == [i \in 0 .. n |-> 1 + Len(g[i])]
           at == CHOOSE x : Is(x)
<1>3. bits = g[n]
  BY <1>1, <1>2, FlattenIs
<1>4. last + 1 = n
  OBVIOUS
<1>5. \A k \in 1 .. n :
        /\ Len(g[k - 1]) \in Nat /\ Len(g[k]) = Len(g[k - 1]) + Len(seqs[k])
        /\ Len(g[k]) <= Len(g[n])
        /\ \A j \in 1 .. Len(seqs[k]) : g[n][Len(g[k - 1]) + j] = seqs[k][j]
  <2>1. Lengths(g, seqs, n)
    BY <1>1, <1>2, JoinedAt
  <2> QED
    BY <2>1, Zenon DEF Lengths
<1>6. g[n] \in Seq({0, 1}) /\ Len(g[n]) \in Nat /\ DOMAIN g[n] = 1 .. Len(g[n])
  <2>1. g[n] \in Seq({0, 1})
    BY <1>2 DEF Joined
  <2> QED
    BY <2>1
<1> HIDE DEF bits
<1>7. ASSUME NEW k \in 1 .. n
      PROVE  /\ seqs[k] \in Codings
             /\ Bit(1 + Len(g[k - 1])) <=> seqs[k] = <<1>>
             /\ seqs[k] # <<1>> => (Bit((1 + Len(g[k - 1])) + 1) <=> seqs[k] = <<0, 1>>)
             /\ 1 + Len(g[k]) = (1 + Len(g[k - 1])) + (IF Bit(1 + Len(g[k - 1])) THEN 1 ELSE 2)
  <2> DEFINE c == seqs[k]
             l == Len(g[k - 1])
  <2>1. c \in Codings
    OBVIOUS
  <2>2. /\ Len(c) \in {1, 2} /\ (c[1] = 1 <=> c = <<1>>) /\ (Len(c) = 1 <=> c = <<1>>)
        /\ c # <<1>> => (c[2] = 1 <=> c = <<0, 1>>)
    BY <2>1, CodingIs, Zenon
  <2>3. /\ l \in Nat /\ Len(g[k]) = l + Len(c) /\ Len(g[k]) <= Len(g[n])
        /\ \A j \in 1 .. Len(c) : g[n][l + j] = c[j]
    BY <1>5, Zenon
  <2> HIDE DEF c, l
  <2>4. 1 + l \in DOMAIN bits /\ bits[1 + l] = c[1]
    <3>1. 1 + l = l + 1 /\ 1 \in 1 .. Len(c)
      BY <2>2, <2>3
    <3>2. 1 + l \in 1 .. Len(g[n])
      BY <2>2, <2>3, <1>6
    <3> QED
      BY <2>3, <3>1, <3>2, <1>3, <1>6
  <2>5. Len(c) = 2 => (1 + l) + 1 \in DOMAIN bits /\ bits[(1 + l) + 1] = c[2]
    <3> SUFFICES ASSUME Len(c) = 2 PROVE (1 + l) + 1 \in DOMAIN bits /\ bits[(1 + l) + 1] = c[2]
      OBVIOUS
    <3>1. (1 + l) + 1 = l + 2 /\ 2 \in 1 .. Len(c)
      BY <2>2, <2>3
    <3>2. l + 2 \in 1 .. Len(g[n])
      BY <2>2, <2>3, <1>6
    <3> QED
      BY <2>3, <3>1, <3>2, <1>3, <1>6
  <2>6. Bit(1 + l) <=> c = <<1>>
    BY <2>2, <2>4
  <2>7. c # <<1>> => Len(c) = 2
    BY <2>2
  <2>8. c # <<1>> => (Bit((1 + l) + 1) <=> c = <<0, 1>>)
    BY <2>2, <2>5, <2>7
  <2>9. 1 + Len(g[k]) = (1 + l) + (IF Bit(1 + l) THEN 1 ELSE 2)
    <3>1. Len(c) = IF Bit(1 + l) THEN 1 ELSE 2
      BY <2>2, <2>6, <2>7
    <3> HIDE DEF Bit
    <3> QED
      BY <2>2, <2>3, <3>1
  <2> HIDE DEF Bit
  <2> QED
    BY <2>1, <2>6, <2>8, <2>9 DEF c, l
<1> HIDE DEF Bit
<1>8. g[0] = <<>>
  BY <1>2 DEF Joined
<1>9. \A i \in 0 .. n : w[i] = IF i = 0 THEN 1 ELSE w[i - 1] + (IF Bit(w[i - 1]) THEN 1 ELSE 2)
  <2> TAKE i \in 0 .. n
  <2>1. CASE i = 0
    BY <1>8, <2>1
  <2>2. CASE i # 0
    <3>1. i \in 1 .. n /\ i - 1 \in 0 .. n
      BY <2>2
    <3>2. w[i] = 1 + Len(g[i]) /\ w[i - 1] = 1 + Len(g[i - 1])
      BY <3>1
    <3> HIDE DEF w
    <3> QED
      BY <1>7, <2>2, <3>1, <3>2
  <2> QED
    BY <2>1, <2>2
<1>10. w = [i \in 0 .. n |-> w[i]]
  OBVIOUS
<1>11. \A i \in 0 .. n : w[i] = 1 + Len(g[i])
  OBVIOUS
<1> HIDE DEF w
<1>12. Is(w)
  <2>1. w = [i \in 0 .. n |-> IF i = 0 THEN 1 ELSE w[i - 1] + (IF Bit(w[i - 1]) THEN 1 ELSE 2)]
    BY <1>9, <1>10
  <2> QED
    BY <2>1, <1>4
<1>13. Is(at)
  BY <1>12, Zenon
<1> HIDE DEF at
<1>14. \A i \in 0 .. n : at[i] = w[i]
  <2> DEFINE S == {i \in 0 .. n : at[i] = w[i]}
  <2>d. \A i \in 0 .. n : at[i] = IF i = 0 THEN 1 ELSE at[i - 1] + (IF Bit(at[i - 1]) THEN 1 ELSE 2)
    BY <1>4, <1>13
  <2>1. 0 \in S
    BY <2>d, <1>9
  <2>2. ASSUME NEW k \in 0 .. n - 1, k \in S PROVE k + 1 \in S
    <3>1. k + 1 \in 0 .. n /\ k + 1 # 0 /\ (k + 1) - 1 = k /\ at[k] = w[k]
      BY <2>2
    <3> QED
      BY <2>d, <1>9, <3>1
  <2> HIDE DEF S
  <2>3. \A k \in 0 .. n : k \in S
    BY <2>1, <2>2, StepByStep
  <2> QED
    BY <2>3 DEF S
<1>15. ParseFlags(bits, last) =
         [flags |-> [i \in 0 .. last |-> [used |-> Bit(at[i]), use |-> Bit(at[i]) \/ Bit(at[i] + 1)]],
          read |-> at[last + 1] - 1]
  BY Zenon DEF ParseFlags, Bit, at
<1> HIDE DEF last
<1>16. ParseFlags(bits, last).read = Len(bits)
  <2>1. ParseFlags(bits, last).read = at[n] - 1
    BY <1>15, <1>4
  <2>2. n \in 0 .. n
    OBVIOUS
  <2> QED
    <3>1. at[n] = 1 + Len(g[n])
      BY <2>2, <1>11, <1>14
    <3>2. Len(bits) = Len(g[n])
      BY <1>3
    <3> QED
      BY <2>1, <3>1, <3>2, <1>6
<1>17. ASSUME NEW i \in 0 .. n - 1
       PROVE  /\ seqs[i + 1] = <<1>> => ParseFlags(bits, last).flags[i] = [used |-> TRUE, use |-> TRUE]
              /\ seqs[i + 1] = <<0, 1>> => ParseFlags(bits, last).flags[i] = [used |-> FALSE, use |-> TRUE]
              /\ seqs[i + 1] = <<0, 0>> => ParseFlags(bits, last).flags[i] = [used |-> FALSE, use |-> FALSE]
  <2>1. i + 1 \in 1 .. n /\ (i + 1) - 1 = i /\ i \in 0 .. n /\ i \in 0 .. last
    BY DEF last
  <2>2. at[i] = 1 + Len(g[i])
    BY <2>1, <1>11, <1>14
  <2>3. ParseFlags(bits, last).flags = [k \in 0 .. last |-> [used |-> Bit(at[k]), use |-> Bit(at[k]) \/ Bit(at[k] + 1)]]
    BY <1>15
  <2>4. ParseFlags(bits, last).flags[i] = [used |-> Bit(at[i]), use |-> Bit(at[i]) \/ Bit(at[i] + 1)]
    BY <2>1, <2>3, Zenon
  <2>5. /\ seqs[i + 1] \in Codings
        /\ Bit(at[i]) <=> seqs[i + 1] = <<1>>
        /\ seqs[i + 1] # <<1>> => (Bit(at[i] + 1) <=> seqs[i + 1] = <<0, 1>>)
    BY <1>7, <2>1, <2>2
  <2>6. /\ seqs[i + 1] = <<1>> => seqs[i + 1] # <<0, 0>> /\ seqs[i + 1] # <<0, 1>>
        /\ seqs[i + 1] = <<0, 1>> => seqs[i + 1] # <<0, 0>>
    BY <2>5, CodingIs, Zenon
  <2>7. Bit(at[i]) \in BOOLEAN /\ Bit(at[i] + 1) \in BOOLEAN
    BY DEF Bit
  <2>8. seqs[i + 1] = <<1>> => Bit(at[i]) = TRUE /\ (Bit(at[i]) \/ Bit(at[i] + 1)) = TRUE
    BY <2>5, <2>7, Zenon
  <2>9. seqs[i + 1] = <<0, 1>> => Bit(at[i]) = FALSE /\ (Bit(at[i]) \/ Bit(at[i] + 1)) = TRUE
    BY <2>5, <2>6, <2>7, Zenon
  <2>10. seqs[i + 1] = <<0, 0>> => Bit(at[i]) = FALSE /\ (Bit(at[i]) \/ Bit(at[i] + 1)) = FALSE
    BY <2>5, <2>6, <2>7, Zenon
  <2> QED
    BY <2>4, <2>8, <2>9, <2>10, Zenon
<1> QED
  BY <1>16, <1>17 DEF bits, last

-------------------------------------------------------------------------------
(* Lists after one another and backwards.                                  *)
Backwards(r, x, n, T) ==
    /\ r \in [1 .. n -> T]
    /\ \A i \in 1 .. n : (n - i) + 1 \in 1 .. n /\ r[i] = x[(n - i) + 1]

LEMMA ReverseIs ==
    ASSUME NEW n \in Nat, NEW T, NEW x \in [1 .. n -> T]
    PROVE  Backwards(Reverse(x), x, n, T)
<1>1. Len(x) = n
  BY AsSequence
<1>2. Reverse(x) = [i \in 1 .. n |-> x[(n - i) + 1]]
  BY <1>1 DEF Reverse
<1>3. \A i \in 1 .. n : (n - i) + 1 \in 1 .. n
  OBVIOUS
<1> QED
  BY <1>2, <1>3 DEF Backwards

Lists(w, a, b, c, x, y, z) ==
    \A i \in 1 .. a + b + c :
        w[i] = IF i <= a THEN x[i] ELSE IF i <= a + b THEN y[i - a] ELSE z[i - (a + b)]

LEMMA ThreeLists ==
    ASSUME NEW a \in Nat, NEW b \in Nat, NEW c \in Nat, NEW T,
           NEW x \in [1 .. a -> T], NEW y \in [1 .. b -> T], NEW z \in [1 .. c -> T]
    PROVE  /\ x \o y \o z \in [1 .. a + b + c -> T]
           /\ Lists(x \o y \o z, a, b, c, x, y, z)
<1>1. x \in Seq(T) /\ Len(x) = a /\ y \in Seq(T) /\ Len(y) = b /\ z \in Seq(T) /\ Len(z) = c
  BY AsSequence
<1> DEFINE v == x \o y
           w == v \o z
<1>2. /\ v \in Seq(T) /\ Len(v) = a + b
      /\ \A i \in 1 .. a + b : v[i] = IF i <= a THEN x[i] ELSE y[i - a]
  BY <1>1, ConcatProperties
<1> HIDE DEF v
<1>3. /\ w \in Seq(T) /\ Len(w) = (a + b) + c
      /\ \A i \in 1 .. (a + b) + c : w[i] = IF i <= a + b THEN v[i] ELSE z[i - (a + b)]
  <2>1. /\ w \in Seq(T) /\ Len(w) = Len(v) + Len(z)
        /\ \A i \in 1 .. Len(v) + Len(z) : w[i] = IF i <= Len(v) THEN v[i] ELSE z[i - Len(v)]
    <3>1. v \in Seq(T) /\ z \in Seq(T)
      BY <1>1, <1>2
    <3> QED
      BY <3>1, ConcatProperties
  <2> HIDE DEF w
  <2> QED
    BY <1>1, <1>2, <2>1
<1> HIDE DEF w
<1>4. w \in [1 .. (a + b) + c -> T]
  BY <1>3
<1>5. Lists(w, a, b, c, x, y, z)
  <2>1. ASSUME NEW i \in 1 .. a + b + c
        PROVE  w[i] = IF i <= a THEN x[i] ELSE IF i <= a + b THEN y[i - a] ELSE z[i - (a + b)]
    <3>1. i \in 1 .. (a + b) + c
      OBVIOUS
    <3>2. CASE i <= a + b
      <4>1. i \in 1 .. a + b
        BY <3>2
      <4> QED
        BY <1>2, <1>3, <3>1, <3>2, <4>1
    <3>3. CASE ~(i <= a + b)
      <4>1. ~(i <= a)
        BY <3>3
      <4> QED
        BY <1>3, <3>1, <3>3, <4>1
    <3> QED
      BY <3>2, <3>3
  <2> QED
    BY <2>1 DEF Lists
<1> QED
  BY <1>4, <1>5 DEF w, v

-------------------------------------------------------------------------------
(* Lists of the pictures on one side, nearest first.                       *)
Recedes(s, n, sign) == \A i, j \in 1 .. n : i < j => sign * s[i] < sign * s[j]
OnSide(t, sign) == {d \in DOMAIN t : sign * d > 0}

LEMMA RecedingUnique ==
    ASSUME NEW m \in Nat, NEW n \in Nat, NEW s \in [1 .. m -> Int], NEW u \in [1 .. n -> Int],
           NEW sign \in {-1, 1}, Recedes(s, m, sign), Recedes(u, n, sign),
           Elements(s, m) = Elements(u, n)
    PROVE  m = n /\ s = u
<1>1. CASE sign = 1
  <2>1. Rises(s, m)
    BY <1>1 DEF Recedes, Rises
  <2>2. Rises(u, n)
    BY <1>1 DEF Recedes, Rises
  <2> QED
    BY <2>1, <2>2, RisingUnique, Zenon
<1>2. CASE sign = -1
  <2>1. Falls(s, m)
    BY <1>2 DEF Recedes, Falls
  <2>2. Falls(u, n)
    BY <1>2 DEF Recedes, Falls
  <2> QED
    BY <2>1, <2>2, FallingUnique, Zenon
<1> QED
  BY <1>1, <1>2

(* The candidates on one side that keep their flag are the pictures of the *)
(* target on that side.                                                    *)
Offered(C, n, t) ==
    /\ C = [i \in 1 .. n |-> C[i]]
    /\ \A i \in 1 .. n : /\ C[i].delta \in Int
                         /\ C[i].delta \in DOMAIN t => /\ C[i].flag.use = TRUE
                                                       /\ C[i].flag.used = t[C[i].delta]
                         /\ C[i].delta \notin DOMAIN t => C[i].flag.use = FALSE
    /\ \A d \in DOMAIN t : \E i \in 1 .. n : C[i].delta = d
Orders(C, n, sign) == \A i, j \in 1 .. n : i < j => sign * C[i].delta < sign * C[j].delta

LEMMA KeptIs ==
    ASSUME NEW n \in Nat, NEW C, NEW t \in Targets, NEW sign \in {-1, 1},
           Offered(C, n, t), Orders(C, n, sign),
           NEW l \in Nat, NEW L \in [1 .. l -> Int], Recedes(L, l, sign),
           Elements(L, l) = OnSide(t, sign)
    PROVE  Kept(C, sign) = Side(L, t)
<1> DEFINE P == {i \in 1 .. n : sign * C[i].delta > 0 /\ C[i].delta \in DOMAIN t}
           kept == Selected(C, P)
<1>1. C = [i \in 1 .. n |-> C[i]] /\ DOMAIN C = 1 .. n
  <2>1. C = [i \in 1 .. n |-> C[i]]
    BY Zenon DEF Offered
  <2> QED
    BY <2>1, LengthOf
<1>2. \A i \in 1 .. n : /\ C[i].delta \in Int
                        /\ C[i].flag.use <=> C[i].delta \in DOMAIN t
                        /\ C[i].delta \in DOMAIN t => C[i].flag.used = t[C[i].delta]
  BY DEF Offered
<1>3. {i \in DOMAIN C : sign * C[i].delta > 0 /\ C[i].flag.use} = P
  BY <1>1, <1>2
<1>4. P \in SUBSET (1 .. n)
  OBVIOUS
<1> DEFINE c == Cardinality(P)
           p == Sorted(P)
<1>5. /\ c \in Nat /\ p \in [1 .. c -> P]
      /\ Rises(p, c) /\ Elements(p, c) = P /\ kept = [i \in 1 .. c |-> C[p[i]]]
  <2> HIDE DEF P
  <2> QED
    <3>1. c \in Nat /\ Picks(C, P, c, p)
      BY <1>4, SelectedIs, Zenon
    <3> QED
      BY <3>1, Zenon DEF Picks
<1> HIDE DEF c, p, kept
<1> DEFINE K == [i \in 1 .. c |-> C[p[i]].delta]
<1>6. \A i \in 1 .. c : /\ p[i] \in 1 .. n /\ C[p[i]].delta \in Int /\ C[p[i]].delta \in DOMAIN t
                        /\ sign * C[p[i]].delta > 0
  <2>1. \A i \in 1 .. c : p[i] \in P
    BY <1>5
  <2> QED
    BY <1>2, <2>1
<1>7. K \in [1 .. c -> Int]
  BY <1>6
<1>8. Recedes(K, c, sign)
  <2> SUFFICES ASSUME NEW i \in 1 .. c, NEW j \in 1 .. c, i < j PROVE sign * K[i] < sign * K[j]
    BY DEF Recedes
  <2>1. p[i] < p[j] /\ p[i] \in 1 .. n /\ p[j] \in 1 .. n
    BY <1>5, <1>6 DEF Rises
  <2>2. sign * C[p[i]].delta < sign * C[p[j]].delta
    BY <2>1, Zenon DEF Orders
  <2> QED
    BY <2>2
<1>9. Elements(K, c) = OnSide(t, sign)
  <2>1. \A i \in 1 .. c : K[i] \in OnSide(t, sign)
    BY <1>6 DEF OnSide
  <2>2. ASSUME NEW d \in OnSide(t, sign) PROVE \E i \in 1 .. c : K[i] = d
    <3>1. PICK k \in 1 .. n : C[k].delta = d
      BY Zenon DEF Offered, OnSide
    <3>2. k \in P
      BY <3>1 DEF OnSide
    <3>3. PICK i \in 1 .. c : p[i] = k
      BY <1>5, <3>2, Zenon DEF Elements
    <3> QED
      BY <3>1, <3>3
  <2> HIDE DEF K
  <2> QED
    BY <2>1, <2>2 DEF Elements
<1>10. c = l /\ K = L
  <2> HIDE DEF K
  <2>1. Elements(K, c) = Elements(L, l)
    BY <1>9
  <2> QED
    BY <1>5, <1>7, <1>8, <2>1, RecedingUnique
<1>11. \A i \in 1 .. c : kept[i].delta = L[i] /\ kept[i].flag.used = t[L[i]]
  <2> TAKE i \in 1 .. c
  <2>1. kept[i] = C[p[i]] /\ L[i] = C[p[i]].delta
    <3>1. K[i] = C[p[i]].delta
      OBVIOUS
    <3> HIDE DEF K
    <3> QED
      BY <1>5, <1>10, <3>1
  <2> QED
    BY <1>2, <1>6, <2>1
<1>12. DOMAIN kept = 1 .. c
  BY <1>5
<1>13. Kept(C, sign) = [i \in 1 .. c |-> [delta |-> kept[i].delta, used |-> kept[i].flag.used]]
  BY <1>3, <1>12, Zenon DEF Kept, kept
<1>14. Side(L, t) = [i \in 1 .. l |-> [delta |-> L[i], used |-> t[L[i]]]]
  BY DEF Side
<1> QED
  BY <1>10, <1>11, <1>13, <1>14

-------------------------------------------------------------------------------
(* The pictures a set can be predicted from, in the order of the flags.    *)
LEMMA SideIs ==
    ASSUME NEW n \in Nat, NEW L \in [1 .. n -> Int], NEW t
    PROVE  /\ Len(Side(L, t)) = n /\ DOMAIN Side(L, t) = 1 .. n
           /\ Side(L, t) = [i \in 1 .. n |-> [delta |-> L[i], used |-> t[L[i]]]]
<1>1. Side(L, t) = [i \in 1 .. n |-> [delta |-> L[i], used |-> t[L[i]]]]
  BY DEF Side
<1> DEFINE s == Side(L, t)
<1>2. s = [i \in 1 .. n |-> s[i]]
  BY <1>1
<1> HIDE DEF s
<1>3. Len(s) = n /\ DOMAIN s = 1 .. n
  BY <1>2, LengthOf
<1> QED
  BY <1>1, <1>3 DEF s

Moves(M, nb, na, B, A) ==
    /\ M \in [1 .. (nb + na) + 1 -> Int]
    /\ \A i \in 1 .. nb : M[i] = B[i]
    /\ \A i \in 1 .. na : M[nb + i] = A[i]
    /\ M[(nb + na) + 1] = 0

LEMMA MovableIs ==
    ASSUME NEW from \in Targets
    PROVE  /\ Moves(Movable(from), Len(Below(from)), Len(Above(from)), Below(from), Above(from))
           /\ Len(Movable(from)) = (Len(Below(from)) + Len(Above(from))) + 1
<1> DEFINE B == Below(from)
           A == Above(from)
           nb == Len(B)
           na == Len(A)
           z == <<0>>
           M == B \o A \o z
<1>1. nb \in Nat /\ B \in [1 .. nb -> Int] /\ na \in Nat /\ A \in [1 .. na -> Int]
  BY AboveIs, BelowIs, Zenon
<1>2. 1 \in Nat /\ z \in [1 .. 1 -> Int] /\ z[1] = 0
  OBVIOUS
<1> HIDE DEF B, A, z, nb, na
<1>3. M \in [1 .. nb + na + 1 -> Int] /\ Lists(M, nb, na, 1, B, A, z)
  BY <1>1, <1>2, ThreeLists, Zenon
<1> HIDE DEF M
<1>4. \A i \in 1 .. nb : M[i] = B[i]
  <2> TAKE i \in 1 .. nb
  <2>1. i \in 1 .. nb + na + 1 /\ i <= nb
    BY <1>1
  <2> QED
    BY <1>3, <2>1 DEF Lists
<1>5. \A i \in 1 .. na : M[nb + i] = A[i]
  <2> TAKE i \in 1 .. na
  <2>1. nb + i \in 1 .. nb + na + 1 /\ ~(nb + i <= nb) /\ nb + i <= nb + na /\ (nb + i) - nb = i
    BY <1>1
  <2> QED
    BY <1>3, <2>1 DEF Lists
<1>6. M[(nb + na) + 1] = 0
  <2>1. (nb + na) + 1 \in 1 .. nb + na + 1 /\ ~((nb + na) + 1 <= nb) /\ ~((nb + na) + 1 <= nb + na)
        /\ ((nb + na) + 1) - (nb + na) = 1
    BY <1>1
  <2> QED
    BY <1>2, <1>3, <2>1 DEF Lists
<1>7. M \in [1 .. (nb + na) + 1 -> Int] /\ (nb + na) + 1 \in Nat
  BY <1>1, <1>3
<1>8. Len(M) = (nb + na) + 1
  BY <1>7, AsSequence
<1>9. Moves(M, nb, na, B, A)
  BY <1>4, <1>5, <1>6, <1>7 DEF Moves
<1> QED
  BY <1>8, <1>9 DEF M, B, A, z, nb, na, Movable

(* The flags say which of these pictures, moved, the target has.           *)
Tells(set, M, n, t) ==
    \A k \in 1 .. n :
        /\ M[k] + set.deltaRps \in DOMAIN t =>
             set.flags[k - 1].use = TRUE /\ set.flags[k - 1].used = t[M[k] + set.deltaRps]
        /\ M[k] + set.deltaRps \notin DOMAIN t => set.flags[k - 1].use = FALSE

Candidate(set, M, k) == [delta |-> M[k] + set.deltaRps, flag |-> set.flags[k - 1]]

Covers(q, n) == q \in [1 .. n -> 1 .. n] /\ \A k \in 1 .. n : \E i \in 1 .. n : q[i] = k
Lined(C, n, set, M, q) == C = [i \in 1 .. n |-> Candidate(set, M, q[i])]
Reaches(M, n, deltaRps, t) == DOMAIN t \subseteq {M[k] + deltaRps : k \in 1 .. n}

LEMMA InAnyOrder ==
    ASSUME NEW n \in Nat, NEW M \in [1 .. n -> Int], NEW t \in Targets, NEW set,
           set.deltaRps \in Int, Tells(set, M, n, t), Reaches(M, n, set.deltaRps, t),
           NEW q, Covers(q, n), NEW C, Lined(C, n, set, M, q)
    PROVE  Offered(C, n, t)
<1>a. C = [i \in 1 .. n |-> Candidate(set, M, q[i])]
  BY DEF Lined
<1>b. q \in [1 .. n -> 1 .. n] /\ \A k \in 1 .. n : \E i \in 1 .. n : q[i] = k
  BY DEF Covers
<1>c. DOMAIN t \subseteq {M[k] + set.deltaRps : k \in 1 .. n}
  BY DEF Reaches
<1>1. \A i \in 1 .. n : C[i] = Candidate(set, M, q[i]) /\ q[i] \in 1 .. n
  BY <1>a, <1>b
<1>2. \A i \in 1 .. n : C[i].delta = M[q[i]] + set.deltaRps /\ C[i].flag = set.flags[q[i] - 1]
  <2>1. \A k : /\ Candidate(set, M, k).delta = M[k] + set.deltaRps
               /\ Candidate(set, M, k).flag = set.flags[k - 1]
    BY DEF Candidate
  <2> QED
    BY <1>1, <2>1, Zenon
<1>3. C = [i \in 1 .. n |-> C[i]]
  BY <1>a
<1>4. ASSUME NEW i \in 1 .. n
      PROVE  /\ C[i].delta \in Int
             /\ C[i].delta \in DOMAIN t => C[i].flag.use = TRUE /\ C[i].flag.used = t[C[i].delta]
             /\ C[i].delta \notin DOMAIN t => C[i].flag.use = FALSE
  <2> DEFINE k == q[i]
             d == M[k] + set.deltaRps
  <2>k. k \in 1 .. n /\ C[i].delta = d /\ C[i].flag = set.flags[k - 1]
    BY <1>1, <1>2, Zenon
  <2>1. k \in 1 .. n /\ C[i].delta = d /\ C[i].flag = set.flags[k - 1] /\ d \in Int
    <3> HIDE DEF k
    <3>1. M[k] \in Int
      BY <2>k
    <3>2. d \in Int
      <4>1. \A x, y \in Int : x + y \in Int
        OBVIOUS
      <4> QED
        BY <3>1, <4>1, Zenon
    <3> QED
      BY <2>k, <3>2, Zenon
  <2>2. /\ d \in DOMAIN t => set.flags[k - 1].use = TRUE /\ set.flags[k - 1].used = t[d]
        /\ d \notin DOMAIN t => set.flags[k - 1].use = FALSE
    BY <2>1, Zenon DEF Tells
  <2> HIDE DEF k, d
  <2> QED
    BY <2>1, <2>2, Zenon
<1>5. ASSUME NEW d \in DOMAIN t PROVE \E i \in 1 .. n : C[i].delta = d
  <2>1. PICK k \in 1 .. n : d = M[k] + set.deltaRps
    BY <1>c
  <2>2. PICK i \in 1 .. n : q[i] = k
    BY <1>b
  <2> QED
    BY <1>2, <2>1, <2>2
<1> QED
  BY <1>3, <1>4, <1>5, Zenon DEF Offered

Thirds(set, M, nb, na, below, above, self) ==
    /\ below = [i \in 1 .. nb |-> Candidate(set, M, i)]
    /\ above = [i \in 1 .. na |-> Candidate(set, M, nb + i)]
    /\ self = [i \in 1 .. 1 |-> Candidate(set, M, (nb + na) + 1)]

LEMMA CandidatesAre ==
    ASSUME NEW from \in Targets, NEW set, set.deltaRps \in Int,
           NEW nb, nb = Len(Below(from)), NEW na, na = Len(Above(from)), NEW M, M = Movable(from)
    PROVE  /\ Thirds(set, M, nb, na, Candidates(set, EntryOf(from).s0, 0),
                     Candidates(set, EntryOf(from).s1, Len(EntryOf(from).s0)),
                     Candidates(set, <<[delta |-> 0]>>, numDeltaPocs(EntryOf(from))))
           /\ numDeltaPocs(EntryOf(from)) = nb + na
<1> DEFINE B == Below(from)
           A == Above(from)
           s0 == Side(B, from)
           s1 == Side(A, from)
           self == <<[delta |-> 0]>>
<1>1. nb \in Nat /\ B \in [1 .. nb -> Int] /\ na \in Nat /\ A \in [1 .. na -> Int]
  BY AboveIs, BelowIs, Zenon
<1>2. EntryOf(from).s0 = s0 /\ EntryOf(from).s1 = s1
  BY DEF EntryOf
<1>3. Moves(M, nb, na, B, A)
  BY MovableIs, Zenon
<1> HIDE DEF B, A
<1>4. /\ Len(s0) = nb /\ DOMAIN s0 = 1 .. nb
      /\ s0 = [i \in 1 .. nb |-> [delta |-> B[i], used |-> from[B[i]]]]
  BY <1>1, SideIs
<1>5. /\ Len(s1) = na /\ DOMAIN s1 = 1 .. na
      /\ s1 = [i \in 1 .. na |-> [delta |-> A[i], used |-> from[A[i]]]]
  BY <1>1, SideIs
<1> HIDE DEF s0, s1
<1>6. numDeltaPocs(EntryOf(from)) = nb + na
  BY <1>2, <1>4, <1>5 DEF numDeltaPocs
<1>7. Candidates(set, s0, 0) = [i \in 1 .. nb |-> Candidate(set, M, i)]
  <2>1. ASSUME NEW i \in 1 .. nb
        PROVE  [delta |-> s0[i].delta + set.deltaRps, flag |-> set.flags[0 + i - 1]] = Candidate(set, M, i)
    <3>1. s0[i].delta = M[i]
      BY <1>3, <1>4 DEF Moves
    <3>2. 0 + i - 1 = i - 1
      OBVIOUS
    <3> QED
      BY <3>1, <3>2 DEF Candidate
  <2> QED
    BY <1>4, <2>1 DEF Candidates
<1>8. Candidates(set, s1, nb) = [i \in 1 .. na |-> Candidate(set, M, nb + i)]
  <2>1. ASSUME NEW i \in 1 .. na
        PROVE  [delta |-> s1[i].delta + set.deltaRps, flag |-> set.flags[nb + i - 1]] = Candidate(set, M, nb + i)
    <3>1. s1[i].delta = M[nb + i]
      BY <1>3, <1>5 DEF Moves
    <3> QED
      BY <3>1 DEF Candidate
  <2> QED
    BY <1>5, <2>1 DEF Candidates
<1>9. Candidates(set, self, nb + na) = [i \in 1 .. 1 |-> Candidate(set, M, (nb + na) + 1)]
  <2>1. DOMAIN self = 1 .. 1 /\ self[1].delta = 0
    OBVIOUS
  <2>2. M[(nb + na) + 1] = 0
    BY <1>3 DEF Moves
  <2> HIDE DEF self
  <2>3. ASSUME NEW i \in 1 .. 1
        PROVE  [delta |-> self[i].delta + set.deltaRps, flag |-> set.flags[(nb + na) + i - 1]]
                 = Candidate(set, M, (nb + na) + 1)
    <3>1. i = 1 /\ (nb + na) + i - 1 = ((nb + na) + 1) - 1
      BY <1>1
    <3> QED
      BY <2>1, <2>2, <3>1 DEF Candidate
  <2> QED
    BY <2>1, <2>3 DEF Candidates
<1> QED
  BY <1>2, <1>4, <1>6, <1>7, <1>8, <1>9 DEF self, Thirds

(* Downwards: what follows from the last, the picture itself, then what    *)
(* precedes.                                                               *)
Downwards(nb, na) ==
    [i \in 1 .. (nb + na) + 1 |->
        IF i <= na THEN nb + ((na - i) + 1) ELSE IF i <= na + 1 THEN (nb + na) + 1 ELSE i - (na + 1)]
Upwards(nb, na) ==
    [i \in 1 .. (nb + na) + 1 |->
        IF i <= nb THEN (nb - i) + 1 ELSE IF i <= nb + 1 THEN (nb + na) + 1 ELSE nb + (i - (nb + 1))]

Descends(M, q, n) == \A i, j \in 1 .. n : i < j => M[q[j]] < M[q[i]]
Ascends(M, q, n) == \A i, j \in 1 .. n : i < j => M[q[i]] < M[q[j]]

LEMMA DownwardsIs ==
    ASSUME NEW nb \in Nat, NEW na \in Nat, NEW B \in [1 .. nb -> Int], NEW A \in [1 .. na -> Int],
           Falls(B, nb), \A i \in 1 .. nb : B[i] < 0, Rises(A, na), \A i \in 1 .. na : A[i] > 0,
           NEW M, Moves(M, nb, na, B, A)
    PROVE  /\ Covers(Downwards(nb, na), (nb + na) + 1)
           /\ Descends(M, Downwards(nb, na), (nb + na) + 1)
<1> DEFINE N == (nb + na) + 1
           q == Downwards(nb, na)
<1>1. q = [i \in 1 .. N |-> IF i <= na THEN nb + ((na - i) + 1)
                            ELSE IF i <= na + 1 THEN N ELSE i - (na + 1)]
  BY DEF Downwards
<1> HIDE DEF q
<1>2. \A i \in 1 .. N : /\ i <= na => q[i] = nb + ((na - i) + 1)
                        /\ i = na + 1 => q[i] = N
                        /\ i > na + 1 => q[i] = i - (na + 1)
  BY <1>1
<1>3. q \in [1 .. N -> 1 .. N]
  BY <1>1
<1>4. ASSUME NEW k \in 1 .. N PROVE \E i \in 1 .. N : q[i] = k
  <2>1. CASE k <= nb
    <3>1. k + (na + 1) \in 1 .. N /\ k + (na + 1) > na + 1 /\ (k + (na + 1)) - (na + 1) = k
      BY <2>1
    <3> QED
      BY <1>2, <3>1
  <2>2. CASE k = N
    <3>1. na + 1 \in 1 .. N
      OBVIOUS
    <3> QED
      BY <1>2, <2>2, <3>1
  <2>3. CASE k > nb /\ k # N
    <3>1. /\ (na - (k - nb)) + 1 \in 1 .. N /\ (na - (k - nb)) + 1 <= na
          /\ nb + ((na - ((na - (k - nb)) + 1)) + 1) = k
      BY <2>3
    <3> QED
      BY <1>2, <3>1
  <2> QED
    BY <2>1, <2>2, <2>3
<1>5. \A i \in 1 .. N : /\ i <= na => (na - i) + 1 \in 1 .. na /\ M[q[i]] = A[(na - i) + 1]
                        /\ i = na + 1 => M[q[i]] = 0
                        /\ i > na + 1 => i - (na + 1) \in 1 .. nb /\ M[q[i]] = B[i - (na + 1)]
  <2> TAKE i \in 1 .. N
  <2>1. CASE i <= na
    <3>1. (na - i) + 1 \in 1 .. na /\ q[i] = nb + ((na - i) + 1) /\ ~(i = na + 1) /\ ~(i > na + 1)
      BY <1>2, <2>1
    <3> QED
      BY <3>1 DEF Moves
  <2>2. CASE i = na + 1
    <3>1. q[i] = N /\ ~(i <= na) /\ ~(i > na + 1)
      BY <1>2, <2>2
    <3> QED
      BY <3>1, <2>2 DEF Moves
  <2>3. CASE i > na + 1
    <3>1. i - (na + 1) \in 1 .. nb /\ q[i] = i - (na + 1) /\ ~(i <= na) /\ ~(i = na + 1)
      BY <1>2, <2>3
    <3> QED
      BY <3>1, <2>3 DEF Moves
  <2> QED
    BY <2>1, <2>2, <2>3
<1>6. ASSUME NEW i \in 1 .. N, NEW j \in 1 .. N, i < j PROVE M[q[j]] < M[q[i]]
  <2>1. CASE j <= na
    <3>1. i <= na /\ (na - j) + 1 < (na - i) + 1
      BY <1>6, <2>1
    <3> QED
      BY <1>5, <2>1, <3>1 DEF Rises
  <2>2. CASE i > na + 1
    <3>1. j > na + 1 /\ i - (na + 1) < j - (na + 1)
      BY <1>6, <2>2
    <3> QED
      BY <1>5, <2>2, <3>1 DEF Falls
  <2>3. CASE i <= na /\ j = na + 1
    BY <1>5, <2>3
  <2>4. CASE i <= na + 1 /\ j > na + 1
    <3>1. M[q[j]] < 0
      BY <1>5, <2>4
    <3>2. M[q[i]] \in Int /\ M[q[i]] >= 0
      <4>1. CASE i <= na
        BY <1>5, <4>1
      <4>2. CASE i = na + 1
        BY <1>5, <4>2
      <4> QED
        BY <2>4, <4>1, <4>2
    <3>3. M[q[j]] \in Int
      BY <1>5, <2>4
    <3> QED
      BY <3>1, <3>2, <3>3
  <2>5. \/ j <= na \/ i > na + 1 \/ (i <= na /\ j = na + 1) \/ (i <= na + 1 /\ j > na + 1)
    BY <1>6
  <2> QED
    BY <2>1, <2>2, <2>3, <2>4, <2>5, Zenon
<1> QED
  BY <1>3, <1>4, <1>6 DEF q, Covers, Descends, Ascends

LEMMA UpwardsIs ==
    ASSUME NEW nb \in Nat, NEW na \in Nat, NEW B \in [1 .. nb -> Int], NEW A \in [1 .. na -> Int],
           Falls(B, nb), \A i \in 1 .. nb : B[i] < 0, Rises(A, na), \A i \in 1 .. na : A[i] > 0,
           NEW M, Moves(M, nb, na, B, A)
    PROVE  /\ Covers(Upwards(nb, na), (nb + na) + 1)
           /\ Ascends(M, Upwards(nb, na), (nb + na) + 1)
<1> DEFINE N == (nb + na) + 1
           q == Upwards(nb, na)
<1>1. q = [i \in 1 .. N |-> IF i <= nb THEN (nb - i) + 1
                            ELSE IF i <= nb + 1 THEN N ELSE nb + (i - (nb + 1))]
  BY DEF Upwards
<1> HIDE DEF q
<1>2. \A i \in 1 .. N : /\ i <= nb => q[i] = (nb - i) + 1
                        /\ i = nb + 1 => q[i] = N
                        /\ i > nb + 1 => q[i] = nb + (i - (nb + 1))
  BY <1>1
<1>3. q \in [1 .. N -> 1 .. N]
  BY <1>1
<1>4. ASSUME NEW k \in 1 .. N PROVE \E i \in 1 .. N : q[i] = k
  <2>1. CASE k <= nb
    <3>1. (nb - k) + 1 \in 1 .. N /\ (nb - k) + 1 <= nb /\ (nb - ((nb - k) + 1)) + 1 = k
      BY <2>1
    <3> QED
      BY <1>2, <3>1
  <2>2. CASE k = N
    <3>1. nb + 1 \in 1 .. N
      OBVIOUS
    <3> QED
      BY <1>2, <2>2, <3>1
  <2>3. CASE k > nb /\ k # N
    <3>1. k + 1 \in 1 .. N /\ k + 1 > nb + 1 /\ nb + ((k + 1) - (nb + 1)) = k
      BY <2>3
    <3> QED
      BY <1>2, <3>1
  <2> QED
    BY <2>1, <2>2, <2>3
<1>5. \A i \in 1 .. N : /\ i <= nb => (nb - i) + 1 \in 1 .. nb /\ M[q[i]] = B[(nb - i) + 1]
                        /\ i = nb + 1 => M[q[i]] = 0
                        /\ i > nb + 1 => i - (nb + 1) \in 1 .. na /\ M[q[i]] = A[i - (nb + 1)]
  <2> TAKE i \in 1 .. N
  <2>1. CASE i <= nb
    <3>1. (nb - i) + 1 \in 1 .. nb /\ q[i] = (nb - i) + 1 /\ ~(i = nb + 1) /\ ~(i > nb + 1)
      BY <1>2, <2>1
    <3> QED
      BY <3>1 DEF Moves
  <2>2. CASE i = nb + 1
    <3>1. q[i] = N /\ ~(i <= nb) /\ ~(i > nb + 1)
      BY <1>2, <2>2
    <3> QED
      BY <3>1, <2>2 DEF Moves
  <2>3. CASE i > nb + 1
    <3>1. i - (nb + 1) \in 1 .. na /\ q[i] = nb + (i - (nb + 1)) /\ ~(i <= nb) /\ ~(i = nb + 1)
      BY <1>2, <2>3
    <3> QED
      BY <3>1, <2>3 DEF Moves
  <2> QED
    BY <2>1, <2>2, <2>3
<1>6. ASSUME NEW i \in 1 .. N, NEW j \in 1 .. N, i < j PROVE M[q[i]] < M[q[j]]
  <2>1. CASE j <= nb
    <3>1. i <= nb /\ (nb - j) + 1 < (nb - i) + 1
      BY <1>6, <2>1
    <3> QED
      BY <1>5, <2>1, <3>1 DEF Falls
  <2>2. CASE i > nb + 1
    <3>1. j > nb + 1 /\ i - (nb + 1) < j - (nb + 1)
      BY <1>6, <2>2
    <3> QED
      BY <1>5, <2>2, <3>1 DEF Rises
  <2>3. CASE i <= nb /\ j = nb + 1
    BY <1>5, <2>3
  <2>4. CASE i <= nb + 1 /\ j > nb + 1
    <3>1. M[q[j]] > 0
      BY <1>5, <2>4
    <3>2. M[q[i]] \in Int /\ M[q[i]] <= 0
      <4>1. CASE i <= nb
        BY <1>5, <4>1
      <4>2. CASE i = nb + 1
        BY <1>5, <4>2
      <4> QED
        BY <2>4, <4>1, <4>2
    <3>3. M[q[j]] \in Int
      BY <1>5, <2>4
    <3> QED
      BY <3>1, <3>2, <3>3
  <2>5. \/ j <= nb \/ i > nb + 1 \/ (i <= nb /\ j = nb + 1) \/ (i <= nb + 1 /\ j > nb + 1)
    BY <1>6
  <2> QED
    BY <2>1, <2>2, <2>3, <2>4, <2>5, Zenon
<1> QED
  BY <1>3, <1>4, <1>6 DEF q, Covers, Descends, Ascends

(* The candidates as Predicted lines them up.                              *)
LEMMA LinedUp ==
    ASSUME NEW nb \in Nat, NEW na \in Nat, NEW set, NEW M, NEW below, NEW above, NEW self,
           Thirds(set, M, nb, na, below, above, self)
    PROVE  /\ Lined(Reverse(above) \o self \o below, (nb + na) + 1, set, M, Downwards(nb, na))
           /\ Lined(Reverse(below) \o self \o above, (nb + na) + 1, set, M, Upwards(nb, na))
<1>a. /\ below = [i \in 1 .. nb |-> Candidate(set, M, i)]
      /\ above = [i \in 1 .. na |-> Candidate(set, M, nb + i)]
      /\ self = [i \in 1 .. 1 |-> Candidate(set, M, (nb + na) + 1)]
  BY DEF Thirds
<1> DEFINE N == (nb + na) + 1
           T == {Candidate(set, M, k) : k \in 1 .. N}
           ra == Reverse(above)
           rb == Reverse(below)
           C0 == ra \o self \o below
           C1 == rb \o self \o above
<1>1. below \in [1 .. nb -> T] /\ above \in [1 .. na -> T] /\ self \in [1 .. 1 -> T]
  <2>1. \A i \in 1 .. nb : i \in 1 .. N
    OBVIOUS
  <2>2. \A i \in 1 .. na : nb + i \in 1 .. N
    OBVIOUS
  <2>3. N \in 1 .. N
    OBVIOUS
  <2> QED
    BY <1>a, <2>1, <2>2, <2>3
<1>2. /\ ra \in [1 .. na -> T]
      /\ \A i \in 1 .. na : (na - i) + 1 \in 1 .. na /\ ra[i] = above[(na - i) + 1]
  <2> HIDE DEF T
  <2>1. Backwards(Reverse(above), above, na, T)
    BY <1>1, ReverseIs, Zenon
  <2> QED
    BY <2>1, Zenon DEF Backwards
<1>3. /\ rb \in [1 .. nb -> T]
      /\ \A i \in 1 .. nb : (nb - i) + 1 \in 1 .. nb /\ rb[i] = below[(nb - i) + 1]
  <2> HIDE DEF T
  <2>1. Backwards(Reverse(below), below, nb, T)
    BY <1>1, ReverseIs, Zenon
  <2> QED
    BY <2>1, Zenon DEF Backwards
<1> HIDE DEF ra, rb, T
<1>4. C0 \in [1 .. na + 1 + nb -> T] /\ Lists(C0, na, 1, nb, ra, self, below)
  <2>1. 1 \in Nat
    OBVIOUS
  <2> QED
    BY <1>1, <1>2, <2>1, ThreeLists, Zenon
<1>5. C1 \in [1 .. nb + 1 + na -> T] /\ Lists(C1, nb, 1, na, rb, self, above)
  <2>1. 1 \in Nat
    OBVIOUS
  <2> QED
    BY <1>1, <1>3, <2>1, ThreeLists, Zenon
<1> HIDE DEF C0, C1
<1>6. C0 = [i \in 1 .. N |-> Candidate(set, M, Downwards(nb, na)[i])]
  <2>1. na + 1 + nb = N
    OBVIOUS
  <2>2. ASSUME NEW i \in 1 .. N PROVE C0[i] = Candidate(set, M, Downwards(nb, na)[i])
    <3>1. C0[i] = IF i <= na THEN ra[i] ELSE IF i <= na + 1 THEN self[i - na] ELSE below[i - (na + 1)]
      BY <1>4, <2>1, Zenon DEF Lists
    <3>2. Downwards(nb, na)[i] = IF i <= na THEN nb + ((na - i) + 1)
                                 ELSE IF i <= na + 1 THEN (nb + na) + 1 ELSE i - (na + 1)
      BY Zenon DEF Downwards
    <3>3. CASE i <= na
      <4>1. i \in 1 .. na
        BY <3>3
      <4>2. C0[i] = ra[i] /\ ra[i] = above[(na - i) + 1] /\ (na - i) + 1 \in 1 .. na
        BY <1>2, <3>1, <3>3, <4>1, Zenon
      <4>3. above[(na - i) + 1] = Candidate(set, M, nb + ((na - i) + 1))
        BY <1>a, <4>2, Zenon
      <4> QED
        BY <3>2, <3>3, <4>2, <4>3, Zenon
    <3>4. CASE i = na + 1
      <4>1. ~(i <= na) /\ i <= na + 1 /\ i - na \in 1 .. 1
        BY <3>4
      <4>2. self[i - na] = Candidate(set, M, (nb + na) + 1)
        BY <1>a, <4>1, Zenon
      <4> QED
        BY <3>1, <3>2, <4>1, <4>2, Zenon
    <3>5. CASE i > na + 1
      <4>1. ~(i <= na) /\ ~(i <= na + 1) /\ i - (na + 1) \in 1 .. nb
        BY <3>5
      <4>2. below[i - (na + 1)] = Candidate(set, M, i - (na + 1))
        BY <1>a, <4>1, Zenon
      <4> QED
        BY <3>1, <3>2, <4>1, <4>2, Zenon
    <3>6. i <= na \/ i = na + 1 \/ i > na + 1
      OBVIOUS
    <3> QED
      BY <3>3, <3>4, <3>5, <3>6, Zenon
  <2> QED
    BY <1>4, <2>1, <2>2
<1>7. C1 = [i \in 1 .. N |-> Candidate(set, M, Upwards(nb, na)[i])]
  <2>1. nb + 1 + na = N
    OBVIOUS
  <2>2. ASSUME NEW i \in 1 .. N PROVE C1[i] = Candidate(set, M, Upwards(nb, na)[i])
    <3>1. C1[i] = IF i <= nb THEN rb[i] ELSE IF i <= nb + 1 THEN self[i - nb] ELSE above[i - (nb + 1)]
      BY <1>5, <2>1, Zenon DEF Lists
    <3>2. Upwards(nb, na)[i] = IF i <= nb THEN (nb - i) + 1
                               ELSE IF i <= nb + 1 THEN (nb + na) + 1 ELSE nb + (i - (nb + 1))
      BY Zenon DEF Upwards
    <3>3. CASE i <= nb
      <4>1. i \in 1 .. nb
        BY <3>3
      <4>2. C1[i] = rb[i] /\ rb[i] = below[(nb - i) + 1] /\ (nb - i) + 1 \in 1 .. nb
        BY <1>3, <3>1, <3>3, <4>1, Zenon
      <4>3. below[(nb - i) + 1] = Candidate(set, M, (nb - i) + 1)
        BY <1>a, <4>2, Zenon
      <4> QED
        BY <3>2, <3>3, <4>2, <4>3, Zenon
    <3>4. CASE i = nb + 1
      <4>1. ~(i <= nb) /\ i <= nb + 1 /\ i - nb \in 1 .. 1
        BY <3>4
      <4>2. self[i - nb] = Candidate(set, M, (nb + na) + 1)
        BY <1>a, <4>1, Zenon
      <4> QED
        BY <3>1, <3>2, <4>1, <4>2, Zenon
    <3>5. CASE i > nb + 1
      <4>1. ~(i <= nb) /\ ~(i <= nb + 1) /\ i - (nb + 1) \in 1 .. na
        BY <3>5
      <4>2. above[i - (nb + 1)] = Candidate(set, M, nb + (i - (nb + 1)))
        BY <1>a, <4>1, Zenon
      <4> QED
        BY <3>1, <3>2, <4>1, <4>2, Zenon
    <3>6. i <= nb \/ i = nb + 1 \/ i > nb + 1
      OBVIOUS
    <3> QED
      BY <3>3, <3>4, <3>5, <3>6, Zenon
  <2> QED
    BY <1>5, <2>1, <2>2
<1> QED
  BY <1>6, <1>7 DEF C0, C1, ra, rb, Lined

(* The lists of a target, as those of KeptIs.                              *)
LEMMA BelowRecedes ==
    ASSUME NEW t \in Targets
    PROVE  /\ Len(Below(t)) \in Nat /\ Below(t) \in [1 .. Len(Below(t)) -> Int]
           /\ Recedes(Below(t), Len(Below(t)), -1)
           /\ Elements(Below(t), Len(Below(t))) = OnSide(t, -1)
<1> DEFINE b == Below(t)
           n == Len(b)
<1>1. /\ n \in Nat /\ b \in [1 .. n -> Int] /\ Falls(b, n)
      /\ Elements(b, n) = {d \in DOMAIN t : d < 0}
  BY BelowIs, Zenon
<1>2. DOMAIN t \in SUBSET Int
  BY TargetIs, Zenon
<1> HIDE DEF b, n
<1>3. Recedes(b, n, -1)
  <2> SUFFICES ASSUME NEW i \in 1 .. n, NEW j \in 1 .. n, i < j PROVE (-1) * b[i] < (-1) * b[j]
    BY DEF Recedes
  <2>1. b[j] < b[i] /\ b[i] \in Int /\ b[j] \in Int
    BY <1>1 DEF Falls
  <2> QED
    BY <2>1
<1>4. OnSide(t, -1) = {d \in DOMAIN t : d < 0}
  BY <1>2 DEF OnSide
<1> QED
  BY <1>1, <1>3, <1>4 DEF b, n

LEMMA AboveRecedes ==
    ASSUME NEW t \in Targets
    PROVE  /\ Len(Above(t)) \in Nat /\ Above(t) \in [1 .. Len(Above(t)) -> Int]
           /\ Recedes(Above(t), Len(Above(t)), 1)
           /\ Elements(Above(t), Len(Above(t))) = OnSide(t, 1)
<1> DEFINE b == Above(t)
           n == Len(b)
<1>1. /\ n \in Nat /\ b \in [1 .. n -> Int] /\ Rises(b, n)
      /\ Elements(b, n) = {d \in DOMAIN t : d > 0}
  BY AboveIs, Zenon
<1>2. DOMAIN t \in SUBSET Int
  BY TargetIs, Zenon
<1> HIDE DEF b, n
<1>3. Recedes(b, n, 1)
  <2> SUFFICES ASSUME NEW i \in 1 .. n, NEW j \in 1 .. n, i < j PROVE 1 * b[i] < 1 * b[j]
    BY DEF Recedes
  <2>1. b[i] < b[j] /\ b[i] \in Int /\ b[j] \in Int
    BY <1>1 DEF Rises
  <2> QED
    BY <2>1
<1>4. OnSide(t, 1) = {d \in DOMAIN t : d > 0}
  BY <1>2 DEF OnSide
<1> QED
  BY <1>1, <1>3, <1>4 DEF b, n

(* A set predicted with flags that tell its pictures is derived as it was  *)
(* meant.                                                                  *)
LEMMA PredictedAsMeant ==
    ASSUME NEW from \in Targets, NEW t \in Targets, NEW set, set.deltaRps \in Int,
           NEW n, n = Len(Movable(from)),
           Tells(set, Movable(from), n, t),
           Reaches(Movable(from), n, set.deltaRps, t)
    PROVE  Predicted(set, EntryOf(from)) = EntryOf(t)
<1> DEFINE B == Below(from)
           A == Above(from)
           nb == Len(B)
           na == Len(A)
           M == Movable(from)
           below == Candidates(set, EntryOf(from).s0, 0)
           above == Candidates(set, EntryOf(from).s1, Len(EntryOf(from).s0))
           self == Candidates(set, <<[delta |-> 0]>>, numDeltaPocs(EntryOf(from)))
           C0 == Reverse(above) \o self \o below
           C1 == Reverse(below) \o self \o above
           down == Downwards(nb, na)
           up == Upwards(nb, na)
<1>1. /\ nb \in Nat /\ B \in [1 .. nb -> Int] /\ na \in Nat /\ A \in [1 .. na -> Int]
      /\ Falls(B, nb) /\ (\A i \in 1 .. nb : B[i] < 0) /\ Rises(A, na) /\ \A i \in 1 .. na : A[i] > 0
  BY AboveIs, BelowIs, Zenon
<1>2. Moves(M, nb, na, B, A) /\ n = (nb + na) + 1
  BY MovableIs, Zenon
<1>3. Thirds(set, M, nb, na, below, above, self)
  BY CandidatesAre, Zenon
<1>4. Predicted(set, EntryOf(from)) = [s0 |-> Kept(C0, -1), s1 |-> Kept(C1, 1)]
  BY Zenon DEF Predicted
<1>5. Tells(set, M, n, t) /\ Reaches(M, n, set.deltaRps, t)
  OBVIOUS
<1> HIDE DEF below, above, self, M, nb, na, B, A
<1>6. Lined(C0, n, set, M, down) /\ Lined(C1, n, set, M, up)
  BY <1>1, <1>2, <1>3, LinedUp, Zenon
<1>7. Covers(down, n) /\ Descends(M, down, n)
  BY <1>1, <1>2, DownwardsIs, Zenon
<1>8. Covers(up, n) /\ Ascends(M, up, n)
  BY <1>1, <1>2, UpwardsIs, Zenon
<1>9. n \in Nat /\ M \in [1 .. n -> Int]
  <2>1. n \in Nat
    BY <1>1, <1>2
  <2> QED
    BY <1>2, <2>1, Zenon DEF Moves
<1> HIDE DEF C0, C1, up, down
<1>10. Offered(C0, n, t) /\ Offered(C1, n, t)
  BY <1>5, <1>6, <1>7, <1>8, <1>9, InAnyOrder, Zenon
<1>11. Orders(C0, n, -1)
  <2> SUFFICES ASSUME NEW i \in 1 .. n, NEW j \in 1 .. n, i < j
               PROVE  (-1) * C0[i].delta < (-1) * C0[j].delta
    BY DEF Orders
  <2>1. C0[i].delta = M[down[i]] + set.deltaRps /\ C0[j].delta = M[down[j]] + set.deltaRps
    BY <1>6 DEF Candidate, Lined
  <2>2. M[down[j]] < M[down[i]] /\ M[down[i]] \in Int /\ M[down[j]] \in Int
    BY <1>7, <1>9 DEF Covers, Descends
  <2>3. \A a, b, c \in Int : a < b => (-1) * (b + c) < (-1) * (a + c)
    OBVIOUS
  <2> QED
    BY <2>1, <2>2, <2>3
<1>12. Orders(C1, n, 1)
  <2> SUFFICES ASSUME NEW i \in 1 .. n, NEW j \in 1 .. n, i < j
               PROVE  1 * C1[i].delta < 1 * C1[j].delta
    BY DEF Orders
  <2>1. C1[i].delta = M[up[i]] + set.deltaRps /\ C1[j].delta = M[up[j]] + set.deltaRps
    BY <1>6 DEF Candidate, Lined
  <2>2. M[up[i]] < M[up[j]] /\ M[up[i]] \in Int /\ M[up[j]] \in Int
    BY <1>8, <1>9 DEF Covers, Ascends
  <2>3. \A a, b, c \in Int : a < b => 1 * (a + c) < 1 * (b + c)
    OBVIOUS
  <2> QED
    BY <2>1, <2>2, <2>3
<1>13. Kept(C0, -1) = Side(Below(t), t)
  <2>1. -1 \in {-1, 1}
    OBVIOUS
  <2> DEFINE L == Below(t)
             l == Len(L)
  <2>2. /\ l \in Nat /\ L \in [1 .. l -> Int] /\ Recedes(L, l, -1)
        /\ Elements(L, l) = OnSide(t, -1)
    BY BelowRecedes, Zenon
  <2> HIDE DEF L, l
  <2>3. Kept(C0, -1) = Side(L, t)
    BY <1>9, <1>10, <1>11, <2>1, <2>2, KeptIs
  <2> QED
    BY <2>3 DEF L
<1>14. Kept(C1, 1) = Side(Above(t), t)
  <2>1. 1 \in {-1, 1}
    OBVIOUS
  <2> DEFINE L == Above(t)
             l == Len(L)
  <2>2. /\ l \in Nat /\ L \in [1 .. l -> Int] /\ Recedes(L, l, 1)
        /\ Elements(L, l) = OnSide(t, 1)
    BY AboveRecedes, Zenon
  <2> HIDE DEF L, l
  <2>3. Kept(C1, 1) = Side(L, t)
    BY <1>9, <1>10, <1>12, <2>1, <2>2, KeptIs
  <2> QED
    BY <2>3 DEF L
<1> QED
  BY <1>4, <1>13, <1>14, Zenon DEF EntryOf

(* A parsed set derives the entry of the target it codes, from the entries *)
(* of the sets before it.                                                  *)
Codes(set, before, target) ==
    /\ set.idx = Len(before) /\ set.inter \in BOOLEAN
    /\ set.inter => /\ set.RefRpsIdx \in 0 .. Len(before) - 1
                    /\ Predicted(set, EntryOf(before[set.RefRpsIdx + 1])) = EntryOf(target)
    /\ ~set.inter => Explicit(set) = EntryOf(target)
InTable(entries, sent) == \A k \in 1 .. Len(sent) : entries[k - 1] = EntryOf(sent[k])

(* The flag of a picture says whether a target has it and uses it.         *)
LEMMA FlagIs ==
    ASSUME NEW t \in Targets, NEW d
    PROVE  /\ Flag(t, d) \in Codings
           /\ d \in DOMAIN t /\ t[d] = TRUE => Flag(t, d) = <<1>>
           /\ d \in DOMAIN t /\ t[d] = FALSE => Flag(t, d) = <<0, 1>>
           /\ d \notin DOMAIN t => Flag(t, d) = <<0, 0>>
<1>1. d \in DOMAIN t => t[d] \in BOOLEAN
  BY TargetIs, Zenon
<1>2. CASE d \notin DOMAIN t
  BY <1>2 DEF Flag, Codings
<1>3. CASE d \in DOMAIN t /\ t[d] = TRUE
  BY <1>3 DEF Flag, Codings
<1>4. CASE d \in DOMAIN t /\ t[d] = FALSE
  BY <1>4 DEF Flag, Codings
<1> QED
  BY <1>1, <1>2, <1>3, <1>4

AsPredicted(parsed, idx, i, from, t) ==
    /\ parsed.inSync = TRUE /\ parsed.set.idx = idx /\ parsed.set.inter = TRUE
    /\ parsed.set.RefRpsIdx = idx - (i + 1)
    /\ Predicted(parsed.set, EntryOf(from)) = EntryOf(t)

LEMMA PredictedParsed ==
    ASSUME NEW from \in Targets, NEW d \in DeltaRps, NEW t \in Predictable(from, d),
           NEW i \in Nat, NEW idx \in Nat, i < idx, NEW entries,
           entries[idx - (i + 1)] = EntryOf(from)
    PROVE  AsPredicted(ParseSet(idx, PredictedFrom(from, i, d, t), entries), idx, i, from, t)
<1> DEFINE parsed == ParseSet(idx, PredictedFrom(from, i, d, t), entries)
           M == Movable(from)
           n == Len(M)
           seqs == [k \in 1 .. n |-> Flag(t, M[k] + d)]
           bits == FlattenSeq(seqs)
           coded == PredictedFrom(from, i, d, t)
           set == parsed.set
           flagged == ParseFlags(bits, n - 1)
<1>1. t \in Targets /\ DOMAIN t \subseteq {x + d : x \in ToSet(M)}
  BY DEF Predictable
<1>2. d \in Int
  BY SliceReferencesAssumption DEF SliceReferencesAssumption
<1>3. n \in Nat \ {0} /\ M \in [1 .. n -> Int] /\ numDeltaPocs(EntryOf(from)) = n - 1
  <2> DEFINE nb == Len(Below(from))
             na == Len(Above(from))
             B == Below(from)
             A == Above(from)
             some == [deltaRps |-> d]
  <2>1. nb \in Nat /\ na \in Nat
    BY AboveIs, BelowIs, Zenon
  <2>2. Moves(M, nb, na, B, A) /\ n = (nb + na) + 1
    BY MovableIs, Zenon
  <2>3. numDeltaPocs(EntryOf(from)) = nb + na
    <3>1. some.deltaRps \in Int
      BY <1>2
    <3> HIDE DEF some
    <3> QED
      BY <3>1, CandidatesAre, Zenon
  <2> HIDE DEF M, nb, na, n, A, B
  <2>4. M \in [1 .. (nb + na) + 1 -> Int]
    BY <2>2, Zenon DEF Moves
  <2> QED
    BY <2>1, <2>2, <2>3, <2>4
<1>4. DOMAIN M = 1 .. n
  BY <1>3
<1>5. coded = [inter |-> TRUE, deltaIdxMinus1 |-> i, deltaRps |-> d, bits |-> bits]
  BY <1>4, Zenon DEF PredictedFrom
<1>6. /\ coded.inter = TRUE /\ coded.deltaIdxMinus1 = i /\ coded.deltaRps = d /\ coded.bits = bits
  <2> HIDE DEF coded, bits
  <2> QED
    BY <1>5
<1> HIDE DEF coded, bits, M, n, flagged, parsed
<1>7. parsed = [set |-> [inter |-> TRUE, idx |-> idx, RefRpsIdx |-> idx - (i + 1),
                         deltaRps |-> d, flags |-> flagged.flags],
                inSync |-> flagged.read = Len(bits)]
  <2>1. idx - (coded.deltaIdxMinus1 + 1) = idx - (i + 1)
    BY <1>6
  <2>2. ParseFlags(coded.bits, numDeltaPocs(entries[idx - (i + 1)])) = flagged
    BY <1>3, <1>6, Zenon DEF flagged
  <2>3. parsed = ParseSet(idx, coded, entries)
    BY DEF coded, parsed
  <2> QED
    BY <1>6, <2>1, <2>2, <2>3, Zenon DEF ParseSet
<1>8. /\ parsed.inSync = (flagged.read = Len(bits))
      /\ set.inter = TRUE /\ set.idx = idx /\ set.RefRpsIdx = idx - (i + 1) /\ set.deltaRps = d
      /\ set.flags = flagged.flags
  BY <1>7
<1>9. seqs \in [1 .. n -> Codings]
  BY <1>1, FlagIs
<1>10. /\ flagged.read = Len(bits)
       /\ \A j \in 0 .. n - 1 :
            /\ seqs[j + 1] = <<1>> => flagged.flags[j] = [used |-> TRUE, use |-> TRUE]
            /\ seqs[j + 1] = <<0, 1>> => flagged.flags[j] = [used |-> FALSE, use |-> TRUE]
            /\ seqs[j + 1] = <<0, 0>> => flagged.flags[j] = [used |-> FALSE, use |-> FALSE]
  <2> HIDE DEF seqs
  <2> QED
    BY <1>3, <1>9, FlagsParsed DEF flagged, bits
<1>11. Tells(set, M, n, t)
  <2> SUFFICES ASSUME NEW k \in 1 .. n
               PROVE  /\ M[k] + set.deltaRps \in DOMAIN t =>
                           set.flags[k - 1].use = TRUE /\ set.flags[k - 1].used = t[M[k] + set.deltaRps]
                      /\ M[k] + set.deltaRps \notin DOMAIN t => set.flags[k - 1].use = FALSE
    BY DEF Tells
  <2> DEFINE e == M[k] + d
  <2>1. k - 1 \in 0 .. n - 1 /\ (k - 1) + 1 = k /\ seqs[k] = Flag(t, e)
    BY <1>3
  <2>2. e \in DOMAIN t => t[e] \in BOOLEAN
    BY <1>1, TargetIs, Zenon
  <2> HIDE DEF e, seqs
  <2>3. CASE e \in DOMAIN t /\ t[e] = TRUE
    <3>1. seqs[k] = <<1>>
      BY <1>1, <2>1, <2>3, FlagIs, Zenon
    <3>2. flagged.flags[k - 1] = [used |-> TRUE, use |-> TRUE]
      BY <1>10, <2>1, <3>1
    <3>3. flagged.flags[k - 1].use = TRUE /\ flagged.flags[k - 1].used = TRUE
      BY <3>2
    <3> QED
      BY <1>8, <2>3, <3>3, Zenon DEF e
  <2>4. CASE e \in DOMAIN t /\ t[e] = FALSE
    <3>1. seqs[k] = <<0, 1>>
      BY <1>1, <2>1, <2>4, FlagIs, Zenon
    <3>2. flagged.flags[k - 1] = [used |-> FALSE, use |-> TRUE]
      BY <1>10, <2>1, <3>1
    <3>3. flagged.flags[k - 1].use = TRUE /\ flagged.flags[k - 1].used = FALSE
      BY <3>2
    <3> QED
      BY <1>8, <2>4, <3>3, Zenon DEF e
  <2>5. CASE e \notin DOMAIN t
    <3>1. seqs[k] = <<0, 0>>
      BY <1>1, <2>1, <2>5, FlagIs, Zenon
    <3>2. flagged.flags[k - 1] = [used |-> FALSE, use |-> FALSE]
      BY <1>10, <2>1, <3>1
    <3>3. flagged.flags[k - 1].use = FALSE
      BY <3>2
    <3> QED
      BY <1>8, <2>5, <3>3, Zenon DEF e
  <2> QED
    BY <2>2, <2>3, <2>4, <2>5, Zenon
<1>12. Reaches(M, n, set.deltaRps, t)
  <2>1. ToSet(M) = {M[k] : k \in 1 .. n}
    BY <1>4, Zenon DEF ToSet
  <2>2. ASSUME NEW e \in DOMAIN t PROVE e \in {M[k] + set.deltaRps : k \in 1 .. n}
    <3>1. PICK x \in ToSet(M) : e = x + d
      BY <1>1
    <3>2. PICK k \in 1 .. n : x = M[k]
      BY <2>1
    <3> QED
      BY <1>8, <3>1, <3>2
  <2> QED
    BY <2>2, Zenon DEF Reaches
<1>13. Predicted(set, EntryOf(from)) = EntryOf(t)
  <2>1. set.deltaRps \in Int
    BY <1>2, <1>8
  <2> HIDE DEF set
  <2> QED
    BY <1>1, <1>11, <1>12, <2>1, PredictedAsMeant, Zenon DEF M, n
<1> QED
  BY <1>8, <1>10, <1>13 DEF AsPredicted, parsed

(* An explicit set is parsed as it is.                                     *)
AsExplicit(parsed, idx, t) ==
    /\ parsed.inSync = TRUE /\ parsed.set.idx = idx /\ parsed.set.inter = FALSE
    /\ Explicit(parsed.set) = EntryOf(t)

LEMMA ExplicitParsed ==
    ASSUME NEW t \in Targets, NEW idx \in Nat, NEW entries
    PROVE  AsExplicit(ParseSet(idx, Explicitly(t), entries), idx, t)
<1> DEFINE parsed == ParseSet(idx, Explicitly(t), entries)
           coded == Explicitly(t)
           set == parsed.set
<1>1. coded.inter = FALSE
  BY DEF Explicitly
<1>2. [s0 |-> Deltas(coded.s0, -1), s1 |-> Deltas(coded.s1, 1)] = EntryOf(t)
  BY ExplicitAsMeant, Zenon
<1> HIDE DEF coded
<1>3. parsed = [set |-> [inter |-> FALSE, idx |-> idx, s0 |-> coded.s0, s1 |-> coded.s1], inSync |-> TRUE]
  BY <1>1, Zenon DEF ParseSet, coded
<1> HIDE DEF parsed
<1>4. /\ parsed.inSync = TRUE /\ set.idx = idx /\ set.inter = FALSE
      /\ set.s0 = coded.s0 /\ set.s1 = coded.s1
  BY <1>3
<1>5. Explicit(set) = EntryOf(t)
  BY <1>2, <1>4, Zenon DEF Explicit
<1> QED
  BY <1>4, <1>5, Zenon DEF AsExplicit, parsed

(* Any set that can be sent after others is parsed to the last flag and    *)
(* derives what it means.                                                  *)
THEOREM SetsParsed ==
    ASSUME NEW before \in Seq(Targets), NEW deltaIdxs \in SUBSET Nat, NEW s \in Sendable(before, deltaIdxs),
           NEW entries, InTable(entries, before),
           NEW parsed, parsed = ParseSet(Len(before), s.coded, entries)
    PROVE  s.meant \in Targets /\ parsed.inSync = TRUE /\ Codes(parsed.set, before, s.meant)
<1>1. Len(before) \in Nat
  OBVIOUS
<1>2. CASE s \in SentExplicitly
  <2>1. PICK t \in Targets : s = [meant |-> t, coded |-> Explicitly(t)]
    BY <1>2, Zenon DEF SentExplicitly
  <2>2. s.meant = t /\ s.coded = Explicitly(t)
    BY <2>1
  <2>3. /\ parsed.inSync = TRUE /\ parsed.set.idx = Len(before) /\ parsed.set.inter = FALSE
        /\ Explicit(parsed.set) = EntryOf(t)
    <3>1. parsed = ParseSet(Len(before), Explicitly(t), entries)
      BY <2>2, Zenon
    <3>2. AsExplicit(parsed, Len(before), t)
      BY <1>1, <3>1, ExplicitParsed, Zenon
    <3> QED
      BY <3>2, Zenon DEF AsExplicit
  <2> QED
    BY <2>2, <2>3 DEF Codes
<1>3. CASE s \notin SentExplicitly
  <2>1. PICK i \in {j \in deltaIdxs : j < Len(before)}, d \in DeltaRps :
          s \in {[meant |-> t, coded |-> PredictedFrom(before[Len(before) - i], i, d, t)] :
                   t \in Predictable(before[Len(before) - i], d)}
    BY <1>3 DEF Sendable
  <2> DEFINE from == before[Len(before) - i]
  <2>2. PICK t \in Predictable(from, d) : s = [meant |-> t, coded |-> PredictedFrom(from, i, d, t)]
    BY <2>1
  <2>3. s.meant = t /\ s.coded = PredictedFrom(from, i, d, t)
    <3> HIDE DEF from
    <3> QED
      BY <2>2
  <2>4. /\ i \in Nat /\ i < Len(before) /\ Len(before) - i \in 1 .. Len(before)
        /\ (Len(before) - i) - 1 = Len(before) - (i + 1)
        /\ Len(before) - (i + 1) \in 0 .. Len(before) - 1
        /\ (Len(before) - (i + 1)) + 1 = Len(before) - i
    <3>1. i \in Nat /\ i < Len(before)
      OBVIOUS
    <3>2. \A a, b \in Nat : a < b => /\ b - a \in 1 .. b /\ (b - a) - 1 = b - (a + 1)
                                     /\ b - (a + 1) \in 0 .. b - 1 /\ (b - (a + 1)) + 1 = b - a
      OBVIOUS
    <3> QED
      BY <1>1, <3>1, <3>2, Zenon
  <2>5. from \in Targets
    BY <2>4
  <2>6. entries[Len(before) - (i + 1)] = EntryOf(from)
    BY <2>4, Zenon DEF InTable
  <2>7. t \in Targets
    BY Zenon DEF Predictable
  <2> HIDE DEF from
  <2>8. /\ parsed.inSync = TRUE /\ parsed.set.idx = Len(before) /\ parsed.set.inter = TRUE
        /\ parsed.set.RefRpsIdx = Len(before) - (i + 1)
        /\ Predicted(parsed.set, EntryOf(from)) = EntryOf(t)
    <3>1. parsed = ParseSet(Len(before), PredictedFrom(from, i, d, t), entries)
      BY <2>3, Zenon
    <3>2. AsPredicted(parsed, Len(before), i, from, t)
      BY <1>1, <2>4, <2>5, <2>6, <3>1, PredictedParsed, Zenon
    <3> QED
      BY <3>2, Zenon DEF AsPredicted
  <2>9. before[parsed.set.RefRpsIdx + 1] = from
    BY <2>4, <2>8, Zenon DEF from
  <2> QED
    BY <2>3, <2>4, <2>7, <2>8, <2>9 DEF Codes
<1> QED
  BY <1>2, <1>3

-------------------------------------------------------------------------------
(* The table after the sets of a sequence parameter set were derived.      *)
AllCode(sets, sent) ==
    /\ sets = [k \in 1 .. Len(sent) |-> sets[k]]
    /\ \A k \in 1 .. Len(sent) : Codes(sets[k], SubSeq(sent, 1, k - 1), sent[k])

Prefix(p, sent, k) == Len(p) = k /\ \A j \in 1 .. k : p[j] = sent[j]

LEMMA PrefixIs ==
    ASSUME NEW T, NEW sent \in Seq(T), NEW k \in 0 .. Len(sent)
    PROVE  SubSeq(sent, 1, k) \in Seq(T) /\ Prefix(SubSeq(sent, 1, k), sent, k)
<1> DEFINE p == SubSeq(sent, 1, k)
<1>1. k \in Int /\ 1 \in Int /\ \A j \in 1 .. k : j \in 1 .. Len(sent)
  OBVIOUS
<1>2. \A j \in 1 .. k : sent[j] \in T
  BY <1>1
<1>3. p \in Seq(T) /\ Len(p) = (IF 1 <= k THEN k - 1 + 1 ELSE 0) /\ \A j \in 1 .. k - 1 + 1 : p[j] = sent[1 + j - 1]
  BY <1>1, <1>2, SubSeqProperties
<1> HIDE DEF p
<1>4. Len(p) = k
  BY <1>3
<1>5. \A j \in 1 .. k : p[j] = sent[j]
  <2> TAKE j \in 1 .. k
  <2>1. j \in 1 .. k - 1 + 1 /\ 1 + j - 1 = j
    OBVIOUS
  <2> QED
    BY <1>3, <2>1
<1> QED
  BY <1>3, <1>4, <1>5 DEF p, Prefix

LEMMA DerivesSet ==
    ASSUME NEW before \in Seq(Targets), NEW entries, InTable(entries, before),
           NEW t, NEW set, Codes(set, before, t)
    PROVE  deriveSet(entries, set) = [entries EXCEPT ![Len(before)] = EntryOf(t)]
<1>1. set.idx = Len(before)
  BY Zenon DEF Codes
<1>2. (IF set.inter THEN Predicted(set, entries[set.RefRpsIdx]) ELSE Explicit(set)) = EntryOf(t)
  <2>1. CASE set.inter
    <3>1. set.RefRpsIdx \in 0 .. Len(before) - 1
          /\ Predicted(set, EntryOf(before[set.RefRpsIdx + 1])) = EntryOf(t)
      BY <2>1, Zenon DEF Codes
    <3>2. set.RefRpsIdx + 1 \in 1 .. Len(before) /\ (set.RefRpsIdx + 1) - 1 = set.RefRpsIdx
      BY <3>1
    <3>3. entries[set.RefRpsIdx] = EntryOf(before[set.RefRpsIdx + 1])
      BY <3>2, Zenon DEF InTable
    <3> QED
      BY <2>1, <3>1, <3>3, Zenon
  <2>2. CASE ~set.inter
    BY <2>2, Zenon DEF Codes
  <2> QED
    BY <2>1, <2>2, Zenon
<1> QED
  BY <1>1, <1>2, Zenon DEF deriveSet

Stored(entries, sent, n) ==
    [i \in 0 .. MaxSets |-> IF i < n THEN EntryOf(sent[i + 1]) ELSE entries[i]]

LEMMA DerivedSets ==
    ASSUME NEW sent \in Seq(Targets), Len(sent) <= MaxSets, NEW sets, AllCode(sets, sent),
           NEW entries, entries = [i \in 0 .. MaxSets |-> entries[i]]
    PROVE  deriveSets(entries, sets) = Stored(entries, sent, Len(sent))
<1> DEFINE n == Len(sent)
           Is(w) == w = [k \in 0 .. Len(sets) |->
                           IF k = 0 THEN entries ELSE deriveSet(w[k - 1], sets[k])]
           w == [k \in 0 .. n |-> Stored(entries, sent, k)]
           derived == CHOOSE x : Is(x)
<1>1. n \in Nat /\ MaxSets \in Nat /\ n <= MaxSets
  BY SliceReferencesAssumption DEF SliceReferencesAssumption
<1>2. Len(sets) = n
  BY <1>1, LengthOf DEF AllCode
<1>3. Stored(entries, sent, 0) = entries
  <2>1. \A i \in 0 .. MaxSets : ~(i < 0)
    OBVIOUS
  <2> QED
    BY <2>1 DEF Stored
<1>4. ASSUME NEW k \in 1 .. n
      PROVE  deriveSet(Stored(entries, sent, k - 1), sets[k]) = Stored(entries, sent, k)
  <2> DEFINE before == SubSeq(sent, 1, k - 1)
             st == Stored(entries, sent, k - 1)
  <2>1. k - 1 \in 0 .. n /\ k \in 1 .. n /\ k - 1 \in 0 .. MaxSets
    BY <1>1
  <2>2. before \in Seq(Targets) /\ Prefix(before, sent, k - 1)
    BY <2>1, PrefixIs, Zenon
  <2>3. Codes(sets[k], before, sent[k])
    BY Zenon DEF AllCode
  <2> HIDE DEF before
  <2>4. st = [i \in 0 .. MaxSets |-> IF i < k - 1 THEN EntryOf(sent[i + 1]) ELSE entries[i]]
    BY DEF Stored
  <2>5. InTable(st, before)
    <3> SUFFICES ASSUME NEW j \in 1 .. Len(before) PROVE st[j - 1] = EntryOf(before[j])
      BY DEF InTable
    <3>1. Len(before) = k - 1 /\ before[j] = sent[j]
      BY <2>2 DEF Prefix
    <3>2. j - 1 \in 0 .. MaxSets /\ j - 1 < k - 1 /\ (j - 1) + 1 = j
      BY <1>1, <3>1
    <3> QED
      BY <2>4, <3>1, <3>2
  <2> HIDE DEF st
  <2>6. deriveSet(st, sets[k]) = [st EXCEPT ![Len(before)] = EntryOf(sent[k])]
    BY <2>2, <2>3, <2>5, DerivesSet, Zenon
  <2>7. Len(before) = k - 1
    BY <2>2, Zenon DEF Prefix
  <2>8. [st EXCEPT ![k - 1] = EntryOf(sent[k])] = Stored(entries, sent, k)
    <3> DEFINE x == [st EXCEPT ![k - 1] = EntryOf(sent[k])]
               y == Stored(entries, sent, k)
    <3>1. DOMAIN x = 0 .. MaxSets /\ \A i \in 0 .. MaxSets : x[i] = IF i = k - 1 THEN EntryOf(sent[k]) ELSE st[i]
      BY <2>4
    <3>2. y = [i \in 0 .. MaxSets |-> IF i < k THEN EntryOf(sent[i + 1]) ELSE entries[i]]
      BY DEF Stored
    <3>3. ASSUME NEW i \in 0 .. MaxSets PROVE x[i] = y[i]
      <4>1. CASE i = k - 1
        <5>1. i < k /\ i + 1 = k
          BY <4>1
        <5> HIDE DEF x, y
        <5> QED
          BY <3>1, <3>2, <4>1, <5>1
      <4>2. CASE i # k - 1
        <5>1. i < k <=> i < k - 1
          BY <4>2
        <5> HIDE DEF x, y
        <5> QED
          BY <2>4, <3>1, <3>2, <4>2, <5>1
      <4> QED
        BY <4>1, <4>2
    <3>4. x = [i \in 0 .. MaxSets |-> x[i]]
      BY <2>4
    <3> HIDE DEF x, y
    <3>5. x = y
      BY <3>2, <3>3, <3>4
    <3> QED
      BY <3>5 DEF x, y
  <2> QED
    BY <2>6, <2>7, <2>8, Zenon DEF st
<1>5. Is(w)
  <2>1. \A k \in 0 .. n : w[k] = IF k = 0 THEN entries ELSE deriveSet(w[k - 1], sets[k])
    <3> TAKE k \in 0 .. n
    <3>1. CASE k = 0
      BY <1>3, <3>1
    <3>2. CASE k # 0
      <4>1. k \in 1 .. n /\ k - 1 \in 0 .. n
        BY <3>2
      <4>2. w[k] = Stored(entries, sent, k) /\ w[k - 1] = Stored(entries, sent, k - 1)
        BY <4>1
      <4> HIDE DEF w
      <4> QED
        BY <1>4, <3>2, <4>1, <4>2, Zenon
    <3> QED
      BY <3>1, <3>2
  <2>2. w = [k \in 0 .. n |-> w[k]]
    OBVIOUS
  <2> HIDE DEF w
  <2> QED
    BY <2>1, <2>2, <1>2
<1>6. Is(derived)
  BY <1>5
<1> HIDE DEF derived
<1>7. \A k \in 0 .. n : derived[k] = Stored(entries, sent, k)
  <2> DEFINE S == {k \in 0 .. n : derived[k] = Stored(entries, sent, k)}
  <2>d. \A k \in 0 .. n : derived[k] = IF k = 0 THEN entries ELSE deriveSet(derived[k - 1], sets[k])
    BY <1>2, <1>6
  <2>1. 0 \in S
    <3>1. 0 \in 0 .. n
      BY <1>1
    <3>2. derived[0] = entries
      BY <2>d, <3>1
    <3> QED
      BY <1>3, <3>1, <3>2
  <2>2. ASSUME NEW k \in 0 .. n - 1, k \in S PROVE k + 1 \in S
    <3>1. k + 1 \in 0 .. n /\ k + 1 # 0 /\ (k + 1) - 1 = k /\ k + 1 \in 1 .. n
      BY <1>1
    <3>2. derived[k] = Stored(entries, sent, k)
      BY <2>2
    <3>3. derived[k + 1] = deriveSet(Stored(entries, sent, k), sets[k + 1])
      BY <2>d, <3>1, <3>2
    <3>4. deriveSet(Stored(entries, sent, k), sets[k + 1]) = Stored(entries, sent, k + 1)
      BY <1>4, <3>1
    <3> QED
      BY <3>1, <3>3, <3>4
  <2> HIDE DEF S
  <2>3. \A k \in 0 .. n : k \in S
    BY <1>1, <2>1, <2>2, StepByStep
  <2> QED
    BY <2>3 DEF S
<1>8. deriveSets(entries, sets) = derived[n]
  BY <1>2, Zenon DEF deriveSets, derived
<1>9. n \in 0 .. n
  BY <1>1
<1> QED
  BY <1>7, <1>8, <1>9

(* The sets are then in the table.                                         *)
LEMMA StoredInTable ==
    ASSUME NEW sent \in Seq(Targets), Len(sent) <= MaxSets, NEW entries
    PROVE  /\ InTable(Stored(entries, sent, Len(sent)), sent)
           /\ Stored(entries, sent, Len(sent)) =
                [i \in 0 .. MaxSets |-> Stored(entries, sent, Len(sent))[i]]
<1> DEFINE n == Len(sent)
           st == Stored(entries, sent, n)
<1>1. n \in Nat /\ MaxSets \in Nat /\ n <= MaxSets
  BY SliceReferencesAssumption DEF SliceReferencesAssumption
<1>2. st = [i \in 0 .. MaxSets |-> IF i < n THEN EntryOf(sent[i + 1]) ELSE entries[i]]
  BY DEF Stored
<1>3. \A j \in 1 .. n : st[j - 1] = EntryOf(sent[j])
  <2> TAKE j \in 1 .. n
  <2>1. j - 1 \in 0 .. MaxSets /\ j - 1 < n /\ (j - 1) + 1 = j
    BY <1>1
  <2> HIDE DEF st
  <2> QED
    BY <1>2, <2>1
<1>4. st = [i \in 0 .. MaxSets |-> st[i]]
  BY <1>2
<1> QED
  BY <1>3, <1>4 DEF InTable

(* A further set leaves those before it in the table.                      *)
LEMMA OneMoreInTable ==
    ASSUME NEW sent \in Seq(Targets), Len(sent) <= MaxSets, NEW t \in Targets,
           NEW entries, entries = [i \in 0 .. MaxSets |-> entries[i]], InTable(entries, sent),
           NEW after, after = [entries EXCEPT ![Len(sent)] = EntryOf(t)]
    PROVE  /\ after = [i \in 0 .. MaxSets |-> after[i]]
           /\ after[Len(sent)] = EntryOf(t) /\ InTable(after, sent)
           /\ InTable(after, Append(sent, t))
<1> DEFINE n == Len(sent)
<1>1. n \in 0 .. MaxSets /\ n \in Nat
  BY SliceReferencesAssumption DEF SliceReferencesAssumption
<1>2. DOMAIN entries = 0 .. MaxSets
  OBVIOUS
<1>3. after = [i \in 0 .. MaxSets |-> after[i]] /\ after[n] = EntryOf(t)
      /\ \A i \in 0 .. MaxSets : i # n => after[i] = entries[i]
  BY <1>1
<1>4. \A j \in 1 .. n : after[j - 1] = EntryOf(sent[j])
  <2> TAKE j \in 1 .. n
  <2>1. j - 1 \in 0 .. MaxSets /\ j - 1 # n
    <3> HIDE DEF n
    <3>1. MaxSets \in Nat
      BY SliceReferencesAssumption DEF SliceReferencesAssumption
    <3> QED
      BY <1>1, <3>1
  <2> QED
    BY <1>3, <2>1 DEF InTable
<1>5. Append(sent, t) \in Seq(Targets) /\ Len(Append(sent, t)) = n + 1
      /\ (\A j \in 1 .. n : Append(sent, t)[j] = sent[j]) /\ Append(sent, t)[n + 1] = t
  OBVIOUS
<1>6. \A j \in 1 .. n + 1 : after[j - 1] = EntryOf(Append(sent, t)[j])
  <2> TAKE j \in 1 .. n + 1
  <2>1. CASE j = n + 1
    <3>1. j - 1 = n
      BY <1>1, <2>1
    <3> QED
      BY <1>3, <1>5, <2>1, <3>1
  <2>2. CASE j # n + 1
    <3>1. j \in 1 .. n
      BY <1>1, <2>2
    <3> QED
      BY <1>4, <1>5, <3>1
  <2> QED
    BY <2>1, <2>2
<1> QED
  BY <1>3, <1>4, <1>5, <1>6 DEF InTable

LEMMA OneMoreCodes ==
    ASSUME NEW sent \in Seq(Targets), NEW t \in Targets, NEW sets, AllCode(sets, sent),
           NEW set, Codes(set, sent, t)
    PROVE  AllCode(Append(sets, set), Append(sent, t))
<1> DEFINE n == Len(sent)
           sent1 == Append(sent, t)
           sets1 == Append(sets, set)
<1>1. n \in Nat
  OBVIOUS
<1>2. sets \in Seq(Elements(sets, n)) /\ Len(sets) = n
  BY <1>1, LengthOf DEF AllCode
<1>3. /\ sent1 \in Seq(Targets) /\ Len(sent1) = n + 1
      /\ (\A j \in 1 .. n : sent1[j] = sent[j]) /\ sent1[n + 1] = t
  OBVIOUS
<1>4. /\ sets1 = [i \in 1 .. n + 1 |-> sets1[i]]
      /\ (\A j \in 1 .. n : sets1[j] = sets[j]) /\ sets1[n + 1] = set
  <2> DEFINE T == Elements(sets, n) \cup {set}
  <2>1. sets = [i \in 1 .. n |-> sets[i]] /\ \A i \in 1 .. n : sets[i] \in T
    BY DEF AllCode, Elements
  <2> HIDE DEF T, n
  <2>2. sets \in [1 .. n -> T]
    BY <2>1
  <2>3. sets \in Seq(T)
    BY <1>1, <2>2, AsSequence, Zenon
  <2>4. set \in T
    BY DEF T
  <2>5. /\ sets1 \in Seq(T) /\ Len(sets1) = n + 1
        /\ (\A j \in 1 .. n : sets1[j] = sets[j]) /\ sets1[n + 1] = set
    BY <1>2, <2>3, <2>4, AppendProperties
  <2> HIDE DEF sets1
  <2> QED
    BY <2>5
<1> HIDE DEF sent1, sets1
<1>5. ASSUME NEW k \in 1 .. n + 1 PROVE SubSeq(sent1, 1, k - 1) = SubSeq(sent, 1, k - 1)
  <2>1. k - 1 \in 0 .. Len(sent) /\ k - 1 \in 0 .. Len(sent1)
    BY <1>1, <1>3
  <2> DEFINE p == SubSeq(sent, 1, k - 1)
             p1 == SubSeq(sent1, 1, k - 1)
  <2>2. p \in Seq(Targets) /\ Prefix(p, sent, k - 1)
    BY <2>1, PrefixIs, Zenon
  <2>3. p1 \in Seq(Targets) /\ Prefix(p1, sent1, k - 1)
    BY <1>3, <2>1, PrefixIs, Zenon
  <2> HIDE DEF p, p1
  <2>4. Len(p) = Len(p1) /\ \A j \in 1 .. k - 1 : p[j] = p1[j]
    <3>1. \A j \in 1 .. k - 1 : j \in 1 .. n
      BY <1>1
    <3> QED
      BY <1>3, <2>2, <2>3, <3>1 DEF Prefix
  <2>5. Len(p) = k - 1
    BY <2>2 DEF Prefix
  <2>6. p = p1
    BY <2>2, <2>3, <2>4, <2>5, SeqEqual
  <2> QED
    BY <2>6 DEF p, p1
<1>6. ASSUME NEW k \in 1 .. n + 1
      PROVE  Codes(sets1[k], SubSeq(sent1, 1, k - 1), sent1[k])
  <2>1. CASE k = n + 1
    <3>1. SubSeq(sent, 1, k - 1) = sent
      <4>1. k - 1 = n
        BY <1>1, <2>1
      <4> QED
        BY <4>1, SubSeqFull
    <3> QED
      BY <1>3, <1>4, <1>5, <2>1, <3>1
  <2>2. CASE k # n + 1
    <3>1. k \in 1 .. n
      BY <1>1, <2>2
    <3>2. Codes(sets[k], SubSeq(sent, 1, k - 1), sent[k])
      BY <3>1, Zenon DEF AllCode
    <3> QED
      BY <1>3, <1>4, <1>5, <3>1, <3>2
  <2> QED
    BY <2>1, <2>2
<1> QED
  BY <1>3, <1>4, <1>6 DEF AllCode, sets1, sent1

-------------------------------------------------------------------------------
(* The short-term pictures of a set.                                       *)
Positions(L, n, t, used) == {i \in 1 .. n : t[L[i]] = used}
Pairs(x, y, n) ==
    /\ x = [i \in 1 .. n |-> x[i]] /\ y = [i \in 1 .. n |-> y[i]]
    /\ \A i \in 1 .. n : x[i].delta = y[i] /\ y[i] \in Int

LEMMA PairsMoved ==
    ASSUME NEW n \in Nat, NEW x, NEW y, Pairs(x, y, n)
    PROVE  Pocs(Poc, x) = Moved(y) /\ Len(x) = n /\ Len(y) = n
<1>1. Len(x) = n /\ DOMAIN x = 1 .. n
  BY LengthOf, Zenon DEF Pairs
<1>2. Len(y) = n /\ DOMAIN y = 1 .. n
  BY LengthOf, Zenon DEF Pairs
<1>3. \A i \in 1 .. n : Poc + x[i].delta = Poc + y[i]
  BY DEF Pairs
<1> QED
  BY <1>1, <1>2, <1>3 DEF Pocs, Moved

LEMMA PairsJoined ==
    ASSUME NEW m \in Nat, NEW n \in Nat, NEW x, NEW y, Pairs(x, y, m), NEW u, NEW v, Pairs(u, v, n)
    PROVE  Pairs(x \o u, y \o v, m + n)
<1> DEFINE T == Elements(x, m) \cup Elements(u, n)
<1>1. x \in [1 .. m -> T] /\ u \in [1 .. n -> T]
  BY DEF Pairs, Elements
<1> HIDE DEF T
<1>2. x \in Seq(T) /\ Len(x) = m /\ u \in Seq(T) /\ Len(u) = n
  BY <1>1, AsSequence, Zenon
<1>3. y \in [1 .. m -> Int] /\ v \in [1 .. n -> Int]
  BY DEF Pairs
<1>4. y \in Seq(Int) /\ Len(y) = m /\ v \in Seq(Int) /\ Len(v) = n
  BY <1>3, AsSequence, Zenon
<1> DEFINE a == x \o u
           b == y \o v
<1>5. a \in Seq(T) /\ Len(a) = m + n /\ \A i \in 1 .. m + n : a[i] = IF i <= m THEN x[i] ELSE u[i - m]
  BY <1>2, ConcatProperties
<1>6. b \in Seq(Int) /\ Len(b) = m + n /\ \A i \in 1 .. m + n : b[i] = IF i <= m THEN y[i] ELSE v[i - m]
  BY <1>4, ConcatProperties
<1> HIDE DEF a, b
<1>7. \A i \in 1 .. m + n : a[i].delta = b[i] /\ b[i] \in Int
  <2> TAKE i \in 1 .. m + n
  <2>1. CASE i <= m
    <3>1. i \in 1 .. m
      BY <2>1
    <3> QED
      BY <1>5, <1>6, <2>1, <3>1 DEF Pairs
  <2>2. CASE ~(i <= m)
    <3>1. i - m \in 1 .. n
      BY <2>2
    <3> QED
      BY <1>5, <1>6, <2>2, <3>1 DEF Pairs
  <2> QED
    BY <2>1, <2>2
<1>8. a = [i \in 1 .. m + n |-> a[i]]
  BY <1>5
<1>9. b = [i \in 1 .. m + n |-> b[i]]
  BY <1>6
<1> QED
  BY <1>7, <1>8, <1>9, Zenon DEF Pairs, a, b

LEMMA SideSelected ==
    ASSUME NEW n \in Nat, NEW t \in Targets, NEW L \in [1 .. n -> Int], NEW P \in SUBSET (1 .. n)
    PROVE  Cardinality(P) \in Nat /\ Pairs(Selected(Side(L, t), P), Selected(L, P), Cardinality(P))
<1> DEFINE s == Side(L, t)
           c == Cardinality(P)
           p == Sorted(P)
<1>1. c \in Nat /\ Picks(s, P, c, p)
  BY SelectedIs, Zenon
<1>2. Picks(L, P, c, p)
  BY SelectedIs, Zenon
<1>3. s = [i \in 1 .. n |-> [delta |-> L[i], used |-> t[L[i]]]]
  BY SideIs, Zenon
<1>4. \A i \in 1 .. n : s[i].delta = L[i]
  BY <1>3
<1> HIDE DEF s, c, p
<1>5. \A k \in 1 .. c : p[k] \in 1 .. n
  BY <1>1 DEF Picks
<1>6. Selected(s, P) = [k \in 1 .. c |-> s[p[k]]] /\ Selected(L, P) = [k \in 1 .. c |-> L[p[k]]]
  BY <1>1, <1>2 DEF Picks
<1> QED
  BY <1>1, <1>4, <1>5, <1>6 DEF Pairs, s, c

LEMMA UsedIs ==
    ASSUME NEW n \in Nat, NEW t \in Targets, NEW L \in [1 .. n -> Int], \A i \in 1 .. n : L[i] \in DOMAIN t
    PROVE  /\ Used(Side(L, t)) = Selected(Side(L, t), Positions(L, n, t, TRUE))
           /\ NotUsed(Side(L, t)) = Selected(Side(L, t), Positions(L, n, t, FALSE))
           /\ UsedOf(L, t, TRUE) = Selected(L, Positions(L, n, t, TRUE))
           /\ UsedOf(L, t, FALSE) = Selected(L, Positions(L, n, t, FALSE))
<1> DEFINE s == Side(L, t)
<1>1. DOMAIN s = 1 .. n /\ s = [i \in 1 .. n |-> [delta |-> L[i], used |-> t[L[i]]]]
  BY SideIs, Zenon
<1>2. \A i \in 1 .. n : s[i].used = t[L[i]] /\ t[L[i]] \in BOOLEAN
  <2>1. \A i \in 1 .. n : s[i].used = t[L[i]]
    BY <1>1
  <2> QED
    BY <2>1, TargetIs
<1> HIDE DEF s
<1>3. {i \in DOMAIN s : s[i].used} = Positions(L, n, t, TRUE)
  <2>1. \A i \in 1 .. n : s[i].used <=> t[L[i]] = TRUE
    BY <1>2
  <2> QED
    BY <1>1, <2>1, Zenon DEF Positions
<1>4. {i \in DOMAIN s : ~s[i].used} = Positions(L, n, t, FALSE)
  <2>1. \A i \in 1 .. n : ~s[i].used <=> t[L[i]] = FALSE
    BY <1>2
  <2> QED
    BY <1>1, <2>1, Zenon DEF Positions
<1>5. DOMAIN L = 1 .. n
  OBVIOUS
<1> QED
  BY <1>3, <1>4, <1>5, Zenon DEF Used, NotUsed, UsedOf, Positions, s

(* As many as the pictures of the target that are used.                    *)
LEMMA PositionsCount ==
    ASSUME NEW n \in Nat, NEW t \in Targets, NEW L \in [1 .. n -> Int],
           \A i, j \in 1 .. n : L[i] = L[j] => i = j
    PROVE  /\ IsFiniteSet({d \in Elements(L, n) : t[d] = TRUE})
           /\ Cardinality({d \in Elements(L, n) : t[d] = TRUE}) = Cardinality(Positions(L, n, t, TRUE))
<1> DEFINE P == Positions(L, n, t, TRUE)
           S == {d \in Elements(L, n) : t[d] = TRUE}
           f == [i \in P |-> L[i]]
<1>1. P \in SUBSET (1 .. n)
  BY DEF Positions
<1>2. IsFiniteSet(P)
  <2>1. IsFiniteSet(1 .. n)
    BY FS_Interval
  <2> QED
    BY <1>1, <2>1, FS_Subset
<1>3. f \in [P -> S]
  BY DEF Positions, Elements
<1>4. \A x \in S : \E i \in P : f[i] = x
  BY DEF Positions, Elements
<1>5. \A i, j \in P : f[i] = f[j] => i = j
  BY <1>1
<1> HIDE DEF f, P, S
<1>6. f \in Bijection(P, S)
  BY <1>3, <1>4, <1>5 DEF Bijection, Injection, Surjection, IsInjective
<1>7. IsFiniteSet(S) /\ Cardinality(S) = Cardinality(P)
  <2>1. ExistsBijection(P, S)
    BY <1>6, Zenon DEF ExistsBijection
  <2> QED
    BY <1>2, <2>1, FS_Bijection
<1> QED
  BY <1>7 DEF P, S

LEMMA OneToOne ==
    ASSUME NEW n \in Nat, NEW L \in [1 .. n -> Int], Rises(L, n) \/ Falls(L, n)
    PROVE  \A i, j \in 1 .. n : L[i] = L[j] => i = j
<1> SUFFICES ASSUME NEW i \in 1 .. n, NEW j \in 1 .. n, L[i] = L[j], i # j PROVE FALSE
  OBVIOUS
<1>1. L[i] \in Int /\ L[j] \in Int /\ (i < j \/ j < i)
  OBVIOUS
<1> QED
  BY <1>1 DEF Rises, Falls

LEMMA ShortTermCount ==
    ASSUME NEW t \in Targets
    PROVE  /\ Len(Used(EntryOf(t).s0)) \in Nat /\ Len(Used(EntryOf(t).s1)) \in Nat
           /\ Len(Used(EntryOf(t).s0)) + Len(Used(EntryOf(t).s1)) = Cardinality({d \in DOMAIN t : t[d]})
           /\ Cardinality({d \in DOMAIN t : t[d]}) <= MaxSize
<1> DEFINE B == Below(t)
           A == Above(t)
           nb == Len(B)
           na == Len(A)
           S == {d \in DOMAIN t : t[d]}
           S0 == {d \in Elements(B, nb) : t[d] = TRUE}
           S1 == {d \in Elements(A, na) : t[d] = TRUE}
           P0 == Positions(B, nb, t, TRUE)
           P1 == Positions(A, na, t, TRUE)
<1>1. /\ nb \in Nat /\ B \in [1 .. nb -> Int] /\ Falls(B, nb) /\ B \in [1 .. nb -> DOMAIN t]
      /\ Elements(B, nb) = {d \in DOMAIN t : d < 0}
  BY BelowIs, Zenon
<1>2. /\ na \in Nat /\ A \in [1 .. na -> Int] /\ Rises(A, na) /\ A \in [1 .. na -> DOMAIN t]
      /\ Elements(A, na) = {d \in DOMAIN t : d > 0}
  BY AboveIs, Zenon
<1>3. EntryOf(t).s0 = Side(B, t) /\ EntryOf(t).s1 = Side(A, t)
  BY DEF EntryOf
<1>t. /\ \A d \in DOMAIN t : t[d] \in BOOLEAN /\ d \in Int /\ d # 0
      /\ IsFiniteSet(DOMAIN t) /\ Cardinality(DOMAIN t) <= MaxSize
  BY TargetIs, Zenon
<1> HIDE DEF B, A, nb, na
<1>4. IsFiniteSet(S0) /\ Cardinality(S0) = Cardinality(P0)
  <2>1. \A i, j \in 1 .. nb : B[i] = B[j] => i = j
    BY <1>1, OneToOne
  <2> QED
    BY <1>1, <2>1, PositionsCount
<1>5. IsFiniteSet(S1) /\ Cardinality(S1) = Cardinality(P1)
  <2>1. \A i, j \in 1 .. na : A[i] = A[j] => i = j
    BY <1>2, OneToOne
  <2> QED
    BY <1>2, <2>1, PositionsCount
<1>6. Len(Used(Side(B, t))) = Cardinality(P0) /\ Cardinality(P0) \in Nat
  <2>1. Used(Side(B, t)) = Selected(Side(B, t), P0)
    BY <1>1, UsedIs
  <2>2. P0 \in SUBSET (1 .. nb)
    BY DEF Positions
  <2> HIDE DEF P0
  <2>3. Cardinality(P0) \in Nat /\ Pairs(Selected(Side(B, t), P0), Selected(B, P0), Cardinality(P0))
    BY <1>1, <2>2, SideSelected, Zenon
  <2> QED
    BY <2>1, <2>3, PairsMoved
<1>7. Len(Used(Side(A, t))) = Cardinality(P1) /\ Cardinality(P1) \in Nat
  <2>1. Used(Side(A, t)) = Selected(Side(A, t), P1)
    BY <1>2, UsedIs
  <2>2. P1 \in SUBSET (1 .. na)
    BY DEF Positions
  <2> HIDE DEF P1
  <2>3. Cardinality(P1) \in Nat /\ Pairs(Selected(Side(A, t), P1), Selected(A, P1), Cardinality(P1))
    BY <1>2, <2>2, SideSelected, Zenon
  <2> QED
    BY <2>1, <2>3, PairsMoved
<1>8. S = S0 \cup S1 /\ S0 \cap S1 = {}
  <2>1. \A d \in DOMAIN t : (d \in Elements(B, nb) \/ d \in Elements(A, na)) /\ (t[d] <=> t[d] = TRUE)
    BY <1>1, <1>2, <1>t
  <2>2. \A d : d \in Elements(B, nb) => d \in DOMAIN t /\ d \notin Elements(A, na)
    BY <1>1, <1>2, <1>t
  <2>3. \A d : d \in Elements(A, na) => d \in DOMAIN t
    BY <1>2
  <2> QED
    BY <2>1, <2>2, <2>3
<1>9. Cardinality(S) = Cardinality(S0) + Cardinality(S1)
  <2> HIDE DEF S, S0, S1, P0, P1
  <2>1. Cardinality(S0 \cup S1) = Cardinality(S0) + Cardinality(S1) - Cardinality(S0 \cap S1)
    BY <1>4, <1>5, FS_Union
  <2>2. Cardinality(S0 \cap S1) = 0
    BY <1>8, FS_EmptySet
  <2> QED
    BY <1>4, <1>5, <1>6, <1>7, <1>8, <2>1, <2>2
<1>10. Cardinality(S) <= MaxSize
  <2>1. Cardinality(S) <= Cardinality(DOMAIN t) /\ IsFiniteSet(S)
    <3>1. S \in SUBSET DOMAIN t
      OBVIOUS
    <3> HIDE DEF S
    <3> QED
      BY <1>t, <3>1, FS_Subset
  <2>2. Cardinality(S) \in Nat /\ Cardinality(DOMAIN t) \in Nat /\ MaxSize \in Nat
    BY <1>t, <2>1, FS_CardinalityType, SliceReferencesAssumption DEF SliceReferencesAssumption
  <2> HIDE DEF S
  <2> QED
    BY <1>t, <2>1, <2>2
<1> HIDE DEF S, P0, P1, S0, S1
<1>11. Len(Used(Side(B, t))) + Len(Used(Side(A, t))) = Cardinality(S)
  BY <1>4, <1>5, <1>6, <1>7, <1>9
<1> QED
  BY <1>3, <1>6, <1>7, <1>10, <1>11, Zenon DEF S

(* The order counts of the short-term pictures.                            *)
LEMMA ShortTermPictures ==
    ASSUME NEW t \in Targets
    PROVE  /\ Pocs(Poc, Used(EntryOf(t).s0)) = Moved(UsedOf(Below(t), t, TRUE))
           /\ Pocs(Poc, Used(EntryOf(t).s1)) = Moved(UsedOf(Above(t), t, TRUE))
           /\ Pocs(Poc, NotUsed(EntryOf(t).s0) \o NotUsed(EntryOf(t).s1)) =
                Moved(UsedOf(Below(t), t, FALSE) \o UsedOf(Above(t), t, FALSE))
<1> DEFINE B == Below(t)
           A == Above(t)
           nb == Len(B)
           na == Len(A)
           P0(u) == Positions(B, nb, t, u)
           P1(u) == Positions(A, na, t, u)
<1>1. nb \in Nat /\ B \in [1 .. nb -> Int] /\ \A i \in 1 .. nb : B[i] \in DOMAIN t
  BY BelowIs
<1>2. na \in Nat /\ A \in [1 .. na -> Int] /\ \A i \in 1 .. na : A[i] \in DOMAIN t
  BY AboveIs
<1>3. EntryOf(t).s0 = Side(B, t) /\ EntryOf(t).s1 = Side(A, t)
  BY DEF EntryOf
<1> HIDE DEF B, A, nb, na
<1>4. \A u : /\ Cardinality(P0(u)) \in Nat
             /\ Pairs(Selected(Side(B, t), P0(u)), Selected(B, P0(u)), Cardinality(P0(u)))
  <2> TAKE u
  <2>1. P0(u) \in SUBSET (1 .. nb)
    BY DEF Positions
  <2> HIDE DEF P0
  <2> QED
    BY <1>1, <2>1, SideSelected, Zenon
<1>5. \A u : /\ Cardinality(P1(u)) \in Nat
             /\ Pairs(Selected(Side(A, t), P1(u)), Selected(A, P1(u)), Cardinality(P1(u)))
  <2> TAKE u
  <2>1. P1(u) \in SUBSET (1 .. na)
    BY DEF Positions
  <2> HIDE DEF P1
  <2> QED
    BY <1>2, <2>1, SideSelected, Zenon
<1>6. /\ Used(Side(B, t)) = Selected(Side(B, t), P0(TRUE))
      /\ NotUsed(Side(B, t)) = Selected(Side(B, t), P0(FALSE))
      /\ UsedOf(B, t, TRUE) = Selected(B, P0(TRUE)) /\ UsedOf(B, t, FALSE) = Selected(B, P0(FALSE))
  BY <1>1, UsedIs
<1>7. /\ Used(Side(A, t)) = Selected(Side(A, t), P1(TRUE))
      /\ NotUsed(Side(A, t)) = Selected(Side(A, t), P1(FALSE))
      /\ UsedOf(A, t, TRUE) = Selected(A, P1(TRUE)) /\ UsedOf(A, t, FALSE) = Selected(A, P1(FALSE))
  BY <1>2, UsedIs
<1> HIDE DEF P0, P1
<1>8. Pocs(Poc, Used(Side(B, t))) = Moved(UsedOf(B, t, TRUE))
  <2> DEFINE n == Cardinality(P0(TRUE))
             x == Used(Side(B, t))
             y == UsedOf(B, t, TRUE)
  <2>1. n \in Nat /\ Pairs(x, y, n)
    BY <1>4, <1>6
  <2> HIDE DEF n, x, y
  <2>2. Pocs(Poc, x) = Moved(y)
    BY <2>1, PairsMoved, Zenon
  <2> QED
    BY <2>2 DEF x, y
<1>9. Pocs(Poc, Used(Side(A, t))) = Moved(UsedOf(A, t, TRUE))
  <2> DEFINE n == Cardinality(P1(TRUE))
             x == Used(Side(A, t))
             y == UsedOf(A, t, TRUE)
  <2>1. n \in Nat /\ Pairs(x, y, n)
    BY <1>5, <1>7
  <2> HIDE DEF n, x, y
  <2>2. Pocs(Poc, x) = Moved(y)
    BY <2>1, PairsMoved, Zenon
  <2> QED
    BY <2>2 DEF x, y
<1>10. Pocs(Poc, NotUsed(Side(B, t)) \o NotUsed(Side(A, t))) = Moved(UsedOf(B, t, FALSE) \o UsedOf(A, t, FALSE))
  <2> DEFINE x == NotUsed(Side(B, t))
             y == UsedOf(B, t, FALSE)
             u == NotUsed(Side(A, t))
             v == UsedOf(A, t, FALSE)
             m == Cardinality(P0(FALSE))
             n == Cardinality(P1(FALSE))
  <2>1. m \in Nat /\ Pairs(x, y, m)
    BY <1>4, <1>6
  <2>2. n \in Nat /\ Pairs(u, v, n)
    BY <1>5, <1>7
  <2> HIDE DEF x, y, u, v, m, n
  <2>3. Pairs(x \o u, y \o v, m + n)
    BY <2>1, <2>2, PairsJoined, Zenon
  <2>4. m + n \in Nat
    BY <2>1, <2>2
  <2>5. Pocs(Poc, x \o u) = Moved(y \o v)
    BY <2>3, <2>4, PairsMoved, Zenon
  <2> QED
    BY <2>5 DEF x, y, u, v
<1> QED
  BY <1>3, <1>8, <1>9, <1>10 DEF B, A

-------------------------------------------------------------------------------
(* MSB cycles: the differences that are sent add up to the cycles.         *)
LEMMA DivMod ==
    ASSUME NEW M \in Nat \ {0}, NEW a \in Int
    PROVE  a - (a % M) = M * (a \div M) /\ a \div M \in Int /\ a % M \in Int
OBVIOUS
LEMMA DivTimes ==
    ASSUME NEW M \in Nat \ {0}, NEW k \in Int
    PROVE  (M * k) \div M = k
OBVIOUS
LEMMA TimesMinus ==
    ASSUME NEW M \in Nat \ {0}, NEW x \in Int, NEW y \in Int
    PROVE  M * x - M * y = M * (x - y)
OBVIOUS

LEMMA CycleIs ==
    ASSUME NEW poc \in Int
    PROVE  /\ Cycle(poc) \in Int
           /\ (poc % MaxLsb) + (Poc - MaxLsb * Cycle(poc)) - (Poc % MaxLsb) = poc
<1> DEFINE q == Poc \div MaxLsb
           k == poc \div MaxLsb
<1>1. MaxLsb \in Nat \ {0} /\ Poc \in Int
  BY SliceReferencesAssumption DEF SliceReferencesAssumption
<1>2. Poc - (Poc % MaxLsb) = MaxLsb * q /\ q \in Int /\ Poc % MaxLsb \in Int
  BY <1>1, DivMod
<1>3. poc - (poc % MaxLsb) = MaxLsb * k /\ k \in Int /\ poc % MaxLsb \in Int
  BY <1>1, DivMod
<1> HIDE DEF q, k
<1>4. MaxLsb * q - MaxLsb * k = MaxLsb * (q - k) /\ q - k \in Int
  BY <1>1, <1>2, <1>3, TimesMinus
<1>5. (Poc - (Poc % MaxLsb)) - (poc - (poc % MaxLsb)) = MaxLsb * (q - k)
  BY <1>2, <1>3, <1>4
<1>6. Cycle(poc) = (MaxLsb * (q - k)) \div MaxLsb
  BY <1>5, Zenon DEF Cycle
<1>7. Cycle(poc) = q - k
  BY <1>1, <1>4, <1>6, DivTimes
<1>8. MaxLsb * Cycle(poc) = (Poc - (Poc % MaxLsb)) - (poc - (poc % MaxLsb))
  BY <1>5, <1>7, Zenon
<1>10. MaxLsb * Cycle(poc) \in Int
  BY <1>1, <1>2, <1>3, <1>8
<1>11. (poc % MaxLsb) + (Poc - MaxLsb * Cycle(poc)) - (Poc % MaxLsb) = poc
  <2> DEFINE m == MaxLsb * Cycle(poc)
             x == Poc % MaxLsb
             y == poc % MaxLsb
  <2>1. m = (Poc - x) - (poc - y) /\ m \in Int /\ x \in Int /\ y \in Int
    BY <1>2, <1>3, <1>8, <1>10
  <2> HIDE DEF m, x, y
  <2>2. y + (Poc - m) - x = poc
    BY <1>1, <2>1
  <2> QED
    BY <2>2 DEF m, x, y
<1>12. Cycle(poc) \in Int
  BY <1>4, <1>7
<1> QED
  BY <1>11, <1>12

Cycles(g, pictures, m) ==
    /\ g[0] = 0 /\ \A i \in 0 .. m : g[i] \in Int
    /\ \A i \in 1 .. m : g[i] = IF pictures[i].msb THEN Cycle(pictures[i].poc) ELSE g[i - 1]

LEMMA CyclesBeforeIs ==
    ASSUME NEW m \in Nat, NEW pictures, pictures = [i \in 1 .. m |-> pictures[i]],
           \A i \in 1 .. m : pictures[i].poc \in Int
    PROVE  Cycles(CyclesBefore(pictures), pictures, m)
<1> DEFINE Is(w) == w = [i \in 0 .. Len(pictures) |->
                           IF i = 0 THEN 0
                           ELSE IF pictures[i].msb THEN Cycle(pictures[i].poc) ELSE w[i - 1]]
           sum == CHOOSE x : Is(x)
           first == 0
           step == [x \in (1 .. m) \X Int |-> IF pictures[x[1]].msb THEN Cycle(pictures[x[1]].poc) ELSE x[2]]
<1>1. Len(pictures) = m
  BY LengthOf
<1>2. step \in [(1 .. m) \X Int -> Int]
  <2>1. \A x \in (1 .. m) \X Int : x[1] \in 1 .. m /\ x[2] \in Int
    OBVIOUS
  <2>2. \A i \in 1 .. m : Cycle(pictures[i].poc) \in Int
    BY CycleIs
  <2> QED
    BY <2>1, <2>2
<1>3. \A k \in 1 .. m, x \in Int :
        step[<<k, x>>] = IF pictures[k].msb THEN Cycle(pictures[k].poc) ELSE x
  OBVIOUS
<1>4. first \in Int /\ first = 0
  OBVIOUS
<1> HIDE DEF step, first
<1>5. PICK g \in [0 .. m -> Int] : Solves(g, m, first, step)
  BY <1>2, <1>4, RecursionExists, Zenon
<1>6. g[0] = 0 /\ \A i \in 1 .. m : g[i] = IF pictures[i].msb THEN Cycle(pictures[i].poc) ELSE g[i - 1]
  <2>1. \A i \in 1 .. m : g[i - 1] \in Int /\ g[i] = step[<<i, g[i - 1]>>]
    BY <1>5 DEF Solves
  <2> QED
    BY <1>3, <1>4, <1>5, <2>1 DEF Solves
<1>7. Is(g)
  <2>1. \A i \in 0 .. m : g[i] = IF i = 0 THEN 0
                                 ELSE IF pictures[i].msb THEN Cycle(pictures[i].poc) ELSE g[i - 1]
    BY <1>6
  <2>2. g = [i \in 0 .. m |-> g[i]]
    BY <1>5
  <2> QED
    BY <1>1, <2>1, <2>2
<1>8. Is(sum)
  BY <1>7
<1> HIDE DEF sum
<1>9. \A i \in 0 .. m : sum[i] = IF i = 0 THEN 0
                                 ELSE IF pictures[i].msb THEN Cycle(pictures[i].poc) ELSE sum[i - 1]
  BY <1>1, <1>8
<1>a. sum[0] = 0
  <2>1. 0 \in 0 .. m
    OBVIOUS
  <2> QED
    BY <1>9, <2>1, Zenon
<1>b. \A i \in 1 .. m : sum[i] = IF pictures[i].msb THEN Cycle(pictures[i].poc) ELSE sum[i - 1]
  <2>1. \A i \in 1 .. m : i \in 0 .. m /\ i # 0
    OBVIOUS
  <2> QED
    BY <1>9, <2>1, Zenon
<1>10. \A i \in 0 .. m : sum[i] \in Int
  <2> DEFINE S == {i \in 0 .. m : sum[i] \in Int}
  <2>1. 0 \in S
    <3>1. 0 \in 0 .. m /\ 0 \in Int
      OBVIOUS
    <3> QED
      BY <1>a, <3>1, Zenon
  <2>2. ASSUME NEW k \in 0 .. m - 1, k \in S PROVE k + 1 \in S
    <3>1. k + 1 \in 0 .. m /\ k + 1 # 0 /\ (k + 1) - 1 = k /\ k + 1 \in 1 .. m /\ sum[k] \in Int
      BY <2>2
    <3>2. Cycle(pictures[k + 1].poc) \in Int
      BY <3>1, CycleIs
    <3> QED
      BY <1>b, <3>1, <3>2
  <2> HIDE DEF S
  <2>3. \A k \in 0 .. m : k \in S
    BY <2>1, <2>2, StepByStep
  <2> QED
    BY <2>3 DEF S
<1>11. Cycles(sum, pictures, m)
  BY <1>a, <1>b, <1>10, Zenon DEF Cycles
<1> QED
  BY <1>11, Zenon DEF CyclesBefore, sum

(* The differences of a run of entries.                                    *)
Differs(c, g, pictures, m) ==
    \A i \in 1 .. m : c[i] \in Int /\ c[i] = IF pictures[i].msb THEN Cycle(pictures[i].poc) - g[i - 1] ELSE 0

LEMMA DifferencesAre ==
    ASSUME NEW m \in Nat, NEW pictures, pictures = [i \in 1 .. m |-> pictures[i]],
           \A i \in 1 .. m : pictures[i].poc \in Int
    PROVE  /\ CycleDifferences(pictures) \in [1 .. m -> Int]
           /\ Differs(CycleDifferences(pictures), CyclesBefore(pictures), pictures, m)
<1> DEFINE g == CyclesBefore(pictures)
           c == CycleDifferences(pictures)
<1>1. Cycles(g, pictures, m)
  BY CyclesBeforeIs, Zenon
<1>2. DOMAIN pictures = 1 .. m
  BY LengthOf
<1>3. c = [i \in 1 .. m |-> IF pictures[i].msb THEN Cycle(pictures[i].poc) - g[i - 1] ELSE 0]
  BY <1>2, Zenon DEF CycleDifferences
<1> HIDE DEF g, c
<1>4. ASSUME NEW i \in 1 .. m
      PROVE  Cycle(pictures[i].poc) \in Int /\ g[i - 1] \in Int
  <2>1. i - 1 \in 0 .. m
    OBVIOUS
  <2> QED
    BY <1>1, <2>1, CycleIs DEF Cycles
<1>5. \A i \in 1 .. m : c[i] \in Int
  BY <1>3, <1>4
<1>6. c \in [1 .. m -> Int]
  BY <1>3, <1>5
<1> QED
  BY <1>3, <1>5, <1>6 DEF Differs, c, g

(* The sum over the differences of both runs starts again at the second.   *)
Sums(sum, n, m, ga, gb) == \A i \in 1 .. n + m : sum[i] = IF i <= n THEN ga[i] ELSE gb[i - n]

LEMMA SumIs ==
    ASSUME NEW n \in Nat, NEW m \in Nat, NEW a \in [1 .. n -> Int], NEW b \in [1 .. m -> Int],
           NEW ga, NEW gb, NEW pa, NEW pb, Cycles(ga, pa, n), Cycles(gb, pb, m),
           Differs(a, ga, pa, n), Differs(b, gb, pb, m)
    PROVE  Sums(deltaPocMsbCycleLt(n, a \o b), n, m, ga, gb)
<1> DEFINE c == a \o b
           N == n + m
           Is(w) == w = [i \in 1 .. Len(c) |->
                           IF i = 1 \/ i = n + 1 THEN c[i] ELSE w[i - 1] + c[i]]
           w == [i \in 1 .. N |-> IF i <= n THEN ga[i] ELSE gb[i - n]]
           sum == CHOOSE x : Is(x)
<1>1. Len(c) = N /\ \A i \in 1 .. N : c[i] = IF i <= n THEN a[i] ELSE b[i - n]
  <2>1. a \in Seq(Int) /\ Len(a) = n /\ b \in Seq(Int) /\ Len(b) = m
    BY AsSequence
  <2> QED
    BY <2>1, ConcatProperties
<1> HIDE DEF c
<1>2. ASSUME NEW i \in 1 .. n PROVE ga[i - 1] \in Int /\ ga[i] \in Int /\ ga[i] = ga[i - 1] + a[i]
  <2>1. i - 1 \in 0 .. n /\ i \in 0 .. n
    OBVIOUS
  <2>2. ga[i - 1] \in Int /\ ga[i] \in Int /\ a[i] \in Int
    BY <2>1 DEF Cycles
  <2>3. ga[i] = IF pa[i].msb THEN Cycle(pa[i].poc) ELSE ga[i - 1]
    BY DEF Cycles
  <2>4. a[i] = IF pa[i].msb THEN Cycle(pa[i].poc) - ga[i - 1] ELSE 0
    BY DEF Differs
  <2>5. CASE pa[i].msb
    BY <2>2, <2>3, <2>4, <2>5
  <2>6. CASE ~pa[i].msb
    BY <2>2, <2>3, <2>4, <2>6
  <2> QED
    BY <2>5, <2>6
<1>3. ASSUME NEW i \in 1 .. m PROVE gb[i - 1] \in Int /\ gb[i] \in Int /\ gb[i] = gb[i - 1] + b[i]
  <2>1. i - 1 \in 0 .. m /\ i \in 0 .. m
    OBVIOUS
  <2>2. gb[i - 1] \in Int /\ gb[i] \in Int /\ b[i] \in Int
    BY <2>1 DEF Cycles
  <2>3. gb[i] = IF pb[i].msb THEN Cycle(pb[i].poc) ELSE gb[i - 1]
    BY DEF Cycles
  <2>4. b[i] = IF pb[i].msb THEN Cycle(pb[i].poc) - gb[i - 1] ELSE 0
    BY DEF Differs
  <2>5. CASE pb[i].msb
    BY <2>2, <2>3, <2>4, <2>5
  <2>6. CASE ~pb[i].msb
    BY <2>2, <2>3, <2>4, <2>6
  <2> QED
    BY <2>5, <2>6
<1>4. ga[0] = 0 /\ gb[0] = 0
  BY DEF Cycles
<1>5. ASSUME NEW i \in 1 .. N
      PROVE  w[i] = IF i = 1 \/ i = n + 1 THEN c[i] ELSE w[i - 1] + c[i]
  <2>1. w[i] = IF i <= n THEN ga[i] ELSE gb[i - n]
    OBVIOUS
  <2>2. c[i] = IF i <= n THEN a[i] ELSE b[i - n]
    BY <1>1
  <2>3. CASE i <= n
    <3>1. i \in 1 .. n
      BY <2>3
    <3>2. ga[i] = ga[i - 1] + a[i] /\ a[i] \in Int
      BY <1>2, <3>1
    <3>3. CASE i = 1
      <4>1. i - 1 = 0
        BY <3>3
      <4> HIDE DEF w
      <4> QED
        BY <1>4, <2>1, <2>2, <2>3, <3>2, <3>3, <4>1
    <3>4. CASE i # 1
      <4>1. i - 1 \in 1 .. N /\ i - 1 <= n /\ i # n + 1
        BY <2>3, <3>4
      <4>2. w[i - 1] = ga[i - 1]
        BY <4>1
      <4> HIDE DEF w
      <4> QED
        BY <2>1, <2>2, <2>3, <3>2, <3>4, <4>1, <4>2
    <3> QED
      BY <3>3, <3>4
  <2>4. CASE ~(i <= n)
    <3>1. i - n \in 1 .. m
      BY <2>4
    <3>2. gb[i - n] = gb[(i - n) - 1] + b[i - n] /\ b[i - n] \in Int
      BY <1>3, <3>1
    <3>3. CASE i = n + 1
      <4>1. (i - n) - 1 = 0
        BY <3>3
      <4> HIDE DEF w
      <4> QED
        BY <1>4, <2>1, <2>2, <2>4, <3>2, <3>3, <4>1
    <3>4. CASE i # n + 1
      <4>1. i - 1 \in 1 .. N /\ ~(i - 1 <= n) /\ i # 1 /\ (i - 1) - n = (i - n) - 1
        BY <2>4, <3>4
      <4>2. w[i - 1] = gb[(i - 1) - n]
        BY <4>1
      <4> HIDE DEF w
      <4> QED
        BY <2>1, <2>2, <2>4, <3>2, <3>4, <4>1, <4>2
    <3> QED
      BY <3>3, <3>4
  <2> QED
    BY <2>3, <2>4
<1>6. Is(w)
  <2>1. w = [i \in 1 .. N |-> w[i]]
    OBVIOUS
  <2> HIDE DEF w
  <2> QED
    BY <1>1, <1>5, <2>1
<1>7. Is(sum)
  BY <1>6
<1> HIDE DEF sum
<1>8. \A i \in 1 .. N : sum[i] = IF i = 1 \/ i = n + 1 THEN c[i] ELSE sum[i - 1] + c[i]
  BY <1>1, <1>7
<1>9. \A i \in 0 .. N : i # 0 => sum[i] = w[i]
  <2> DEFINE S == {i \in 0 .. N : i # 0 => sum[i] = w[i]}
  <2> HIDE DEF w
  <2>1. 0 \in S
    OBVIOUS
  <2>2. ASSUME NEW k \in 0 .. N - 1, k \in S PROVE k + 1 \in S
    <3>1. k + 1 \in 1 .. N /\ (k + 1) - 1 = k /\ k + 1 \in 0 .. N
      OBVIOUS
    <3>2. k = 0 \/ sum[k] = w[k]
      BY <2>2
    <3>3. sum[k + 1] = w[k + 1]
      <4>1. CASE k = 0
        <5>1. k + 1 = 1
          BY <4>1
        <5> QED
          BY <1>5, <1>8, <3>1, <5>1
      <4>2. CASE k # 0
        BY <1>5, <1>8, <3>1, <3>2, <4>2
      <4> QED
        BY <4>1, <4>2
    <3> QED
      BY <3>1, <3>3
  <2> HIDE DEF S
  <2>n. N \in Nat
    OBVIOUS
  <2> HIDE DEF N
  <2>3. \A k \in 0 .. N : k \in S
    BY <2>1, <2>2, <2>n, StepByStep
  <2> QED
    BY <2>3 DEF S
<1>10. deltaPocMsbCycleLt(n, c) = sum
  BY Zenon DEF deltaPocMsbCycleLt, sum
<1>11. \A i \in 1 .. N : sum[i] = w[i]
  <2>1. \A i \in 1 .. N : i \in 0 .. N /\ i # 0
    OBVIOUS
  <2> HIDE DEF w
  <2> QED
    BY <1>9, <2>1
<1> QED
  BY <1>10, <1>11 DEF c, Sums

-------------------------------------------------------------------------------
(* The long-term pictures of a slice are derived as they were meant.       *)
Derives(p, picture) ==
    /\ p.lsb = picture.poc % MaxLsb /\ p.used = picture.used /\ p.msb = picture.msb
    /\ p.msb => p.cycle = Cycle(picture.poc)
AllDerive(lt, pictures) ==
    /\ lt = [i \in 1 .. Len(pictures) |-> lt[i]]
    /\ \A i \in 1 .. Len(pictures) : Derives(lt[i], pictures[i])

LEMMA PicturesAre ==
    ASSUME NEW pictures \in LongTermPictureSets
    PROVE  /\ Len(pictures) \in 0 .. MaxLongTerm
           /\ pictures \in [1 .. Len(pictures) -> [poc : LongTermPocs, used : BOOLEAN, msb : BOOLEAN]]
           /\ \A i \in 1 .. Len(pictures) : /\ pictures[i].poc \in LongTermPocs /\ pictures[i].poc \in Int
                                            /\ pictures[i].used \in BOOLEAN /\ pictures[i].msb \in BOOLEAN
                                            /\ pictures[i].msb \/ OnlyOne(pictures[i].poc)
<1>1. MaxLongTerm \in Nat /\ LongTermPocs \subseteq Int
  BY SliceReferencesAssumption DEF SliceReferencesAssumption
<1> DEFINE T == [poc : LongTermPocs, used : BOOLEAN, msb : BOOLEAN]
<1>2. PICK n \in 0 .. MaxLongTerm :
        /\ pictures \in [1 .. n -> T]
        /\ \A i \in 1 .. n : pictures[i].msb \/ OnlyOne(pictures[i].poc)
  BY DEF LongTermPictureSets
<1>3. \A x \in T : x.poc \in LongTermPocs /\ x.used \in BOOLEAN /\ x.msb \in BOOLEAN
  OBVIOUS
<1> HIDE DEF T
<1>4. Len(pictures) = n
  BY <1>1, <1>2, AsSequence
<1>5. \A i \in 1 .. n : pictures[i] \in T
  BY <1>2
<1> QED
  BY <1>1, <1>2, <1>3, <1>4, <1>5 DEF T

LEMMA LongTermDerived ==
    ASSUME NEW id \in SpsIds, NEW pictures \in LongTermPictureSets, NEW h \in HeadersOf(id, pictures),
           NEW sps, sps.lt = SpsLongTerm[id]
    PROVE  AllDerive(deriveLongTerm(sps, h), pictures)
<1> DEFINE N == Len(pictures)
           T == [poc : LongTermPocs, used : BOOLEAN, msb : BOOLEAN]
<1>1. N \in Nat /\ pictures \in [1 .. N -> T] /\ \A i \in 1 .. N : pictures[i].poc \in Int
  BY PicturesAre
<1> HIDE DEF T
<1>2. PICK n \in 0 .. N : (\A i \in 1 .. n : Listed(id, pictures[i]) # {}) /\ h = HeaderOf(id, pictures, n)
  BY Zenon DEF HeadersOf
<1> DEFINE listed == SubSeq(pictures, 1, n)
           own == SubSeq(pictures, n + 1, N)
           m == N - n
           a == CycleDifferences(listed)
           b == CycleDifferences(own)
           ga == CyclesBefore(listed)
           gb == CyclesBefore(own)
<1>3. n \in Nat /\ m \in Nat /\ n + m = N
  BY <1>1
<1>4. pictures \in Seq(T)
  BY <1>1, AsSequence, Zenon
<1>5. listed \in Seq(T) /\ Prefix(listed, pictures, n)
  <2>1. n \in 0 .. Len(pictures)
    BY <1>2
  <2> QED
    BY <1>4, <2>1, PrefixIs, Zenon
<1>6. Len(listed) = n /\ (\A i \in 1 .. n : listed[i] = pictures[i])
      /\ listed = [i \in 1 .. n |-> listed[i]]
  <2> HIDE DEF listed
  <2> QED
    BY <1>5 DEF Prefix
<1>7. Len(own) = m /\ (\A i \in 1 .. m : own[i] = pictures[n + i]) /\ own = [i \in 1 .. m |-> own[i]]
  <2>1. \A i \in n + 1 .. N : i \in 1 .. N /\ pictures[i] \in T
    BY <1>1, <1>3
  <2>2. /\ own \in Seq(T) /\ Len(own) = (IF n + 1 <= N THEN N - (n + 1) + 1 ELSE 0)
        /\ \A i \in 1 .. N - (n + 1) + 1 : own[i] = pictures[n + 1 + i - 1]
    <3>1. n + 1 \in Int /\ N \in Int
      BY <1>1, <1>3
    <3> QED
      BY <2>1, <3>1, SubSeqProperties
  <2> HIDE DEF own
  <2>3. Len(own) = m
    <3>1. \A x, y, z \in Nat : x + z = y => (IF x + 1 <= y THEN y - (x + 1) + 1 ELSE 0) = z
      OBVIOUS
    <3> HIDE DEF m, N
    <3> QED
      BY <1>1, <1>3, <2>2, <3>1, Zenon
  <2>4. \A i \in 1 .. m : own[i] = pictures[n + i]
    <3> TAKE i \in 1 .. m
    <3>1. i \in 1 .. N - (n + 1) + 1 /\ n + 1 + i - 1 = n + i
      BY <1>1, <1>3
    <3> QED
      BY <2>2, <3>1
  <2> HIDE DEF m
  <2> QED
    BY <2>2, <2>3, <2>4
<1> HIDE DEF listed, own, m, N
<1>8. (\A i \in 1 .. n : listed[i].poc \in Int) /\ (\A i \in 1 .. m : own[i].poc \in Int)
  <2>1. \A i \in 1 .. n : i \in 1 .. N
    BY <1>3
  <2>2. \A i \in 1 .. m : n + i \in 1 .. N
    BY <1>3
  <2> QED
    BY <1>1, <1>6, <1>7, <2>1, <2>2
<1>9. Cycles(ga, listed, n) /\ Cycles(gb, own, m)
  BY <1>3, <1>6, <1>7, <1>8, CyclesBeforeIs
<1>10. a \in [1 .. n -> Int] /\ Differs(a, ga, listed, n)
  BY <1>3, <1>6, <1>8, DifferencesAre
<1>11. b \in [1 .. m -> Int] /\ Differs(b, gb, own, m)
  BY <1>3, <1>7, <1>8, DifferencesAre
<1> HIDE DEF a, b, ga, gb
<1> DEFINE cycle == deltaPocMsbCycleLt(n, a \o b)
<1>12. \A i \in 1 .. n + m : cycle[i] = IF i <= n THEN ga[i] ELSE gb[i - n]
  <2>1. Sums(cycle, n, m, ga, gb)
    BY <1>3, <1>9, <1>10, <1>11, SumIs, Zenon
  <2> HIDE DEF cycle
  <2> QED
    BY <2>1, Zenon DEF Sums
<1>13. h = [ltIdxSps |-> [i \in 1 .. n |-> (CHOOSE k \in Listed(id, pictures[i]) : TRUE) - 1],
            lt |-> [i \in DOMAIN own |-> [lsb |-> own[i].poc % MaxLsb, used |-> own[i].used]],
            msb |-> [i \in DOMAIN pictures |-> pictures[i].msb],
            deltaPocMsbCycleLt |-> a \o b]
  BY <1>2, Zenon DEF HeaderOf, a, b, listed, own, N
<1>14. /\ h.ltIdxSps = [i \in 1 .. n |-> (CHOOSE k \in Listed(id, pictures[i]) : TRUE) - 1]
       /\ h.lt = [i \in 1 .. m |-> [lsb |-> own[i].poc % MaxLsb, used |-> own[i].used]]
       /\ h.msb = [i \in 1 .. N |-> pictures[i].msb]
       /\ h.deltaPocMsbCycleLt = a \o b
  <2>1. DOMAIN own = 1 .. m /\ DOMAIN pictures = 1 .. N
    BY <1>1, <1>7
  <2> QED
    BY <1>13, <2>1
<1>15. Len(h.ltIdxSps) = n
  <2> DEFINE f == h.ltIdxSps
  <2>1. f = [i \in 1 .. n |-> f[i]]
    BY <1>14
  <2> HIDE DEF f
  <2>2. Len(f) = n
    BY <1>3, <2>1, LengthOf
  <2> QED
    BY <2>2 DEF f
<1>16. Len(h.lt) = m
  <2> DEFINE f == h.lt
  <2>1. f = [i \in 1 .. m |-> f[i]]
    BY <1>14
  <2> HIDE DEF f
  <2>2. Len(f) = m
    BY <1>3, <2>1, LengthOf
  <2> QED
    BY <2>2 DEF f
<1> DEFINE Entry(i) == IF i <= n THEN sps.lt[h.ltIdxSps[i] + 1] ELSE h.lt[i - n]
           lt == deriveLongTerm(sps, h)
<1>17. lt = [i \in 1 .. N |-> [lsb |-> Entry(i).lsb, used |-> Entry(i).used,
                               msb |-> h.msb[i], cycle |-> cycle[i]]]
  <2> HIDE DEF cycle
  <2>1. deltaPocMsbCycleLt(Len(h.ltIdxSps), h.deltaPocMsbCycleLt) = cycle
    BY <1>14, <1>15, Zenon DEF cycle
  <2> QED
    BY <1>3, <1>15, <1>16, <2>1, Zenon DEF deriveLongTerm
<1> HIDE DEF lt, cycle
<1>18. ASSUME NEW i \in 1 .. N PROVE Entry(i).lsb = pictures[i].poc % MaxLsb /\ Entry(i).used = pictures[i].used
  <2>1. CASE i <= n
    <3> DEFINE L == Listed(id, pictures[i])
               k == CHOOSE x \in L : TRUE
    <3>1. i \in 1 .. n
      BY <1>3, <2>1
    <3>2. k \in L
      BY <1>2, <3>1
    <3>3. h.ltIdxSps[i] = k - 1
      <4> HIDE DEF k
      <4>1. (CHOOSE x \in Listed(id, pictures[i]) : TRUE) = k
        BY DEF k
      <4> QED
        BY <1>14, <3>1, <4>1
    <3> HIDE DEF k
    <3>4. k \in DOMAIN SpsLongTerm[id]
          /\ SpsLongTerm[id][k] = [lsb |-> pictures[i].poc % MaxLsb, used |-> pictures[i].used]
      BY <3>2 DEF Listed
    <3>5. k \in Nat
      <4>1. SpsLongTerm[id] \in Seq([lsb : 0 .. MaxLsb - 1, used : BOOLEAN])
        BY SliceReferencesAssumption, Zenon DEF SliceReferencesAssumption
      <4> QED
        BY <3>4, <4>1
    <3>6. h.ltIdxSps[i] + 1 = k
      BY <3>3, <3>5
    <3>7. Entry(i) = SpsLongTerm[id][k]
      BY <2>1, <3>6, Zenon
    <3> HIDE DEF Entry
    <3> QED
      BY <3>4, <3>7
  <2>2. CASE ~(i <= n)
    <3>1. i - n \in 1 .. m /\ n + (i - n) = i
      BY <1>3, <2>2
    <3>2. Entry(i) = h.lt[i - n]
      BY <2>2, Zenon
    <3> HIDE DEF Entry
    <3>3. own[i - n] = pictures[i]
      BY <1>7, <3>1
    <3>4. h.lt[i - n] = [lsb |-> own[i - n].poc % MaxLsb, used |-> own[i - n].used]
      BY <1>14, <3>1
    <3> QED
      BY <3>2, <3>3, <3>4
  <2> QED
    BY <2>1, <2>2
<1>19. ASSUME NEW i \in 1 .. N, pictures[i].msb PROVE cycle[i] = Cycle(pictures[i].poc)
  <2>1. i \in 1 .. n + m
    BY <1>3
  <2>2. CASE i <= n
    <3>1. i \in 1 .. n
      BY <1>3, <2>2
    <3>2. ga[i] = Cycle(listed[i].poc)
      BY <1>6, <1>9, <1>19, <3>1 DEF Cycles
    <3> QED
      BY <1>6, <1>12, <2>1, <2>2, <3>1, <3>2
  <2>3. CASE ~(i <= n)
    <3>1. i - n \in 1 .. m /\ n + (i - n) = i
      BY <1>3, <2>3
    <3>2. own[i - n] = pictures[i]
      BY <1>7, <3>1
    <3>3. gb[i - n] = Cycle(own[i - n].poc)
      BY <1>9, <1>19, <3>1, <3>2 DEF Cycles
    <3> QED
      BY <1>12, <2>1, <2>3, <3>2, <3>3
  <2> QED
    BY <2>2, <2>3
<1> HIDE DEF Entry
<1>20. \A i \in 1 .. N : Derives(lt[i], pictures[i])
  <2> TAKE i \in 1 .. N
  <2>1. /\ lt[i].lsb = Entry(i).lsb /\ lt[i].used = Entry(i).used /\ lt[i].msb = h.msb[i]
        /\ lt[i].cycle = cycle[i]
    BY <1>17
  <2>2. h.msb[i] = pictures[i].msb
    BY <1>14
  <2> QED
    BY <1>18, <1>19, <2>1, <2>2 DEF Derives
<1>21. lt = [i \in 1 .. N |-> lt[i]]
  BY <1>17
<1> QED
  BY <1>20, <1>21, Zenon DEF AllDerive, lt, N

-------------------------------------------------------------------------------
(* They are found in the DPB.                                              *)
LEMMA DpbIs ==
    /\ Len(DpbPictures) \in Nat
    /\ DpbPictures \in [1 .. Len(DpbPictures) -> Int]
    /\ \A poc \in LongTermPocs : \E i \in 1 .. Len(DpbPictures) : DpbPictures[i] = poc
<1> DEFINE n == Cardinality(LongTermPocs)
           s == Sorted(LongTermPocs)
           m == Cardinality(Distances)
           d == Sorted(Distances)
           v == [i \in DOMAIN d |-> Poc + d[i]]
<1>1. Poc \in Int /\ LongTermPocs \in SUBSET Int /\ IsFiniteSet(LongTermPocs)
      /\ Distances \in SUBSET Int /\ IsFiniteSet(Distances)
  BY SliceReferencesAssumption DEF SliceReferencesAssumption
<1>2. n \in Nat /\ s \in [1 .. n -> LongTermPocs] /\ Elements(s, n) = LongTermPocs
  BY <1>1, SortedIs, Zenon
<1>3. m \in Nat /\ d \in [1 .. m -> Distances]
  BY <1>1, SortedIs, Zenon
<1> HIDE DEF n, s, m, d
<1>4. v \in [1 .. m -> Int]
  <2>1. DOMAIN d = 1 .. m /\ \A i \in 1 .. m : d[i] \in Int
    BY <1>1, <1>3
  <2>2. \A i \in 1 .. m : Poc + d[i] \in Int
    BY <1>1, <2>1
  <2> QED
    BY <2>1, <2>2
<1>5. s \in [1 .. n -> Int]
  BY <1>1, <1>2
<1>6. s \in Seq(Int) /\ Len(s) = n /\ v \in Seq(Int) /\ Len(v) = m
  BY <1>2, <1>3, <1>4, <1>5, AsSequence, Zenon
<1> HIDE DEF v
<1> DEFINE dpb == s \o v
<1>7. dpb \in Seq(Int) /\ Len(dpb) = n + m /\ \A i \in 1 .. n + m : dpb[i] = IF i <= n THEN s[i] ELSE v[i - n]
  BY <1>6, ConcatProperties
<1> HIDE DEF dpb
<1>8. \A i \in 1 .. n : i \in 1 .. n + m /\ i <= n
  BY <1>2, <1>3
<1>9. \A poc \in LongTermPocs : \E i \in 1 .. n + m : dpb[i] = poc
  <2> TAKE poc \in LongTermPocs
  <2>1. PICK i \in 1 .. n : s[i] = poc
    BY <1>2 DEF Elements
  <2> QED
    BY <1>7, <1>8, <2>1
<1>10. DpbPictures = dpb
  BY Zenon DEF DpbPictures, dpb, s, v, d
<1>11. n + m \in Nat /\ dpb \in [1 .. Len(dpb) -> Int]
  BY <1>2, <1>3, <1>7
<1> QED
  BY <1>7, <1>9, <1>10, <1>11

FoundIn(p, dpb, value) ==
    LET at == {i \in DOMAIN dpb : IF p.msb THEN dpb[i] = value ELSE dpb[i] % MaxLsb = p.lsb}
    IN  IF at = {} THEN -1 ELSE dpb[CHOOSE i \in at : \A j \in at : j <= i]

Findable(p, poc, value) ==
    /\ poc \in LongTermPocs /\ p.msb \in BOOLEAN /\ p.lsb = poc % MaxLsb
    /\ p.msb = TRUE \/ OnlyOne(poc)
    /\ p.msb = TRUE => value = poc

LEMMA FoundIs ==
    ASSUME NEW poc, NEW p, NEW value, Findable(p, poc, value)
    PROVE  FoundIn(p, DpbPictures, value) = poc
<1>a. /\ poc \in LongTermPocs /\ p.msb \in BOOLEAN /\ p.lsb = poc % MaxLsb
      /\ p.msb = TRUE \/ OnlyOne(poc)
      /\ p.msb = TRUE => value = poc
  BY DEF Findable
<1> DEFINE dpb == DpbPictures
           n == Len(dpb)
           at == {i \in DOMAIN dpb : IF p.msb THEN dpb[i] = value ELSE dpb[i] % MaxLsb = p.lsb}
           last == CHOOSE i \in at : \A j \in at : j <= i
<1>1. n \in Nat /\ dpb \in [1 .. n -> Int] /\ \E i \in 1 .. n : dpb[i] = poc
  BY <1>a, DpbIs, Zenon
<1>2. DOMAIN dpb = 1 .. n
  BY <1>1
<1>3. ToSet(dpb) = {dpb[i] : i \in 1 .. n}
  BY <1>2, Zenon DEF ToSet
<1>4. p.msb = FALSE => \A i \in 1 .. n : dpb[i] % MaxLsb = p.lsb => dpb[i] = poc
  BY <1>a, <1>3, Zenon DEF OnlyOne
<1> HIDE DEF dpb, n
<1>5. at \in SUBSET (1 .. n) /\ at # {}
  <2>1. PICK i \in 1 .. n : dpb[i] = poc
    BY <1>1
  <2>2. i \in at
    BY <1>a, <1>2, <2>1
  <2> QED
    BY <1>2, <2>2
<1>6. \A i \in at : dpb[i] = poc
  BY <1>a, <1>2, <1>4
<1> HIDE DEF at
<1>7. \E i \in at : \A j \in at : j <= i
  <2>1. IsFiniteSet(at)
    <3>1. IsFiniteSet(1 .. n)
      BY <1>1, FS_Interval
    <3> QED
      BY <1>5, <3>1, FS_Subset, Zenon
  <2>2. at \in SUBSET Int
    BY <1>5
  <2> QED
    BY <1>5, <2>1, <2>2, LargestOf, Zenon
<1>8. last \in at
  BY <1>7
<1>9. dpb[last] = poc
  BY <1>6, <1>8
<1> QED
  BY <1>5, <1>9, Zenon DEF FoundIn, at, dpb

Records(list, pictures, c) ==
    /\ list = [i \in 1 .. c |-> list[i]]
    /\ \A i \in 1 .. c : /\ Derives(list[i], pictures[i])
                         /\ pictures[i].poc \in LongTermPocs /\ pictures[i].msb \in BOOLEAN
                         /\ pictures[i].msb \/ OnlyOne(pictures[i].poc)

PocsOf(pictures, c) == [i \in 1 .. c |-> pictures[i].poc]

LEMMA PicturesFound ==
    ASSUME NEW c \in Nat, NEW list, NEW pictures, Records(list, pictures, c)
    PROVE  LongTermPictures(Poc, MaxLsb, list, DpbPictures) = PocsOf(pictures, c)
<1>a. list = [i \in 1 .. c |-> list[i]]
  BY Zenon DEF Records
<1>b. \A i \in 1 .. c : /\ Derives(list[i], pictures[i])
                        /\ pictures[i].poc \in LongTermPocs /\ pictures[i].msb \in BOOLEAN
                        /\ pictures[i].msb \/ OnlyOne(pictures[i].poc)
  BY DEF Records
<1> DEFINE Value(p) == p.lsb + (Poc - MaxLsb * p.cycle) - (Poc % MaxLsb)
<1>1. DOMAIN list = 1 .. c
  BY <1>a, LengthOf
<1>2. LongTermPictures(Poc, MaxLsb, list, DpbPictures) =
        [i \in 1 .. c |-> FoundIn(list[i], DpbPictures, Value(list[i]))]
  BY <1>1, Zenon DEF LongTermPictures, FoundIn
<1>3. ASSUME NEW i \in 1 .. c PROVE FoundIn(list[i], DpbPictures, Value(list[i])) = pictures[i].poc
  <2> DEFINE p == list[i]
             poc == pictures[i].poc
             v == Value(p)
  <2>1. /\ poc \in LongTermPocs /\ p.msb \in BOOLEAN /\ p.lsb = poc % MaxLsb
        /\ p.msb = TRUE \/ OnlyOne(poc)
        /\ p.msb = TRUE => p.cycle = Cycle(poc)
    <3>1. /\ Derives(p, pictures[i]) /\ poc \in LongTermPocs /\ pictures[i].msb \in BOOLEAN
          /\ pictures[i].msb \/ OnlyOne(poc)
      BY <1>b, Zenon
    <3> HIDE DEF p
    <3> QED
      BY <3>1 DEF Derives
  <2>2. poc \in Int
    BY <2>1, SliceReferencesAssumption DEF SliceReferencesAssumption
  <2> HIDE DEF p, poc
  <2>3. p.msb = TRUE => v = poc
    <3>1. (poc % MaxLsb) + (Poc - MaxLsb * Cycle(poc)) - (Poc % MaxLsb) = poc
      BY <2>2, CycleIs, Zenon
    <3> QED
      BY <2>1, <3>1, Zenon
  <2> HIDE DEF v
  <2>4. FoundIn(p, DpbPictures, v) = poc
    <3>1. Findable(p, poc, v)
      BY <2>1, <2>3, Zenon DEF Findable
    <3> QED
      BY <3>1, FoundIs, Zenon
  <2> QED
    BY <2>4 DEF v, p, poc
<1> HIDE DEF Value
<1> QED
  BY <1>2, <1>3 DEF PocsOf

(* How many of the pictures are used, and which.                           *)
LEMMA LongTermUsed ==
    ASSUME NEW pictures \in LongTermPictureSets, NEW lt, AllDerive(lt, pictures), NEW used \in BOOLEAN
    PROVE  /\ LongTermPictures(Poc, MaxLsb, IF used THEN Used(lt) ELSE NotUsed(lt), DpbPictures)
                = LongTermOf(pictures, used)
           /\ Len(IF used THEN Used(lt) ELSE NotUsed(lt)) = Len(LongTermOf(pictures, used))
           /\ Len(LongTermOf(pictures, used)) \in 0 .. MaxLongTerm
           /\ LongTermOf(pictures, used) \in [1 .. Len(LongTermOf(pictures, used)) -> Int]
<1> DEFINE n == Len(pictures)
           P == {i \in 1 .. n : pictures[i].used = used}
           c == Cardinality(P)
           p == Sorted(P)
           x == Selected(lt, P)
           y == Selected(pictures, P)
           z == [i \in 1 .. c |-> y[i].poc]
<1>1. /\ n \in 0 .. MaxLongTerm
      /\ pictures \in [1 .. n -> [poc : LongTermPocs, used : BOOLEAN, msb : BOOLEAN]]
      /\ \A i \in 1 .. n : /\ pictures[i].poc \in LongTermPocs /\ pictures[i].poc \in Int
                           /\ pictures[i].used \in BOOLEAN /\ pictures[i].msb \in BOOLEAN
                           /\ pictures[i].msb \/ OnlyOne(pictures[i].poc)
  BY PicturesAre, Zenon
<1>2. /\ lt = [i \in 1 .. n |-> lt[i]]
      /\ \A i \in 1 .. n : Derives(lt[i], pictures[i])
  BY Zenon DEF AllDerive
<1> HIDE DEF n
<1>3. n \in Nat /\ MaxLongTerm \in Nat
  BY <1>1, SliceReferencesAssumption DEF SliceReferencesAssumption
<1>4. DOMAIN lt = 1 .. n /\ DOMAIN pictures = 1 .. n
  BY <1>1, <1>2
<1>5. \A i \in 1 .. n : lt[i].used = pictures[i].used /\ lt[i].used \in BOOLEAN
  BY <1>1, <1>2 DEF Derives
<1>6. (IF used THEN Used(lt) ELSE NotUsed(lt)) = x
  <2>1. CASE used = TRUE
    <3>1. {i \in DOMAIN lt : lt[i].used} = P
      BY <1>4, <1>5, <2>1
    <3> QED
      BY <2>1, <3>1, Zenon DEF Used
  <2>2. CASE used = FALSE
    <3>1. {i \in DOMAIN lt : ~lt[i].used} = P
      BY <1>4, <1>5, <2>2
    <3> QED
      BY <2>2, <3>1, Zenon DEF NotUsed
  <2> QED
    BY <2>1, <2>2
<1>7. P \in SUBSET (1 .. n)
  OBVIOUS
<1>8. {i \in DOMAIN pictures : pictures[i].used = used} = P
  BY <1>4, Zenon
<1> HIDE DEF P
<1>9. c \in Nat /\ Picks(lt, P, c, p)
  BY <1>3, <1>7, SelectedIs, Zenon
<1>10. Picks(pictures, P, c, p)
  BY <1>3, <1>7, SelectedIs, Zenon
<1>11. c <= n
  <2>1. IsFiniteSet(1 .. n) /\ Cardinality(1 .. n) = n
    BY <1>3, FS_Interval
  <2>2. c <= Cardinality(1 .. n)
    BY <1>7, <2>1, FS_Subset, Zenon
  <2> QED
    BY <2>1, <2>2, Zenon
<1> HIDE DEF c, p
<1>12. \A k \in 1 .. c : p[k] \in 1 .. n
  BY <1>7, <1>9 DEF Picks
<1>13. x = [k \in 1 .. c |-> lt[p[k]]] /\ y = [k \in 1 .. c |-> pictures[p[k]]]
  BY <1>9, <1>10 DEF Picks
<1> HIDE DEF x, y
<1>14. x = [k \in 1 .. c |-> x[k]] /\ y = [k \in 1 .. c |-> y[k]]
  BY <1>13
<1>15. Len(x) = c /\ DOMAIN y = 1 .. c
  BY <1>9, <1>14, LengthOf
<1>16. LongTermOf(pictures, used) = z
  BY <1>8, <1>15, Zenon DEF LongTermOf, y
<1>17. \A k \in 1 .. c : /\ Derives(x[k], y[k]) /\ y[k].poc \in Int
                         /\ y[k].poc \in LongTermPocs /\ y[k].msb \in BOOLEAN
                         /\ y[k].msb \/ OnlyOne(y[k].poc)
  BY <1>1, <1>2, <1>12, <1>13
<1>18. LongTermPictures(Poc, MaxLsb, x, DpbPictures) = z
  <2>1. Records(x, y, c)
    BY <1>14, <1>17, Zenon DEF Records
  <2>2. LongTermPictures(Poc, MaxLsb, x, DpbPictures) = PocsOf(y, c)
    BY <1>9, <2>1, PicturesFound, Zenon
  <2> QED
    BY <2>2, Zenon DEF PocsOf
<1>19. z \in [1 .. c -> Int]
  BY <1>17
<1> HIDE DEF z
<1>20. Len(z) = c
  BY <1>9, <1>19, AsSequence
<1>21. c \in 0 .. MaxLongTerm
  BY <1>1, <1>3, <1>9, <1>11
<1> QED
  BY <1>6, <1>15, <1>16, <1>18, <1>19, <1>20, <1>21

(* A slice refers to the pictures it means, and their number is right.     *)
LEMMA ReferencesDerived ==
    ASSUME NEW t \in Targets, NEW pictures \in LongTermPictureSets, NEW lt, AllDerive(lt, pictures)
    PROVE  /\ calcPOC(Poc, MaxLsb, EntryOf(t), lt, DpbPictures) = ReferencesMeant(t, pictures)
           /\ NumPocTotalCurr(EntryOf(t), lt) = TotalMeant(t, pictures)
           /\ TotalMeant(t, pictures) \in 0 .. MaxSize + MaxLongTerm
<1> DEFINE a == Len(Used(EntryOf(t).s0))
           b == Len(Used(EntryOf(t).s1))
           s == Cardinality({d \in DOMAIN t : t[d]})
           c == Len(LongTermOf(pictures, TRUE))
<1>1. a \in Nat /\ b \in Nat /\ a + b = s /\ s <= MaxSize
  BY ShortTermCount, Zenon
<1>2. /\ LongTermPictures(Poc, MaxLsb, Used(lt), DpbPictures) = LongTermOf(pictures, TRUE)
      /\ Len(Used(lt)) = c /\ c \in 0 .. MaxLongTerm
  <2>1. TRUE \in BOOLEAN
    OBVIOUS
  <2> QED
    BY <2>1, LongTermUsed
<1>3. LongTermPictures(Poc, MaxLsb, NotUsed(lt), DpbPictures) = LongTermOf(pictures, FALSE)
  <2>1. FALSE \in BOOLEAN
    OBVIOUS
  <2> QED
    BY <2>1, LongTermUsed
<1>4. /\ Pocs(Poc, Used(EntryOf(t).s0)) = Moved(UsedOf(Below(t), t, TRUE))
      /\ Pocs(Poc, Used(EntryOf(t).s1)) = Moved(UsedOf(Above(t), t, TRUE))
      /\ Pocs(Poc, NotUsed(EntryOf(t).s0) \o NotUsed(EntryOf(t).s1)) =
                Moved(UsedOf(Below(t), t, FALSE) \o UsedOf(Above(t), t, FALSE))
  BY ShortTermPictures, Zenon
<1>5. calcPOC(Poc, MaxLsb, EntryOf(t), lt, DpbPictures) = ReferencesMeant(t, pictures)
  BY <1>2, <1>3, <1>4, Zenon DEF calcPOC, ReferencesMeant
<1>6. NumPocTotalCurr(EntryOf(t), lt) = a + b + c
  BY <1>2, Zenon DEF NumPocTotalCurr
<1>7. TotalMeant(t, pictures) = s + c
  BY Zenon DEF TotalMeant
<1> HIDE DEF a, b, c, s
<1>8. MaxSize \in Nat /\ MaxLongTerm \in Nat
  BY SliceReferencesAssumption DEF SliceReferencesAssumption
<1>9. s + c \in 0 .. MaxSize + MaxLongTerm /\ a + b + c = s + c
  BY <1>1, <1>2, <1>8
<1> QED
  BY <1>5, <1>6, <1>7, <1>9, Zenon

(* The pictures a slice refers to, list by list.                           *)
Sizes(r, a, b, c) ==
    /\ a \in Nat /\ r.stCurrBefore \in [1 .. a -> Int]
    /\ b \in Nat /\ r.stCurrAfter \in [1 .. b -> Int]
    /\ c \in Nat /\ r.ltCurr \in [1 .. c -> Int]

LEMMA MovedIs ==
    ASSUME NEW n \in Nat, NEW y \in [1 .. n -> Int]
    PROVE  Moved(y) \in [1 .. n -> Int]
<1>1. Poc \in Int
  BY SliceReferencesAssumption DEF SliceReferencesAssumption
<1>2. \A i \in 1 .. n : Poc + y[i] \in Int
  BY <1>1
<1>3. DOMAIN y = 1 .. n
  OBVIOUS
<1> QED
  BY <1>2, <1>3 DEF Moved

LEMMA UsedMoved ==
    ASSUME NEW n \in Nat, NEW t \in Targets, NEW L \in [1 .. n -> Int], \A i \in 1 .. n : L[i] \in DOMAIN t
    PROVE  /\ Len(Used(Side(L, t))) \in Nat
           /\ Moved(UsedOf(L, t, TRUE)) \in [1 .. Len(Used(Side(L, t))) -> Int]
<1> DEFINE P == Positions(L, n, t, TRUE)
           c == Cardinality(P)
           x == Used(Side(L, t))
           y == UsedOf(L, t, TRUE)
<1>1. P \in SUBSET (1 .. n)
  BY DEF Positions
<1>2. x = Selected(Side(L, t), P) /\ y = Selected(L, P)
  BY UsedIs
<1> HIDE DEF P, x, y
<1>3. c \in Nat /\ Pairs(x, y, c)
  <2>1. c \in Nat /\ Pairs(Selected(Side(L, t), P), Selected(L, P), c)
    BY <1>1, SideSelected, Zenon
  <2> QED
    BY <1>2, <2>1, Zenon
<1> HIDE DEF c
<1>4. Len(x) = c
  BY <1>3, PairsMoved, Zenon
<1>5. y \in [1 .. c -> Int]
  BY <1>3 DEF Pairs
<1>6. Moved(y) \in [1 .. c -> Int]
  BY <1>3, <1>5, MovedIs, Zenon
<1> QED
  BY <1>3, <1>4, <1>6, Zenon DEF x, y

LEMMA ReferencesCount ==
    ASSUME NEW t \in Targets, NEW pictures \in LongTermPictureSets
    PROVE  \E a, b, c : /\ Sizes(ReferencesMeant(t, pictures), a, b, c)
                        /\ TotalMeant(t, pictures) = a + b + c
<1> DEFINE B == Below(t)
           A == Above(t)
           nb == Len(B)
           na == Len(A)
           r == ReferencesMeant(t, pictures)
           a == Len(Used(Side(B, t)))
           b == Len(Used(Side(A, t)))
           lt == LongTermOf(pictures, TRUE)
           c == Len(lt)
           s == Cardinality({d \in DOMAIN t : t[d]})
<1>1. nb \in Nat /\ B \in [1 .. nb -> Int] /\ \A i \in 1 .. nb : B[i] \in DOMAIN t
  BY BelowIs
<1>2. na \in Nat /\ A \in [1 .. na -> Int] /\ \A i \in 1 .. na : A[i] \in DOMAIN t
  BY AboveIs
<1>3. EntryOf(t).s0 = Side(B, t) /\ EntryOf(t).s1 = Side(A, t)
  BY DEF EntryOf
<1>4. a + b = s
  BY <1>3, ShortTermCount
<1>5. /\ r.stCurrBefore = Moved(UsedOf(B, t, TRUE)) /\ r.stCurrAfter = Moved(UsedOf(A, t, TRUE))
      /\ r.ltCurr = lt
  BY DEF ReferencesMeant
<1> HIDE DEF B, A, nb, na, r
<1>6. a \in Nat /\ Moved(UsedOf(B, t, TRUE)) \in [1 .. a -> Int]
  BY <1>1, UsedMoved
<1>7. b \in Nat /\ Moved(UsedOf(A, t, TRUE)) \in [1 .. b -> Int]
  BY <1>2, UsedMoved
<1>8. c \in Nat /\ lt \in [1 .. c -> Int]
  <2> DEFINE n == Len(pictures)
             q == [i \in 1 .. n |-> [lsb |-> pictures[i].poc % MaxLsb, used |-> pictures[i].used,
                                     msb |-> pictures[i].msb, cycle |-> Cycle(pictures[i].poc)]]
  <2>1. AllDerive(q, pictures)
    <3>1. \A i \in 1 .. n : Derives(q[i], pictures[i])
      BY DEF Derives
    <3>2. q = [i \in 1 .. n |-> q[i]]
      OBVIOUS
    <3> HIDE DEF q
    <3> QED
      BY <3>1, <3>2, Zenon DEF AllDerive
  <2> HIDE DEF q
  <2>2. TRUE \in BOOLEAN
    OBVIOUS
  <2>3. c \in 0 .. MaxLongTerm /\ lt \in [1 .. c -> Int]
    BY <2>1, <2>2, LongTermUsed, Zenon
  <2> HIDE DEF c
  <2>4. c \in Nat
    BY <2>3
  <2> QED
    BY <2>3, <2>4
<1>9. TotalMeant(t, pictures) = s + c
  BY Zenon DEF TotalMeant
<1> HIDE DEF a, b, c, s, lt
<1>10. Sizes(r, a, b, c)
  BY <1>5, <1>6, <1>7, <1>8, Zenon DEF Sizes
<1>11. TotalMeant(t, pictures) = a + b + c
  BY <1>4, <1>9
<1> QED
  BY <1>10, <1>11, Zenon DEF r

-------------------------------------------------------------------------------
(* The temporary list repeats its pictures.                                *)
LEMMA AfterRounds ==
    ASSUME NEW N \in Nat \ {0}, NEW k \in Nat, NEW j \in 0 .. N - 1
    PROVE  ((k * N) + j) % N = j
OBVIOUS
LEMMA OneMoreRound ==
    ASSUME NEW N \in Nat \ {0}, NEW k \in Nat
    PROVE  (k + 1) * N = k * N + N /\ k * N \in Nat /\ k <= k * N
OBVIOUS

Repeats(s, round, N, m) ==
    \A i \in 1 .. m : (i - 1) % N \in 0 .. N - 1 /\ s[i] = round[((i - 1) % N) + 1]

Filled(s, k, round, N) == s \in Seq(Int) /\ Len(s) = k * N /\ Repeats(s, round, N, k * N)
Fills(fill, round, size) == fill[0] = <<>> /\ \A k \in 1 .. size : fill[k] = fill[k - 1] \o round

LEMMA FillIs ==
    ASSUME NEW N \in Nat \ {0}, NEW round \in [1 .. N -> Int], NEW size \in Nat, NEW fill,
           Fills(fill, round, size)
    PROVE  \A k \in 0 .. size : Filled(fill[k], k, round, N)
<1>a. fill[0] = <<>> /\ \A k \in 1 .. size : fill[k] = fill[k - 1] \o round
  BY DEF Fills
<1> DEFINE Is(k) == fill[k] \in Seq(Int) /\ Len(fill[k]) = k * N /\ Repeats(fill[k], round, N, k * N)
           S == {k \in 0 .. size : Is(k)}
<1>1. 0 \in S
  <2>1. 0 * N = 0 /\ 0 \in 0 .. size
    OBVIOUS
  <2>2. fill[0] \in Seq(Int) /\ Len(fill[0]) = 0
    BY <1>a
  <2>3. Repeats(fill[0], round, N, 0)
    BY DEF Repeats
  <2> QED
    BY <2>1, <2>2, <2>3
<1>2. ASSUME NEW k \in 0 .. size - 1, k \in S PROVE k + 1 \in S
  <2>1. k \in Nat /\ k + 1 \in 1 .. size /\ (k + 1) - 1 = k /\ k + 1 \in 0 .. size
    OBVIOUS
  <2> DEFINE K == k * N
             s == fill[k]
             t == s \o round
  <2>2. s \in Seq(Int) /\ Len(s) = K /\ Repeats(s, round, N, K)
    BY <1>2
  <2>3. (k + 1) * N = K + N /\ K \in Nat
    BY <2>1, OneMoreRound
  <2>4. round \in Seq(Int) /\ Len(round) = N
    BY AsSequence
  <2>5. fill[k + 1] = t
    BY <1>a, <2>1
  <2>6. \A j \in 0 .. N - 1 : (K + j) % N = j
    BY <2>1, AfterRounds
  <2> HIDE DEF K, s
  <2>7. t \in Seq(Int) /\ Len(t) = K + N /\ \A i \in 1 .. K + N : t[i] = IF i <= K THEN s[i] ELSE round[i - K]
    BY <2>2, <2>3, <2>4, ConcatProperties
  <2> HIDE DEF t
  <2>8. Repeats(t, round, N, K + N)
    <3> SUFFICES ASSUME NEW i \in 1 .. K + N
                 PROVE  (i - 1) % N \in 0 .. N - 1 /\ t[i] = round[((i - 1) % N) + 1]
      BY DEF Repeats
    <3>1. CASE i <= K
      <4>1. i \in 1 .. K
        BY <2>3, <3>1
      <4>2. (i - 1) % N \in 0 .. N - 1 /\ s[i] = round[((i - 1) % N) + 1]
        BY <2>2, <4>1, Zenon DEF Repeats
      <4>3. t[i] = s[i]
        BY <2>7, <3>1
      <4> QED
        BY <4>2, <4>3, Zenon
    <3>2. CASE ~(i <= K)
      <4> DEFINE j == (i - K) - 1
      <4>1. j \in 0 .. N - 1 /\ K + j = i - 1 /\ j + 1 = i - K
        BY <2>3, <3>2
      <4>2. (K + j) % N = j
        BY <2>6, <4>1
      <4>3. (i - 1) % N = j
        BY <4>1, <4>2, Zenon
      <4>4. t[i] = round[i - K]
        BY <2>7, <3>2
      <4> HIDE DEF j
      <4> QED
        BY <4>1, <4>3, <4>4, Zenon
    <3> QED
      BY <3>1, <3>2
  <2> QED
    BY <2>1, <2>3, <2>5, <2>7, <2>8, Zenon
<1>3. \A k \in 0 .. size : k \in S
  <2> HIDE DEF S
  <2> QED
    BY <1>1, <1>2, StepByStep
<1>4. \A k \in 0 .. size : Is(k)
  BY <1>3
<1> QED
  BY <1>4, Zenon DEF Filled

Repeating(x, y, z, N, size) ==
    Repeats(TempList(x, y, z, size), x \o y \o z, N, size) /\ Len(x \o y \o z) = N
LEMMA TempListIs ==
    ASSUME NEW a \in Nat, NEW b \in Nat, NEW c \in Nat, NEW N, N = a + b + c, N # 0,
           NEW x \in [1 .. a -> Int], NEW y \in [1 .. b -> Int], NEW z \in [1 .. c -> Int],
           NEW size \in Nat
    PROVE  Repeating(x, y, z, N, size)
<1> DEFINE round == x \o y \o z
           C == Seq(Int)
           Is(w) == w = [n \in 0 .. size |-> IF n = 0 THEN <<>> ELSE w[n - 1] \o round]
           fill == CHOOSE w : Is(w)
           first == <<>>
           step == [q \in (1 .. size) \X C |-> q[2] \o round]
<1>1. N \in Nat \ {0} /\ round \in [1 .. N -> Int]
  <2>1. N \in Nat \ {0}
    OBVIOUS
  <2>2. x \o y \o z \in [1 .. a + b + c -> Int]
    BY ThreeLists, Zenon
  <2> QED
    BY <2>1, <2>2
<1>2. round \in C /\ Len(round) = N
  BY <1>1, AsSequence
<1> HIDE DEF round
<1>3. \A q \in C : q \o round \in C
  BY <1>2, ConcatProperties
<1>4. first \in C
  OBVIOUS
<1>5. \A q \in (1 .. size) \X C : q[1] \in 1 .. size /\ q[2] \in C
  OBVIOUS
<1>c. \A k \in 1 .. size, q \in C : <<k, q>> \in (1 .. size) \X C /\ <<k, q>>[2] = q
  OBVIOUS
<1> HIDE DEF C
<1>6. step \in [(1 .. size) \X C -> C]
  BY <1>3, <1>5
<1>7. \A k \in 1 .. size, q \in C : step[<<k, q>>] = q \o round
  BY <1>c
<1> HIDE DEF step, first
<1>8. PICK g \in [0 .. size -> C] : Solves(g, size, first, step)
  BY <1>4, <1>6, RecursionExists, Zenon
<1>9. g[0] = <<>> /\ \A k \in 1 .. size : g[k] = g[k - 1] \o round
  <2>1. \A k \in 1 .. size : g[k - 1] \in C /\ g[k] = step[<<k, g[k - 1]>>]
    BY <1>8 DEF Solves
  <2>2. g[0] = <<>>
    BY <1>8, Zenon DEF Solves, first
  <2> QED
    BY <1>7, <2>1, <2>2
<1>10. Is(g)
  <2>1. \A n \in 0 .. size : g[n] = IF n = 0 THEN <<>> ELSE g[n - 1] \o round
    <3>1. \A n \in 0 .. size : n = 0 \/ n \in 1 .. size
      OBVIOUS
    <3> QED
      BY <1>9, <3>1
  <2>2. g = [n \in 0 .. size |-> g[n]]
    BY <1>8
  <2> QED
    BY <2>1, <2>2
<1>11. Is(fill)
  BY <1>10
<1> HIDE DEF fill
<1>12. fill[0] = <<>> /\ \A k \in 1 .. size : fill[k] = fill[k - 1] \o round
  <2>1. 0 \in 0 .. size /\ \A k \in 1 .. size : k \in 0 .. size /\ k # 0
    OBVIOUS
  <2> QED
    BY <1>11, <2>1
<1> DEFINE s == fill[size]
           M == size * N
           temp == SubSeq(s, 1, size)
<1>13. s \in Seq(Int) /\ Len(s) = M /\ Repeats(s, round, N, M)
  <2>1. size \in 0 .. size
    OBVIOUS
  <2>2. Fills(fill, round, size)
    BY <1>12, Zenon DEF Fills
  <2>3. Filled(s, size, round, N)
    BY <1>1, <2>1, <2>2, FillIs, Zenon
  <2> QED
    BY <2>3, Zenon DEF Filled
<1>14. size <= M /\ M \in Nat
  BY <1>1, OneMoreRound
<1>15. TempList(x, y, z, size) = temp
  BY Zenon DEF TempList, fill, round
<1> HIDE DEF s, M
<1>16. Prefix(temp, s, size)
  <2>1. size \in 0 .. Len(s)
    BY <1>13, <1>14
  <2> QED
    BY <1>13, <2>1, PrefixIs, Zenon
<1> HIDE DEF temp
<1>17. Repeats(temp, round, N, size)
  <2> SUFFICES ASSUME NEW i \in 1 .. size
               PROVE  (i - 1) % N \in 0 .. N - 1 /\ temp[i] = round[((i - 1) % N) + 1]
    BY DEF Repeats
  <2>1. i \in 1 .. M
    BY <1>14
  <2>2. temp[i] = s[i]
    BY <1>16 DEF Prefix
  <2>3. (i - 1) % N \in 0 .. N - 1 /\ s[i] = round[((i - 1) % N) + 1]
    BY <1>13, <2>1, Zenon DEF Repeats
  <2> QED
    BY <2>2, <2>3, Zenon
<1> QED
  BY <1>2, <1>15, <1>17 DEF round, Repeating

(* A list as it is sent.                                                   *)
IsList(l, total) ==
    /\ l.active \in Nat
    /\ l.active # 0 => total # 0
    /\ l.entries = <<>> \/ (total > 1 /\ l.entries \in [1 .. l.active -> 0 .. total - 1])

Built(l, total, x, y, z) ==
    RefList(TempList(x, y, z, Larger(l.active, total)), l.active, listEntries(total, l.entries))
      = ListMeant(l, x, y, z)
LEMMA ListIs ==
    ASSUME NEW a \in Nat, NEW b \in Nat, NEW c \in Nat, NEW total, total = a + b + c,
           NEW x \in [1 .. a -> Int], NEW y \in [1 .. b -> Int], NEW z \in [1 .. c -> Int],
           NEW l, IsList(l, total)
    PROVE  Built(l, total, x, y, z)
<1> DEFINE n == l.active
           e == l.entries
           size == Larger(n, total)
           temp == TempList(x, y, z, size)
           round == x \o y \o z
           made == RefList(temp, n, listEntries(total, e))
           At(i) == IF e = <<>> THEN i - 1 ELSE e[i]
<1>1. /\ n \in Nat /\ (n # 0 => total # 0) /\ total \in Nat
      /\ e = <<>> \/ (total > 1 /\ e \in [1 .. n -> 0 .. total - 1])
  BY DEF IsList
<1> HIDE DEF n, e
<1>2. size \in Nat /\ n <= size /\ total <= size
  BY <1>1 DEF Larger
<1>3. listEntries(total, e) = e
  BY <1>1 DEF listEntries
<1>4. ListMeant(l, x, y, z) = [i \in 1 .. n |-> round[(At(i) % Len(round)) + 1]]
  BY Zenon DEF ListMeant, n, e
<1>5. made = [i \in 1 .. n |-> IF e = <<>> THEN temp[i] ELSE temp[e[i] + 1]]
  BY <1>3, Zenon DEF RefList
<1> HIDE DEF size, temp, made
<1>6. ASSUME NEW i \in 1 .. n
      PROVE  (IF e = <<>> THEN temp[i] ELSE temp[e[i] + 1]) = round[(At(i) % Len(round)) + 1]
  <2>1. total # 0
    BY <1>1
  <2>2. Repeats(temp, round, total, size) /\ Len(round) = total
    <3>1. Repeats(TempList(x, y, z, size), x \o y \o z, total, size) /\ Len(x \o y \o z) = total
      <4>1. total = a + b + c /\ size \in Nat /\ total # 0
        BY <1>2, <2>1
      <4>2. Repeating(x, y, z, total, size)
        BY <4>1, TempListIs, Zenon
      <4> QED
        BY <4>2, Zenon DEF Repeating
    <3> QED
      BY <3>1, Zenon DEF temp
  <2> HIDE DEF round
  <2>3. CASE e = <<>>
    <3>1. i \in 1 .. size
      BY <1>1, <1>2
    <3>2. temp[i] = round[((i - 1) % total) + 1]
      BY <2>2, <3>1, Zenon DEF Repeats
    <3> QED
      BY <2>2, <2>3, <3>2, Zenon
  <2>4. CASE e # <<>>
    <3> DEFINE k == e[i]
    <3>1. k \in 0 .. total - 1
      BY <1>1, <2>4
    <3> HIDE DEF k
    <3> DEFINE j == k + 1
    <3>2. j \in 1 .. size /\ j - 1 = k
      BY <1>1, <1>2, <3>1
    <3> HIDE DEF j
    <3>3. temp[j] = round[((j - 1) % total) + 1]
      BY <2>2, <3>2, Zenon DEF Repeats
    <3>4. temp[k + 1] = round[(k % total) + 1]
      BY <3>2, <3>3, Zenon DEF j
    <3> QED
      BY <2>2, <2>4, <3>4, Zenon DEF k
  <2> QED
    BY <2>3, <2>4
<1> HIDE DEF At
<1>7. made = ListMeant(l, x, y, z)
  BY <1>4, <1>5, <1>6
<1> QED
  BY <1>7, Zenon DEF Built, made, temp, size, n, e

-------------------------------------------------------------------------------
(* A slice carries the number of a set of its sequence parameter set, or a  *)
(* set of its own that the sets before it can code.                        *)
SetSent(sps, target, header) ==
    \/ /\ header.spsFlag = TRUE /\ header.idx + 1 \in 1 .. Len(sps) /\ header.idx \in Nat
       /\ target = sps[header.idx + 1]
    \/ /\ header.spsFlag = FALSE /\ header.idx = Len(sps)
       /\ \E s \in Sendable(sps, 0 .. Len(sps) - 1) : target = s.meant /\ header.coded = s.coded
AfterHeader(entries, header) ==
    IF header.spsFlag THEN entries
    ELSE deriveSet(entries, ParseSet(header.idx, header.coded, entries).set)
IsSent(sps, target, header, entries) ==
    LET after == AfterHeader(entries, header)
    IN  /\ target \in Targets /\ header.idx \in 0 .. MaxSets
        /\ after = [i \in 0 .. MaxSets |-> after[i]]
        /\ InTable(after, sps) /\ after[header.idx] = EntryOf(target)
        /\ header.spsFlag = FALSE => ParseSet(header.idx, header.coded, entries).inSync = TRUE

LEMMA SliceSetParsed ==
    ASSUME NEW sps \in Seq(Targets), Len(sps) <= MaxSets, NEW target, NEW header,
           SetSent(sps, target, header),
           NEW entries, entries = [i \in 0 .. MaxSets |-> entries[i]], InTable(entries, sps)
    PROVE  IsSent(sps, target, header, entries)
<1> DEFINE n == Len(sps)
           after == AfterHeader(entries, header)
<1>1. n \in Nat /\ MaxSets \in Nat /\ n <= MaxSets
  BY SliceReferencesAssumption DEF SliceReferencesAssumption
<1>2. CASE /\ header.spsFlag = TRUE /\ header.idx + 1 \in 1 .. n /\ header.idx \in Nat
           /\ target = sps[header.idx + 1]
  <2>1. after = entries
    BY <1>2, Zenon DEF AfterHeader
  <2> DEFINE k == header.idx
  <2>2. k \in 0 .. MaxSets /\ (k + 1) - 1 = k /\ k + 1 \in 1 .. n
    BY <1>1, <1>2
  <2>3. target \in Targets
    BY <1>2
  <2>4. entries[(k + 1) - 1] = EntryOf(sps[k + 1])
    BY <2>2, Zenon DEF InTable
  <2>5. entries[k] = EntryOf(target)
    BY <1>2, <2>2, <2>4, Zenon
  <2>6. header.spsFlag # FALSE
    BY <1>2
  <2> HIDE DEF after
  <2> QED
    BY <2>1, <2>2, <2>3, <2>5, <2>6, Zenon DEF IsSent, after
<1>3. CASE /\ header.spsFlag = FALSE /\ header.idx = n
           /\ \E s \in Sendable(sps, 0 .. n - 1) : target = s.meant /\ header.coded = s.coded
  <2>1. PICK s \in Sendable(sps, 0 .. n - 1) : target = s.meant /\ header.coded = s.coded
    BY <1>3
  <2> DEFINE parsed == ParseSet(n, s.coded, entries)
  <2>2. 0 .. n - 1 \in SUBSET Nat
    BY <1>1
  <2>3. target \in Targets /\ parsed.inSync = TRUE /\ Codes(parsed.set, sps, target)
    BY <2>1, <2>2, SetsParsed
  <2> DEFINE set == parsed.set
  <2>4. deriveSet(entries, set) = [entries EXCEPT ![n] = EntryOf(target)]
    BY <2>3, DerivesSet
  <2>5. after = [entries EXCEPT ![n] = EntryOf(target)]
    BY <1>3, <2>1, <2>4, Zenon DEF AfterHeader
  <2> HIDE DEF after, parsed
  <2>6. after = [i \in 0 .. MaxSets |-> after[i]] /\ after[n] = EntryOf(target) /\ InTable(after, sps)
    BY <2>3, <2>5, OneMoreInTable
  <2>7. header.idx \in 0 .. MaxSets
    BY <1>1, <1>3
  <2>8. ParseSet(header.idx, header.coded, entries).inSync = TRUE
    BY <1>3, <2>1, <2>3, Zenon DEF parsed
  <2> QED
    BY <1>3, <2>3, <2>6, <2>7, <2>8, Zenon DEF IsSent, after
<1> QED
  BY <1>2, <1>3, Zenon DEF SetSent

LEMMA SliceSetSent ==
    ASSUME NEW sps \in Seq(Targets), NEW s \in SliceSets(sps), NEW header,
           header.spsFlag = s.spsFlag, header.coded = s.coded, header.idx = s.idx
    PROVE  SetSent(sps, s.meant, header)
<1>1. Len(sps) \in Nat /\ DOMAIN sps = 1 .. Len(sps)
  OBVIOUS
<1>2. CASE \E k \in DOMAIN sps : s = [meant |-> sps[k], spsFlag |-> TRUE, coded |-> None, idx |-> k - 1]
  <2>1. PICK k \in DOMAIN sps : s = [meant |-> sps[k], spsFlag |-> TRUE, coded |-> None, idx |-> k - 1]
    BY <1>2
  <2>2. s.meant = sps[k] /\ s.spsFlag = TRUE /\ s.idx = k - 1
    BY <2>1
  <2>3. header.idx \in Nat /\ header.idx + 1 = k /\ k \in 1 .. Len(sps)
    BY <1>1, <2>2
  <2> QED
    BY <2>2, <2>3, Zenon DEF SetSent
<1>3. CASE \E q \in Sendable(sps, 0 .. Len(sps) - 1) :
              s = [meant |-> q.meant, spsFlag |-> FALSE, coded |-> q.coded, idx |-> Len(sps)]
  <2>1. PICK q \in Sendable(sps, 0 .. Len(sps) - 1) :
              s = [meant |-> q.meant, spsFlag |-> FALSE, coded |-> q.coded, idx |-> Len(sps)]
    BY <1>3
  <2>2. s.meant = q.meant /\ s.spsFlag = FALSE /\ s.coded = q.coded /\ s.idx = Len(sps)
    BY <2>1
  <2> QED
    BY <2>2, Zenon DEF SetSent
<1> QED
  BY <1>2, <1>3, Zenon DEF SliceSets

-------------------------------------------------------------------------------
(* The inductive invariant: what the parameter sets keep, what a slice has  *)
(* been sent and what has been derived of it.                              *)
Typed ==
    /\ TypeOK
    /\ inSync = TRUE
    /\ meant \in [SpsIds -> Seq(Targets)]
    /\ context = [id \in SpsIds |-> context[id]]
    /\ table = [k \in 0 .. MaxSets |-> table[k]]
    /\ slice = [meant |-> slice.meant, lt |-> slice.lt, header |-> slice.header, lists |-> slice.lists]

(* The sequence parameter set that is being parsed has its sets in the     *)
(* table.                                                                  *)
SpsParsed ==
    stage = "sps" => /\ parsing.id \in SpsIds
                     /\ parsing = [id |-> parsing.id, sets |-> parsing.sets]
                     /\ AllCode(parsing.sets, meant[parsing.id])
                     /\ InTable(table, meant[parsing.id])

(* A stored one codes the sets it means, but while it is sent again.       *)
SpsStored ==
    \A id \in SpsIds : context[id] # None /\ ~(stage = "sps" /\ parsing.id = id) =>
        AllCode(context[id].sets, meant[id]) /\ context[id].lt = SpsLongTerm[id]

Idle == stage \in {"nal", "sps"} => active = None /\ slice = NoSlice
Activated ==
    stage \in {"slice", "header"} =>
        active \in SpsIds /\ context[active] # None /\ InTable(table, meant[active])

HeaderSent ==
    stage = "header" \/ (stage = "slice" /\ slice.header # None) =>
        /\ slice.lt \in LongTermPictureSets
        /\ SetSent(meant[active], slice.meant, slice.header)
        /\ slice.header.lt \in HeadersOf(active, slice.lt)
SliceDerived ==
    stage = "header" =>
        /\ table[currRpsIdx] = EntryOf(slice.meant)
        /\ AllDerive(longTerm, slice.lt)
        /\ numPocTotalCurr = TotalMeant(slice.meant, slice.lt)
RpsDerived == slice.lists # None => rps = ReferencesMeant(slice.meant, slice.lt)

IInv == /\ Typed /\ SpsParsed /\ SpsStored /\ Idle /\ Activated
        /\ HeaderSent /\ SliceDerived /\ RpsDerived /\ ListsAgree

LEMMA Initially == Init => IInv
<1> SUFFICES ASSUME Init PROVE IInv
  OBVIOUS
<1>1. Typed
  <2>1. spent \in 0 .. MaxDeviations /\ currRpsIdx \in 0 .. MaxSets /\ numPocTotalCurr \in 0 .. MaxSize + MaxLongTerm
    BY SliceReferencesAssumption DEF SliceReferencesAssumption, Init
  <2>2. \A id \in SpsIds : Len(meant[id]) <= MaxSets
    BY SliceReferencesAssumption DEF SliceReferencesAssumption, Init
  <2>3. DOMAIN table = 0 .. MaxSets /\ table = [k \in 0 .. MaxSets |-> table[k]]
    BY DEF Init
  <2>4. TypeOK
    BY <2>1, <2>2, <2>3 DEF Init, TypeOK
  <2>5. meant \in [SpsIds -> Seq(Targets)] /\ context = [id \in SpsIds |-> context[id]]
    BY DEF Init
  <2>6. slice = [meant |-> slice.meant, lt |-> slice.lt, header |-> slice.header, lists |-> slice.lists]
    BY DEF Init, NoSlice
  <2> QED
    BY <2>3, <2>4, <2>5, <2>6 DEF Init, Typed
<1>2. stage = "nal" /\ active = None /\ slice = NoSlice /\ slice.lists = None
  BY DEF Init, NoSlice
<1>3. SpsStored
  BY DEF SpsStored, Init
<1> QED
  BY <1>1, <1>2, <1>3 DEF IInv, SpsParsed, Idle, Activated, HeaderSent, SliceDerived, RpsDerived, ListsAgree

-------------------------------------------------------------------------------
(* Step by step.                                                           *)
LEMMA StutterKeeps == ASSUME IInv, UNCHANGED vars PROVE IInv'
<1>1. /\ meant' = meant /\ slice' = slice /\ spent' = spent /\ stage' = stage /\ parsing' = parsing
      /\ context' = context /\ active' = active /\ table' = table /\ currRpsIdx' = currRpsIdx
      /\ longTerm' = longTerm /\ numPocTotalCurr' = numPocTotalCurr /\ rps' = rps /\ lists' = lists
      /\ inSync' = inSync
  BY DEF vars, bitVars, sliceVars
<1> QED
  BY <1>1 DEF IInv, Typed, TypeOK, SpsParsed, SpsStored, Idle, Activated, HeaderSent, SliceDerived,
              RpsDerived, ListsAgree

LEMMA StartSpsKeeps == ASSUME IInv, NEW id \in SpsIds, StartSps(id) PROVE IInv'
<1>1. /\ stage = "nal" /\ stage' = "sps" /\ slice' = slice /\ context' = context /\ active' = active
      /\ table' = table /\ currRpsIdx' = currRpsIdx /\ longTerm' = longTerm
      /\ numPocTotalCurr' = numPocTotalCurr /\ rps' = rps /\ lists' = lists /\ inSync' = inSync
      /\ parsing' = [id |-> id, sets |-> <<>>] /\ meant' = [meant EXCEPT ![id] = <<>>]
  BY DEF StartSps, sliceVars
<1>2. spent' \in 0 .. MaxDeviations
  <2>1. spent \in 0 .. MaxDeviations /\ MaxDeviations \in Nat
    BY SliceReferencesAssumption DEF SliceReferencesAssumption, IInv, Typed, TypeOK
  <2>2. spent' = spent + (IF context[id] = None THEN 0 ELSE 1) /\ spent' <= MaxDeviations
    BY DEF StartSps, Spend, Affordable
  <2> QED
    BY <2>1, <2>2
<1>3. active = None /\ slice = NoSlice /\ slice.lists = None
  BY <1>1 DEF IInv, Idle, NoSlice
<1>4. meant' \in [SpsIds -> Seq(Targets)] /\ meant'[id] = <<>> /\ \A k \in SpsIds : k # id => meant'[k] = meant[k]
  BY <1>1 DEF IInv, Typed
<1>5. Typed'
  <2>1. TypeOK'
    <3>1. \A k \in SpsIds : Len(meant'[k]) <= MaxSets
      <4>1. MaxSets \in Nat /\ Len(<<>>) = 0
        BY SliceReferencesAssumption DEF SliceReferencesAssumption
      <4>2. \A k \in SpsIds : Len(meant[k]) <= MaxSets
        BY DEF IInv, Typed, TypeOK
      <4>3. \A k \in SpsIds : meant'[k] = meant[k] \/ meant'[k] = <<>>
        BY <1>4
      <4>4. 0 <= MaxSets
        BY <4>1
      <4> QED
        BY <4>1, <4>2, <4>3, <4>4, Zenon
    <3> QED
      BY <1>1, <1>2, <3>1 DEF IInv, Typed, TypeOK
  <2> QED
    BY <1>1, <1>4, <2>1 DEF IInv, Typed
<1>6. SpsParsed'
  <2>1. parsing'.id = id /\ parsing'.sets = <<>>
    BY <1>1
  <2>2. AllCode(<<>>, <<>>) /\ InTable(table', <<>>)
    BY DEF AllCode, InTable
  <2> QED
    BY <1>1, <1>4, <2>1, <2>2 DEF SpsParsed
<1>7. SpsStored'
  <2>1. parsing'.id = id
    BY <1>1
  <2> QED
    BY <1>1, <1>4, <2>1 DEF IInv, SpsStored
<1>8. Idle' /\ Activated' /\ HeaderSent' /\ SliceDerived' /\ RpsDerived' /\ ListsAgree'
  BY <1>1, <1>3 DEF Idle, Activated, HeaderSent, SliceDerived, RpsDerived, ListsAgree
<1> QED
  BY <1>5, <1>6, <1>7, <1>8 DEF IInv

LEMMA ShortTermRefPicSetKeeps == ASSUME IInv, ShortTermRefPicSet PROVE IInv'
<1> DEFINE id == parsing.id
           sent == meant[id]
           n == Len(sent)
<1>1. /\ stage = "sps" /\ stage' = "sps" /\ n < MaxSets
      /\ slice' = slice /\ context' = context /\ active' = active
      /\ currRpsIdx' = currRpsIdx /\ longTerm' = longTerm
      /\ numPocTotalCurr' = numPocTotalCurr /\ rps' = rps /\ lists' = lists
  BY DEF ShortTermRefPicSet, sliceVars
<1>2. PICK s \in Sendable(sent, {0}) :
        /\ spent' <= MaxDeviations /\ (spent' = spent \/ spent' = spent + 1)
        /\ meant' = [meant EXCEPT ![id] = Append(@, s.meant)]
        /\ parsing' = [parsing EXCEPT !.sets = Append(@, ParseSet(n, s.coded, table).set)]
        /\ table' = deriveSet(table, ParseSet(n, s.coded, table).set)
        /\ inSync' = (inSync /\ ParseSet(n, s.coded, table).inSync)
  <2>1. PICK s \in Sendable(sent, {0}) :
        /\ Spend(s, IF n < Len(UsualSets[id])
                      THEN [meant |-> UsualSets[id][n + 1], coded |-> Explicitly(UsualSets[id][n + 1])]
                      ELSE None)
        /\ Affordable
        /\ meant' = [meant EXCEPT ![id] = Append(@, s.meant)]
        /\ \E parsed \in {ParseSet(n, s.coded, table)} :
              /\ parsing' = [parsing EXCEPT !.sets = Append(@, parsed.set)]
              /\ table' = deriveSet(table, parsed.set)
              /\ inSync' = (inSync /\ parsed.inSync)
    BY Zenon DEF ShortTermRefPicSet
  <2>2. spent' <= MaxDeviations
    BY <2>1, Zenon DEF Affordable
  <2>3. spent \in 0 .. MaxDeviations /\ MaxDeviations \in Nat
    BY SliceReferencesAssumption DEF SliceReferencesAssumption, IInv, Typed, TypeOK
  <2> DEFINE usual == IF n < Len(UsualSets[id])
                      THEN [meant |-> UsualSets[id][n + 1], coded |-> Explicitly(UsualSets[id][n + 1])]
                      ELSE None
  <2>4. spent' = spent + (IF s = usual THEN 0 ELSE 1)
    BY <2>1, Zenon DEF Spend
  <2> HIDE DEF usual
  <2>5. spent' = spent \/ spent' = spent + 1
    BY <2>3, <2>4
  <2> QED
    BY <2>1, <2>2, <2>5, Zenon
<1>3. /\ id \in SpsIds /\ parsing = [id |-> id, sets |-> parsing.sets] /\ AllCode(parsing.sets, sent)
      /\ InTable(table, sent) /\ active = None /\ slice = NoSlice /\ slice.lists = None
  BY <1>1 DEF IInv, SpsParsed, Idle, NoSlice
<1>4. sent \in Seq(Targets) /\ meant \in [SpsIds -> Seq(Targets)]
      /\ n \in Nat /\ MaxSets \in Nat /\ table = [k \in 0 .. MaxSets |-> table[k]]
  BY <1>3, SliceReferencesAssumption DEF SliceReferencesAssumption, IInv, Typed
<1> DEFINE parsed == ParseSet(n, s.coded, table)
           set == parsed.set
           t == s.meant
           sent1 == Append(sent, t)
<1>5. t \in Targets /\ parsed.inSync = TRUE /\ Codes(set, sent, t)
  <2>1. {0} \in SUBSET Nat
    OBVIOUS
  <2> QED
    BY <1>2, <1>3, <1>4, <2>1, SetsParsed
<1> HIDE DEF parsed
<1>6. table' = [table EXCEPT ![n] = EntryOf(t)]
  <2>1. deriveSet(table, set) = [table EXCEPT ![n] = EntryOf(t)]
    BY <1>3, <1>4, <1>5, DerivesSet
  <2> QED
    BY <1>2, <2>1, Zenon DEF parsed
<1>7. table' = [i \in 0 .. MaxSets |-> table'[i]] /\ InTable(table', sent1)
  <2>1. n <= MaxSets
    BY <1>1, <1>4
  <2> QED
    BY <1>3, <1>4, <1>5, <1>6, <2>1, OneMoreInTable
<1>8. AllCode(Append(parsing.sets, set), sent1)
  BY <1>3, <1>4, <1>5, OneMoreCodes
<1>9. parsing'.id = id /\ parsing' = [id |-> parsing'.id, sets |-> parsing'.sets] /\ parsing'.sets = Append(parsing.sets, set)
  <2> DEFINE new == Append(parsing.sets, set)
  <2>1. parsing' = [parsing EXCEPT !.sets = new]
    BY <1>2, Zenon DEF parsed
  <2> HIDE DEF new
  <2>2. parsing' = [id |-> id, sets |-> new]
    BY <1>3, <2>1
  <2>3. parsing'.id = id /\ parsing'.sets = new
    BY <2>2
  <2> QED
    BY <2>2, <2>3, Zenon DEF new
<1>10. sent1 \in Seq(Targets) /\ Len(sent1) = n + 1
  BY <1>4, <1>5, AppendProperties
<1>11. /\ meant' \in [SpsIds -> Seq(Targets)] /\ meant'[id] = sent1
       /\ \A k \in SpsIds : k # id => meant'[k] = meant[k]
  <2>1. meant' = [meant EXCEPT ![id] = sent1]
    BY <1>2, Zenon
  <2> HIDE DEF sent1, id
  <2> QED
    BY <1>3, <1>4, <1>10, <2>1
<1>12. inSync' = TRUE
  BY <1>2, <1>5 DEF parsed, IInv, Typed
<1>13. Typed'
  <2>1. spent' \in 0 .. MaxDeviations
    BY <1>2, SliceReferencesAssumption DEF SliceReferencesAssumption, IInv, Typed, TypeOK
  <2>2. \A k \in SpsIds : Len(meant'[k]) <= MaxSets
    <3>1. n + 1 <= MaxSets
      BY <1>1, <1>4
    <3> HIDE DEF sent1, id, n
    <3> QED
      BY <1>10, <1>11, <3>1 DEF IInv, Typed, TypeOK
  <2>3. DOMAIN table' = 0 .. MaxSets
    BY <1>7
  <2>4. TypeOK'
    BY <1>1, <1>12, <2>1, <2>2, <2>3 DEF IInv, Typed, TypeOK
  <2> QED
    BY <1>1, <1>7, <1>11, <1>12, <2>4 DEF IInv, Typed
<1>14. SpsParsed'
  BY <1>3, <1>7, <1>8, <1>9, <1>11, Zenon DEF SpsParsed
<1>15. SpsStored'
  BY <1>1, <1>9, <1>11 DEF IInv, SpsStored
<1>16. Idle' /\ Activated' /\ HeaderSent' /\ SliceDerived' /\ RpsDerived' /\ ListsAgree'
  BY <1>1, <1>3 DEF Idle, Activated, HeaderSent, SliceDerived, RpsDerived, ListsAgree
<1> QED
  BY <1>13, <1>14, <1>15, <1>16 DEF IInv

LEMMA FinishSpsKeeps == ASSUME IInv, FinishSps PROVE IInv'
<1> DEFINE id == parsing.id
<1>1. /\ stage = "sps" /\ stage' = "nal" /\ meant' = meant
      /\ slice' = slice /\ active' = active /\ table' = table
      /\ currRpsIdx' = currRpsIdx /\ longTerm' = longTerm
      /\ numPocTotalCurr' = numPocTotalCurr /\ rps' = rps /\ lists' = lists /\ inSync' = inSync
      /\ context' = [context EXCEPT ![id] = [sets |-> parsing.sets, lt |-> SpsLongTerm[id]]]
  BY DEF FinishSps, sliceVars
<1>2. spent' \in 0 .. MaxDeviations
  <2>1. spent \in 0 .. MaxDeviations /\ MaxDeviations \in Nat
    BY SliceReferencesAssumption DEF SliceReferencesAssumption, IInv, Typed, TypeOK
  <2>2. spent' = spent + (IF Len(meant[id]) = Len(UsualSets[id]) THEN 0 ELSE 1) /\ spent' <= MaxDeviations
    BY DEF FinishSps, Spend, Affordable
  <2> QED
    BY <2>1, <2>2
<1>3. /\ id \in SpsIds /\ AllCode(parsing.sets, meant[id])
      /\ active = None /\ slice = NoSlice /\ slice.lists = None
  BY <1>1 DEF IInv, SpsParsed, Idle, NoSlice
<1> HIDE DEF id
<1>4. /\ context' = [k \in SpsIds |-> context'[k]]
      /\ context'[id].sets = parsing.sets /\ context'[id].lt = SpsLongTerm[id]
      /\ \A k \in SpsIds : k # id => context'[k] = context[k]
  BY <1>1, <1>3 DEF IInv, Typed
<1>5. Typed'
  BY <1>1, <1>2, <1>4 DEF IInv, Typed, TypeOK
<1>6. SpsStored'
  BY <1>1, <1>3, <1>4 DEF IInv, SpsStored, id
<1>7. SpsParsed' /\ Idle' /\ Activated' /\ HeaderSent' /\ SliceDerived' /\ RpsDerived' /\ ListsAgree'
  BY <1>1, <1>3 DEF SpsParsed, Idle, Activated, HeaderSent, SliceDerived, RpsDerived, ListsAgree
<1> QED
  BY <1>5, <1>6, <1>7 DEF IInv

-------------------------------------------------------------------------------
LEMMA SlicePicParameterSetIdKeeps == ASSUME IInv, SlicePicParameterSetId PROVE IInv'
<1>1. /\ stage = "nal" /\ stage' = "slice" /\ meant' = meant /\ slice' = slice /\ spent' = spent
      /\ parsing' = parsing /\ context' = context /\ currRpsIdx' = currRpsIdx /\ longTerm' = longTerm
      /\ numPocTotalCurr' = numPocTotalCurr /\ rps' = rps /\ lists' = lists /\ inSync' = inSync
  BY DEF SlicePicParameterSetId, bitVars, sliceVars
<1>2. PICK id \in SpsIds : context[id] # None /\ active' = id /\ table' = deriveSets(table, context[id].sets)
  BY Zenon DEF SlicePicParameterSetId
<1>3. slice = NoSlice /\ slice.lists = None /\ slice.header = None
  BY <1>1 DEF IInv, Idle, NoSlice
<1>4. AllCode(context[id].sets, meant[id])
  BY <1>1, <1>2 DEF IInv, SpsStored
<1>5. meant[id] \in Seq(Targets) /\ table = [k \in 0 .. MaxSets |-> table[k]] /\ Len(meant[id]) <= MaxSets
  BY DEF IInv, Typed, TypeOK
<1>6. table' = Stored(table, meant[id], Len(meant[id]))
  BY <1>2, <1>4, <1>5, DerivedSets
<1>7. table' = [k \in 0 .. MaxSets |-> table'[k]] /\ InTable(table', meant[id])
  BY <1>5, <1>6, StoredInTable
<1>8. Typed'
  <2>1. DOMAIN table' = 0 .. MaxSets
    BY <1>7
  <2> QED
    BY <1>1, <1>2, <1>7, <2>1 DEF IInv, Typed, TypeOK
<1>9. SpsStored'
  BY <1>1 DEF IInv, SpsStored
<1>10. Activated'
  BY <1>1, <1>2, <1>7 DEF Activated
<1>11. SpsParsed' /\ Idle' /\ HeaderSent' /\ SliceDerived' /\ RpsDerived' /\ ListsAgree'
  BY <1>1, <1>3 DEF SpsParsed, Idle, HeaderSent, SliceDerived, RpsDerived, ListsAgree
<1> QED
  BY <1>8, <1>9, <1>10, <1>11 DEF IInv

(* A header that was sent is parsed to what it means, whatever the slices   *)
(* and the parameter sets before it left behind.                           *)
LEMMA HeaderParsed ==
    ASSUME IInv, stage = "slice", NEW header, ParseReferences(header), slice'.header = header,
           slice' = [meant |-> slice'.meant, lt |-> slice'.lt, header |-> slice'.header, lists |-> slice'.lists],
           slice'.lt \in LongTermPictureSets, SetSent(meant[active], slice'.meant, header),
           header.lt \in HeadersOf(active, slice'.lt),
           slice'.lists # None => slice' = slice,
           spent' \in 0 .. MaxDeviations
    PROVE  IInv'
<1>1. /\ stage' = "header" /\ meant' = meant /\ parsing' = parsing /\ context' = context /\ active' = active
      /\ rps' = rps /\ lists' = lists /\ currRpsIdx' = header.idx
      /\ longTerm' = deriveLongTerm(context[active], header.lt)
      /\ numPocTotalCurr' = NumPocTotalCurr(table'[currRpsIdx'], longTerm')
  BY DEF ParseReferences, CountReferences
<1> DEFINE sps == meant[active]
           target == slice'.meant
           pictures == slice'.lt
<1>2. /\ active \in SpsIds /\ context[active] # None /\ InTable(table, sps)
      /\ sps \in Seq(Targets) /\ Len(sps) <= MaxSets
      /\ table = [k \in 0 .. MaxSets |-> table[k]]
  BY DEF IInv, Activated, Typed, TypeOK
<1> HIDE DEF target, pictures, sps
<1>3. IsSent(sps, target, header, table)
  <2>1. SetSent(sps, target, header)
    BY DEF sps, target
  <2> QED
    BY <1>2, <2>1, SliceSetParsed
<1>4. table' = AfterHeader(table, header)
  BY Zenon DEF ParseReferences, AfterHeader
<1>5. inSync' = TRUE
  <2>1. header.spsFlag = TRUE \/ header.spsFlag = FALSE
    BY Zenon DEF SetSent
  <2>2. CASE header.spsFlag = TRUE
    <3>1. inSync' = inSync
      BY <2>2, Zenon DEF ParseReferences
    <3> QED
      BY <3>1 DEF IInv, Typed
  <2>3. CASE header.spsFlag = FALSE
    <3>1. ~header.spsFlag
      BY <2>3
    <3>2. inSync' = (inSync /\ ParseSet(header.idx, header.coded, table).inSync)
      BY <3>1, Zenon DEF ParseReferences
    <3>3. ParseSet(header.idx, header.coded, table).inSync = TRUE
      BY <1>3, <2>3, Zenon DEF IsSent
    <3> QED
      BY <3>2, <3>3 DEF IInv, Typed
  <2> QED
    BY <2>1, <2>2, <2>3
<1>6. /\ target \in Targets /\ header.idx \in 0 .. MaxSets
      /\ table' = [i \in 0 .. MaxSets |-> table'[i]]
      /\ InTable(table', sps) /\ table'[header.idx] = EntryOf(target)
  BY <1>3, <1>4, Zenon DEF IsSent
<1>7. AllDerive(longTerm', pictures)
  <2>1. context[active].lt = SpsLongTerm[active]
    BY <1>2 DEF IInv, SpsStored
  <2>2. pictures \in LongTermPictureSets /\ header.lt \in HeadersOf(active, pictures)
    BY DEF pictures
  <2>3. AllDerive(deriveLongTerm(context[active], header.lt), pictures)
    BY <1>2, <2>1, <2>2, LongTermDerived, Zenon
  <2> QED
    BY <1>1, <2>3, Zenon
<1>8. numPocTotalCurr' = TotalMeant(target, pictures) /\ numPocTotalCurr' \in 0 .. MaxSize + MaxLongTerm
  <2>1. pictures \in LongTermPictureSets
    BY DEF pictures
  <2>2. /\ NumPocTotalCurr(EntryOf(target), longTerm') = TotalMeant(target, pictures)
        /\ TotalMeant(target, pictures) \in 0 .. MaxSize + MaxLongTerm
    BY <1>6, <1>7, <2>1, ReferencesDerived, Zenon
  <2>3. numPocTotalCurr' = NumPocTotalCurr(EntryOf(target), longTerm')
    BY <1>1, <1>6, Zenon
  <2> QED
    BY <2>2, <2>3, Zenon
<1>9. Typed'
  <2>1. DOMAIN table' = 0 .. MaxSets
    BY <1>6
  <2>2. currRpsIdx' \in 0 .. MaxSets
    BY <1>1, <1>6
  <2>3. TypeOK'
    BY <1>1, <1>2, <1>5, <1>8, <2>1, <2>2 DEF IInv, Typed, TypeOK
  <2> QED
    BY <1>1, <1>5, <1>6, <2>3 DEF IInv, Typed
<1>10. SpsStored'
  BY <1>1 DEF IInv, SpsStored
<1>11. Activated'
  BY <1>1, <1>2, <1>6 DEF Activated, sps
<1>12. HeaderSent'
  BY <1>1, Zenon DEF HeaderSent
<1>13. SliceDerived'
  BY <1>1, <1>6, <1>7, <1>8, Zenon DEF SliceDerived, target, pictures
<1>14. RpsDerived'
  <2>1. slice'.lists # None => rps = ReferencesMeant(slice.meant, slice.lt)
    BY DEF IInv, RpsDerived
  <2> QED
    BY <1>1, <2>1, Zenon DEF RpsDerived
<1>15. SpsParsed' /\ Idle' /\ ListsAgree'
  BY <1>1 DEF SpsParsed, Idle, ListsAgree
<1> QED
  BY <1>9, <1>10, <1>11, <1>12, <1>13, <1>14, <1>15 DEF IInv

LEMMA FirstSliceKeeps == ASSUME IInv, FirstSlice PROVE IInv'
<1>1. stage = "slice"
  BY DEF FirstSlice
<1>2. PICK s \in SliceSets(meant[active]), lt \in LongTermPictureSets :
        /\ spent' = spent + (IF s.spsFlag THEN 0 ELSE 1) + (IF lt = <<>> THEN 0 ELSE 1)
        /\ spent' <= MaxDeviations
        /\ \E h \in LongTermHeaders[active][lt] :
             LET header == [spsFlag |-> s.spsFlag, coded |-> s.coded, idx |-> s.idx, lt |-> h]
             IN  /\ slice' = [meant |-> s.meant, lt |-> lt, header |-> header, lists |-> None]
                 /\ ParseReferences(header)
  BY Zenon DEF FirstSlice, Affordable
<1>3. PICK h \in LongTermHeaders[active][lt] :
        LET header == [spsFlag |-> s.spsFlag, coded |-> s.coded, idx |-> s.idx, lt |-> h]
        IN  /\ slice' = [meant |-> s.meant, lt |-> lt, header |-> header, lists |-> None]
            /\ ParseReferences(header)
  BY <1>2, Zenon
<1> DEFINE header == [spsFlag |-> s.spsFlag, coded |-> s.coded, idx |-> s.idx, lt |-> h]
<1>4. slice' = [meant |-> s.meant, lt |-> lt, header |-> header, lists |-> None] /\ ParseReferences(header)
  BY <1>3, Zenon
<1>5. header.spsFlag = s.spsFlag /\ header.coded = s.coded /\ header.idx = s.idx /\ header.lt = h
  OBVIOUS
<1> HIDE DEF header
<1>6. slice'.meant = s.meant /\ slice'.lt = lt /\ slice'.header = header /\ slice'.lists = None
  BY <1>4
<1>7. active \in SpsIds /\ meant[active] \in Seq(Targets)
  BY <1>1 DEF IInv, Activated, Typed
<1>8. SetSent(meant[active], s.meant, header)
  BY <1>2, <1>5, <1>7, SliceSetSent, Zenon
<1>9. h \in HeadersOf(active, lt)
  BY <1>2, <1>3, <1>7, Zenon DEF LongTermHeaders
<1>10. spent' \in 0 .. MaxDeviations
  BY <1>2, SliceReferencesAssumption DEF SliceReferencesAssumption, IInv, Typed, TypeOK
<1>11. slice' = [meant |-> slice'.meant, lt |-> slice'.lt, header |-> slice'.header, lists |-> slice'.lists]
  BY <1>4, <1>6, Zenon
<1>12. slice'.lists # None => slice' = slice
  BY <1>6
<1> QED
  BY <1>1, <1>2, <1>4, <1>5, <1>6, <1>8, <1>9, <1>10, <1>11, <1>12, HeaderParsed, Zenon

LEMMA OtherSliceKeeps == ASSUME IInv, OtherSlice PROVE IInv'
<1>1. stage = "slice" /\ slice.header # None /\ slice' = slice /\ spent' = spent
  BY DEF OtherSlice
<1> DEFINE header == slice.header
<1>2. ParseReferences(header)
  BY Zenon DEF OtherSlice
<1>3. /\ slice.lt \in LongTermPictureSets /\ SetSent(meant[active], slice.meant, header)
      /\ header.lt \in HeadersOf(active, slice.lt)
  BY <1>1, Zenon DEF IInv, HeaderSent
<1>4. /\ spent \in 0 .. MaxDeviations
      /\ slice = [meant |-> slice.meant, lt |-> slice.lt, header |-> slice.header, lists |-> slice.lists]
  BY DEF IInv, Typed, TypeOK
<1>5. /\ slice'.lt \in LongTermPictureSets /\ SetSent(meant[active], slice'.meant, header)
      /\ header.lt \in HeadersOf(active, slice'.lt) /\ slice'.header = header
      /\ spent' \in 0 .. MaxDeviations
      /\ slice' = [meant |-> slice'.meant, lt |-> slice'.lt, header |-> slice'.header, lists |-> slice'.lists]
  BY <1>1, <1>3, <1>4, Zenon
<1> HIDE DEF header
<1> QED
  BY <1>1, <1>2, <1>5, HeaderParsed, Zenon

-------------------------------------------------------------------------------
(* The lists a slice can send choose among its pictures.                   *)
LEMMA ListSent ==
    ASSUME NEW total \in Nat, NEW l,
           l = NoList \/ (total # 0 /\ l \in ListsSent(total))
    PROVE  IsList(l, total)
<1>1. CASE l = NoList
  <2>1. l.active = 0 /\ l.entries = <<>>
    BY <1>1 DEF NoList
  <2> QED
    BY <2>1 DEF IsList
<1>m. MaxActive \in Nat
  BY SliceReferencesAssumption DEF SliceReferencesAssumption
<1>2. ASSUME total # 0, l \in ListsSent(total) PROVE IsList(l, total)
  <2>1. CASE \E n \in 1 .. MaxActive : l = [active |-> n, entries |-> <<>>]
    <3>1. PICK n \in 1 .. MaxActive : l = [active |-> n, entries |-> <<>>]
      BY <2>1
    <3>2. l.active = n /\ l.entries = <<>>
      BY <3>1
    <3> QED
      BY <1>2, <1>m, <3>2 DEF IsList
  <2>2. CASE total > 1 /\ \E n \in 1 .. MaxActive, k \in 0 .. total - 1 :
                 l = [active |-> n, entries |-> [i \in 1 .. n |-> k]]
    <3>1. PICK n \in 1 .. MaxActive, k \in 0 .. total - 1 :
                 l = [active |-> n, entries |-> [i \in 1 .. n |-> k]]
      BY <2>2
    <3>2. l.active = n /\ l.entries = [i \in 1 .. n |-> k]
      BY <3>1
    <3>3. l.entries \in [1 .. l.active -> 0 .. total - 1]
      BY <3>2
    <3> QED
      BY <1>2, <1>m, <2>2, <3>2, <3>3 DEF IsList
  <2>3. CASE total > 1 /\ \E n \in 1 .. MaxActive :
                 l = [active |-> n, entries |-> [i \in 1 .. n |-> (total - i) % total]]
    <3>1. PICK n \in 1 .. MaxActive :
                 l = [active |-> n, entries |-> [i \in 1 .. n |-> (total - i) % total]]
      BY <2>3
    <3>2. l.active = n /\ l.entries = [i \in 1 .. n |-> (total - i) % total]
      BY <3>1
    <3>3. \A i \in 1 .. n : ((total - i) % total) \in 0 .. total - 1
      BY <1>2
    <3>4. l.entries \in [1 .. l.active -> 0 .. total - 1]
      BY <3>2, <3>3
    <3> QED
      BY <1>2, <1>m, <2>3, <3>2, <3>4 DEF IsList
  <2> QED
    BY <1>2, <2>1, <2>2, <2>3 DEF ListsSent
<1> QED
  BY <1>1, <1>2

LEMMA SliceSegmentHeaderKeeps == ASSUME IInv, SliceSegmentHeader PROVE IInv'
<1> DEFINE total == TotalMeant(slice.meant, slice.lt)
           r == ReferencesMeant(slice.meant, slice.lt)
<1>1. /\ stage = "header" /\ stage' = "slice" /\ meant' = meant /\ parsing' = parsing
      /\ context' = context /\ active' = active /\ table' = table /\ currRpsIdx' = currRpsIdx
      /\ longTerm' = longTerm /\ numPocTotalCurr' = numPocTotalCurr /\ inSync' = inSync
  BY DEF SliceSegmentHeader
<1>2. /\ active \in SpsIds /\ context[active] # None /\ InTable(table, meant[active])
      /\ meant[active] \in Seq(Targets) /\ Len(meant[active]) <= MaxSets
      /\ table = [k \in 0 .. MaxSets |-> table[k]]
      /\ slice = [meant |-> slice.meant, lt |-> slice.lt, header |-> slice.header, lists |-> slice.lists]
  BY <1>1 DEF IInv, Activated, Typed, TypeOK
<1>3. /\ slice.lt \in LongTermPictureSets /\ SetSent(meant[active], slice.meant, slice.header)
      /\ slice.header.lt \in HeadersOf(active, slice.lt)
  BY <1>1, Zenon DEF IInv, HeaderSent
<1>4. /\ table[currRpsIdx] = EntryOf(slice.meant) /\ AllDerive(longTerm, slice.lt)
      /\ numPocTotalCurr = total
  BY <1>1, Zenon DEF IInv, SliceDerived
<1>5. slice.meant \in Targets
  <2> DEFINE sps == meant[active]
             target == slice.meant
             header == slice.header
  <2>1. /\ sps \in Seq(Targets) /\ Len(sps) <= MaxSets /\ SetSent(sps, target, header)
        /\ table = [k \in 0 .. MaxSets |-> table[k]] /\ InTable(table, sps)
    BY <1>2, <1>3, Zenon
  <2> HIDE DEF sps, target, header
  <2>2. IsSent(sps, target, header, table)
    BY <2>1, SliceSetParsed
  <2> QED
    BY <2>2, Zenon DEF IsSent, target
<1>6. PICK l0 \in (IF total = 0 THEN {NoList} ELSE ListsSent(total)),
           l1 \in (IF total = 0 THEN {NoList} ELSE ListsSent(total)) \cup {NoList} :
        /\ spent' = spent + (IF l0 \in UsualLists THEN 0 ELSE 1) + (IF l1 \in UsualLists THEN 0 ELSE 1)
        /\ spent' <= MaxDeviations
        /\ slice' = [slice EXCEPT !.lists = [l0 |-> l0, l1 |-> l1]]
        /\ lists' = [l0 |-> RefPicList0(rps', numPocTotalCurr, l0.active, l0.entries),
                     l1 |-> RefPicList1(rps', numPocTotalCurr, l1.active, l1.entries)]
  BY Zenon DEF SliceSegmentHeader, Affordable
<1>7. rps' = r
  <2>1. calcPOC(Poc, MaxLsb, EntryOf(slice.meant), longTerm, DpbPictures) = r
    BY <1>3, <1>4, <1>5, ReferencesDerived, Zenon
  <2>2. CASE slice.lists = None
    <3>1. rps' = calcPOC(Poc, MaxLsb, table[currRpsIdx], longTerm, DpbPictures)
      BY <2>2, Zenon DEF SliceSegmentHeader
    <3> QED
      BY <1>4, <2>1, <3>1, Zenon
  <2>3. CASE slice.lists # None
    <3>1. rps' = rps
      BY <2>3, Zenon DEF SliceSegmentHeader
    <3> QED
      BY <2>3, <3>1, Zenon DEF IInv, RpsDerived
  <2> QED
    BY <2>2, <2>3
<1>8. PICK a, b, c : Sizes(r, a, b, c) /\ total = a + b + c
  BY <1>3, <1>5, ReferencesCount
<1>9. /\ a \in Nat /\ b \in Nat /\ c \in Nat /\ total \in Nat
      /\ r.stCurrBefore \in [1 .. a -> Int] /\ r.stCurrAfter \in [1 .. b -> Int]
      /\ r.ltCurr \in [1 .. c -> Int]
  BY <1>8 DEF Sizes
<1> DEFINE before == r.stCurrBefore
           after == r.stCurrAfter
           lt == r.ltCurr
<1>10. spent' \in 0 .. MaxDeviations
  BY <1>6, SliceReferencesAssumption DEF SliceReferencesAssumption, IInv, Typed, TypeOK
<1> HIDE DEF total, r
<1>11. IsList(l0, total) /\ IsList(l1, total)
  <2>1. l0 = NoList \/ (total # 0 /\ l0 \in ListsSent(total))
    BY <1>6
  <2>2. l1 = NoList \/ (total # 0 /\ l1 \in ListsSent(total))
    BY <1>6
  <2> QED
    BY <1>9, <2>1, <2>2, ListSent
<1>12. /\ before \in [1 .. a -> Int] /\ after \in [1 .. b -> Int] /\ lt \in [1 .. c -> Int]
       /\ total = a + b + c /\ total = b + a + c
  BY <1>8, <1>9
<1>13. RefPicList0(rps', numPocTotalCurr, l0.active, l0.entries) = ListMeant(l0, before, after, lt)
  <2> HIDE DEF before, after, lt
  <2>1. Built(l0, total, before, after, lt)
    BY <1>9, <1>11, <1>12, ListIs, Zenon
  <2> QED
    BY <1>4, <1>7, <2>1, Zenon DEF Built, RefPicList0, before, after, lt
<1>14. RefPicList1(rps', numPocTotalCurr, l1.active, l1.entries) = ListMeant(l1, after, before, lt)
  <2> HIDE DEF before, after, lt
  <2>1. Built(l1, total, after, before, lt)
    BY <1>9, <1>11, <1>12, ListIs, Zenon
  <2> QED
    BY <1>4, <1>7, <2>1, Zenon DEF Built, RefPicList1, before, after, lt
<1> DEFINE sent == [l0 |-> l0, l1 |-> l1]
<1>15. /\ slice'.meant = slice.meant /\ slice'.lt = slice.lt /\ slice'.header = slice.header
       /\ slice'.lists = sent
       /\ slice' = [meant |-> slice'.meant, lt |-> slice'.lt, header |-> slice'.header, lists |-> slice'.lists]
  <2>1. slice' = [slice EXCEPT !.lists = sent]
    BY <1>6
  <2> HIDE DEF sent
  <2>2. slice' = [meant |-> slice.meant, lt |-> slice.lt, header |-> slice.header, lists |-> sent]
    BY <1>2, <2>1
  <2> QED
    BY <2>2
<1>16. Typed'
  BY <1>1, <1>10, <1>15 DEF IInv, Typed, TypeOK
<1>17. SpsStored'
  BY <1>1 DEF IInv, SpsStored
<1>18. Activated'
  BY <1>1, <1>2, Zenon DEF Activated
<1>19. HeaderSent'
  BY <1>1, <1>3, <1>15, Zenon DEF HeaderSent
<1>20. RpsDerived'
  BY <1>7, <1>15, Zenon DEF RpsDerived, r
<1>21. ListsAgree'
  <2>1. sent.l0 = l0 /\ sent.l1 = l1
    OBVIOUS
  <2>2. slice'.lists.l0 = l0 /\ slice'.lists.l1 = l1
    BY <1>15, <2>1, Zenon
  <2>3. ReferencesMeant(slice'.meant, slice'.lt) = r
    BY <1>15, Zenon DEF r
  <2>4. lists' = [l0 |-> ListMeant(slice'.lists.l0, before, after, lt),
                  l1 |-> ListMeant(slice'.lists.l1, after, before, lt)]
    BY <1>6, <1>13, <1>14, <2>2, Zenon
  <2> QED
    BY <2>3, <2>4, Zenon DEF ListsAgree
<1>22. SpsParsed' /\ Idle' /\ SliceDerived'
  BY <1>1 DEF SpsParsed, Idle, SliceDerived
<1> QED
  BY <1>16, <1>17, <1>18, <1>19, <1>20, <1>21, <1>22 DEF IInv

LEMMA FinishPictureKeeps == ASSUME IInv, FinishPicture PROVE IInv'
<1>1. /\ stage = "slice" /\ stage' = "nal" /\ slice' = NoSlice /\ active' = None /\ currRpsIdx' = 0
      /\ meant' = meant /\ spent' = spent /\ parsing' = parsing /\ context' = context /\ table' = table
      /\ numPocTotalCurr' = numPocTotalCurr /\ inSync' = inSync
  BY DEF FinishPicture
<1>2. /\ slice'.lists = None
      /\ slice' = [meant |-> slice'.meant, lt |-> slice'.lt, header |-> slice'.header, lists |-> slice'.lists]
  BY <1>1 DEF NoSlice
<1>3. Typed'
  <2>1. 0 \in 0 .. MaxSets
    BY SliceReferencesAssumption DEF SliceReferencesAssumption
  <2> QED
    BY <1>1, <1>2, <2>1 DEF IInv, Typed, TypeOK
<1>4. SpsStored'
  BY <1>1 DEF IInv, SpsStored
<1>5. SpsParsed' /\ Idle' /\ Activated' /\ HeaderSent' /\ SliceDerived' /\ RpsDerived' /\ ListsAgree'
  BY <1>1, <1>2 DEF SpsParsed, Idle, Activated, HeaderSent, SliceDerived, RpsDerived, ListsAgree
<1> QED
  BY <1>3, <1>4, <1>5 DEF IInv

LEMMA StepKeeps == IInv /\ [Next]_vars => IInv'
<1> SUFFICES ASSUME IInv, [Next]_vars PROVE IInv'
  OBVIOUS
<1>1. ASSUME NEW id \in SpsIds, StartSps(id) PROVE IInv'
  BY <1>1, StartSpsKeeps
<1>2. CASE ShortTermRefPicSet
  BY <1>2, ShortTermRefPicSetKeeps
<1>3. CASE FinishSps
  BY <1>3, FinishSpsKeeps
<1>4. CASE SlicePicParameterSetId
  BY <1>4, SlicePicParameterSetIdKeeps
<1>5. CASE FirstSlice
  BY <1>5, FirstSliceKeeps
<1>6. CASE OtherSlice
  BY <1>6, OtherSliceKeeps
<1>7. CASE SliceSegmentHeader
  BY <1>7, SliceSegmentHeaderKeeps
<1>8. CASE FinishPicture
  BY <1>8, FinishPictureKeeps
<1>9. CASE UNCHANGED vars
  BY <1>9, StutterKeeps
<1> QED
  BY <1>1, <1>2, <1>3, <1>4, <1>5, <1>6, <1>7, <1>8, <1>9 DEF Next

(* What is kept of the parameter sets and the slice, and derived from them, *)
(* belongs together in every reachable state.                              *)
THEOREM ReferencesInvariant == Spec => []IInv
  BY Initially, StepKeeps, PTL DEF Spec

-------------------------------------------------------------------------------
(* The handlers of reference picture sets keep the types of what they      *)
(* derive: among them an index within the table and a number of pictures   *)
(* that is at most the pictures of a set and the long-term ones.           *)
THEOREM ReferencesTyped == Spec => []TypeOK
<1>1. IInv => TypeOK
  BY DEF IInv, Typed
<1> QED
  BY <1>1, ReferencesInvariant, PTL

(* From the activation of a sequence parameter set to the end of the        *)
(* picture RPSP has in its table the sets of that parameter set, whatever   *)
(* others were parsed into it before, after a slice header the slice's own, *)
(* and the parser reads every flag of a predicted set and no more.         *)
THEOREM SetsAlwaysAgree == Spec => []SetsAgree
<1>1. IInv => SetsAgree
  <2> SUFFICES ASSUME IInv PROVE SetsAgree
    OBVIOUS
  <2>1. inSync /\ meant \in [SpsIds -> Seq(Targets)] /\ stage \in {"nal", "sps", "slice", "header"}
    BY DEF IInv, Typed, TypeOK
  <2>2. stage = "header" => table[currRpsIdx] = EntryOf(slice.meant)
    BY DEF IInv, SliceDerived
  <2>3. ASSUME active # None, NEW k \in DOMAIN meant[active]
        PROVE  table[k - 1] = EntryOf(meant[active][k])
    <3>1. stage \in {"slice", "header"}
      BY <2>1, <2>3 DEF IInv, Idle
    <3>2. active \in SpsIds /\ InTable(table, meant[active])
      BY <3>1 DEF IInv, Activated
    <3>3. k \in 1 .. Len(meant[active])
      BY <2>1, <3>2
    <3> QED
      BY <3>2, <3>3, Zenon DEF InTable
  <2> QED
    BY <2>1, <2>2, <2>3 DEF SetsAgree
<1> QED
  BY <1>1, ReferencesInvariant, PTL

(* The number of pictures to choose from is right when list entries are     *)
(* read, and the reference picture set of a picture has in each of its     *)
(* five lists the pictures its first slice means, in that order.           *)
THEOREM ReferencesAlwaysAgree == Spec => []ReferencesAgree
<1>1. IInv => ReferencesAgree
  BY DEF IInv, SliceDerived, RpsDerived, ReferencesAgree
<1> QED
  BY <1>1, ReferencesInvariant, PTL

(* The reference picture lists of every slice are those of 8.3.4, whatever  *)
(* their size, their number of pictures and their modification.            *)
THEOREM ListsAlwaysAgree == Spec => []ListsAgree
<1>1. IInv => ListsAgree
  BY DEF IInv
<1> QED
  BY <1>1, ReferencesInvariant, PTL
=============================================================================

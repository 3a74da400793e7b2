----------------------------- MODULE PictureProofs -----------------------------
(***************************************************************************)
(* One picture, for every size, every proper tile layout (PpsAssumption)   *)
(* and every division into slices and slice segments: first its in-loop    *)
(* filters, then its slices.                                               *)
(***************************************************************************)
EXTENDS PictureDecoding, ScanProofs

-------------------------------------------------------------------------------
(* The in-loop filters: the schedule keeps the order the samples require,  *)
(* and the picture is complete at its end.  The argument: the calls of a   *)
(* unit are exactly those for which it is the last unit they have to wait  *)
(* for, as every other unit they depend on is above or to the left of it.  *)

(* A unit's address in tile scan.                                          *)
Ts(u) == geo.toTs[toAddrInRs(u)]

-------------------------------------------------------------------------------
(* Tile scan.                                                              *)
LEMMA TablesGood ==
    ASSUME pps \in PpsChoices
    PROVE  ScanTables(geo)
BY TablesProper, PpsAssumption DEF geo, Geometries

LEMMA TablesSame ==
    ASSUME pps' = pps
    PROVE  /\ geo' = geo
           /\ \A u : Ts(u)' = Ts(u)
           /\ \A a : CoordInTs(a)' = CoordInTs(a)
<1>1. geo' = geo
  BY DEF geo, Geometries
<1> QED
  BY <1>1 DEF Ts, CoordInTs

LEMMA TsType ==
    ASSUME ScanTables(geo), NEW u \in Coord
    PROVE  Ts(u) \in Addr /\ CoordInTs(Ts(u)) = u
<1>1. toAddrInRs(u) \in Addr /\ toCoord(toAddrInRs(u)) = u
  BY AddrType
<1> QED
  BY <1>1 DEF ScanTables, Ts, CoordInTs

LEMMA CoordInTsType ==
    ASSUME ScanTables(geo), NEW a \in Addr
    PROVE  CoordInTs(a) \in Coord /\ Ts(CoordInTs(a)) = a
<1>1. geo.toRs[a] \in Addr
  BY DEF ScanTables
<1>2. CoordInTs(a) \in Coord /\ toAddrInRs(CoordInTs(a)) = geo.toRs[a]
  BY <1>1, CoordType DEF CoordInTs
<1> QED
  BY <1>2 DEF ScanTables, Ts

LEMMA Dominated ==
    ASSUME ScanTables(geo), NEW u \in Coord, NEW v \in Coord, u[1] <= v[1], u[2] <= v[2]
    PROVE  Ts(u) <= Ts(v) /\ (u # v => Ts(u) < Ts(v))
<1>1. Ts(u) <= Ts(v)
  BY DEF ScanTables, Ts
<1>2. Ts(u) \in Int /\ Ts(v) \in Int
  BY TsType, SizeType DEF Addr
<1>3. Ts(u) = Ts(v) => u = v
  BY TsType
<1> QED
  BY <1>1, <1>2, <1>3

-------------------------------------------------------------------------------
(* The unit whose calls deblock the horizontal edges of v, and the one     *)
(* after whose calls the samples of v are final.                           *)
Within(i, last) == IF i <= last THEN i ELSE last
HorizontalAt(v) == <<Within(v[1] + 1, Width - 1), v[2]>>
OffsetAt(v) == <<Within(v[1] + 2, Width - 1), Within(v[2] + 1, Height - 1)>>

LEMMA AtType ==
    ASSUME NEW v \in Coord
    PROVE  HorizontalAt(v) \in Coord /\ OffsetAt(v) \in Coord
<1>1. /\ v[1] \in Int /\ 0 <= v[1] /\ v[1] <= Width - 1
      /\ v[2] \in Int /\ 0 <= v[2] /\ v[2] <= Height - 1
  BY CoordIsPair
<1>2. /\ Within(v[1] + 1, Width - 1) \in 0 .. Width - 1
      /\ Within(v[1] + 2, Width - 1) \in 0 .. Width - 1
      /\ Within(v[2] + 1, Height - 1) \in 0 .. Height - 1
      /\ v[2] \in 0 .. Height - 1
  BY <1>1, SizeType DEF Within
<1> QED
  BY <1>2 DEF Coord, HorizontalAt, OffsetAt

LEMMA PairEqual ==
    ASSUME NEW u \in Coord, NEW v \in Coord
    PROVE  u = v <=> u[1] = v[1] /\ u[2] = v[2]
BY CoordIsPair

LEMMA AtIs ==
    ASSUME NEW v \in Coord, NEW dx \in Int, NEW dy \in Int, NEW w \in At(v, dx, dy)
    PROVE  w \in Coord /\ w[1] = v[1] + dx /\ w[2] = v[2] + dy
BY DEF At

(* Every unit that the samples of v depend on is decoded, and its          *)
(* horizontal edges are due, when OffsetAt(v) is decoded.                  *)
LEMMA ReachBefore ==
    ASSUME ScanTables(geo), NEW v \in Coord
    PROVE  /\ \A w \in VerticalReach(v) : w \in Coord /\ Ts(w) <= Ts(OffsetAt(v))
           /\ \A w \in HorizontalReach(v) :
                w \in Coord /\ Ts(HorizontalAt(w)) <= Ts(OffsetAt(v))
<1>0. /\ v[1] \in Int /\ 0 <= v[1] /\ v[1] <= Width - 1
      /\ v[2] \in Int /\ 0 <= v[2] /\ v[2] <= Height - 1
  BY CoordIsPair
<1>1. /\ OffsetAt(v) \in Coord
      /\ OffsetAt(v)[1] = Within(v[1] + 2, Width - 1)
      /\ OffsetAt(v)[2] = Within(v[2] + 1, Height - 1)
  BY AtType DEF OffsetAt
<1>2. ASSUME NEW w \in VerticalReach(v)
      PROVE  w \in Coord /\ Ts(w) <= Ts(OffsetAt(v))
  <2>1. PICK dx \in {-1, 0, 1}, dy \in {-1, 0, 1} : w \in At(v, dx, dy)
    BY <1>2 DEF VerticalReach
  <2>2. w \in Coord /\ w[1] = v[1] + dx /\ w[2] = v[2] + dy
    BY <2>1, AtIs
  <2>3. w[1] <= OffsetAt(v)[1] /\ w[2] <= OffsetAt(v)[2]
    BY <1>0, <1>1, <2>2, CoordIsPair, SizeType DEF Within
  <2> QED
    BY <1>1, <2>2, <2>3, Dominated
<1>3. ASSUME NEW w \in HorizontalReach(v)
      PROVE  w \in Coord /\ Ts(HorizontalAt(w)) <= Ts(OffsetAt(v))
  <2>1. PICK dx \in {-1, 0, 1}, dy \in {0, 1} : w \in At(v, dx, dy)
    BY <1>3 DEF HorizontalReach
  <2>2. w \in Coord /\ w[1] = v[1] + dx /\ w[2] = v[2] + dy
    BY <2>1, AtIs
  <2>3. /\ HorizontalAt(w) \in Coord
        /\ HorizontalAt(w)[1] = Within(w[1] + 1, Width - 1) /\ HorizontalAt(w)[2] = w[2]
    BY <2>2, AtType DEF HorizontalAt
  <2>4. HorizontalAt(w)[1] <= OffsetAt(v)[1] /\ HorizontalAt(w)[2] <= OffsetAt(v)[2]
    BY <1>0, <1>1, <2>2, <2>3, CoordIsPair, SizeType DEF Within
  <2> QED
    BY <1>1, <2>2, <2>3, <2>4, Dominated
<1> QED
  BY <1>2, <1>3

-------------------------------------------------------------------------------
(* The invariant.  Units are parsed in tile scan, the header of the next   *)
(* segment names the next unit.                                            *)
UnitsInv ==
    /\ pps \in PpsChoices
    /\ ctus \in Seq(Coord) /\ Len(ctus) <= Width * Height
    /\ \A i \in 1 .. Len(ctus) : ctus[i] = CoordInTs(i - 1)
    /\ (\E S : coded \in Seq(S)) /\ Len(coded) = Len(ctus)

ControlInv ==
    /\ pc \in {"header", "data", "ctu", "filter", "endFlag", "done"}
    /\ pc \in {"header", "data", "ctu"} => Len(ctus) \in Addr
    /\ pc = "data" => ssh.address = geo.toRs[Len(ctus)]
    /\ pc = "ctu" => ctbAddrInTs = Len(ctus)
    /\ pc \in {"filter", "endFlag"} => ctbAddrInTs \in Addr /\ Len(ctus) = ctbAddrInTs + 1
    /\ pc = "done" => Len(ctus) = Width * Height
    /\ pc = "filter" => call \in 1 .. 10

(* The unit whose calls are made, how many of them were, and the units     *)
(* whose calls were all made.                                              *)
current == CoordInTs(ctbAddrInTs)
Called(n) == pc = "filter" /\ call > n
Completed == IF pc = "filter" THEN ctbAddrInTs ELSE Len(ctus)

(* Exactly what was due has been deblocked.                                *)
DeblockInv ==
    /\ vertical = {v \in Coord : Ts(v) < Completed \/ (Called(1) /\ v = current)}
    /\ horizontal =
         {v \in Coord : \/ Ts(HorizontalAt(v)) < Completed
                        \/ /\ HorizontalAt(v) = current
                           /\ Called(3) \/ (Called(2) /\ v # current)}

(* What was due has its final samples, none of them taken from the future. *)
Deblocked == ({"V"} \X vertical) \cup ({"H"} \X horizontal)

OffsetInv ==
    /\ offset \in [Coord -> SUBSET ({"V", "H"} \X Coord)]
    /\ \A v \in Coord : offset[v] \subseteq Deblocked
    /\ \A v \in Coord : Ts(OffsetAt(v)) < Completed => v \in Final
    /\ \A k \in 4 .. 9 :
         Called(k) /\ Calls[k].due /\ OffsetAt(Calls[k].at) = current => Calls[k].at \in Final

ScheduleInv == UnitsInv /\ ControlInv /\ DeblockInv /\ OffsetInv

LEMMA ScheduleInit ==
    ASSUME Init
    PROVE  ScheduleInv
<1>1. pc = "header" /\ ctus = <<>> /\ Len(ctus) = 0 /\ Completed = 0 /\ \A n : ~Called(n)
  BY DEF Init, Completed, Called
<1>2. UnitsInv
  <2>1. coded \in Seq({}) /\ Len(coded) = 0
    BY DEF Init
  <2>2. 0 <= Width * Height
    BY SizeType
  <2> QED
    BY <1>1, <2>1, <2>2 DEF Init, UnitsInv
<1>3. ControlInv
  <2>1. 1 * Height <= Width * Height
    BY ProductMonotone, SizeType
  <2>2. 0 \in Addr
    BY <2>1, SizeType DEF Addr
  <2> QED
    BY <1>1, <2>2 DEF ControlInv
<1>4. \A v \in Coord : ~(Ts(v) < Completed) /\ ~(Ts(HorizontalAt(v)) < Completed)
                       /\ ~(Ts(OffsetAt(v)) < Completed)
  <2>1. ScanTables(geo)
    BY <1>2, TablesGood DEF UnitsInv
  <2>2. \A v \in Coord : Ts(v) \in Addr
    BY <2>1, TsType
  <2> QED
    BY <1>1, <2>2, AtType, SizeType DEF Addr
<1>5. DeblockInv
  BY <1>1, <1>4 DEF Init, DeblockInv
<1>6. OffsetInv
  BY <1>1, <1>4 DEF Init, OffsetInv
<1> QED
  BY <1>2, <1>3, <1>5, <1>6 DEF ScheduleInv

-------------------------------------------------------------------------------
(* The parser's steps.                                                     *)
LEMMA NotFiltering ==
    ASSUME ScheduleInv, pc # "filter", pc' # "filter",
           UNCHANGED <<pps, ctus, vertical, horizontal, offset>>
    PROVE  (DeblockInv /\ OffsetInv)'
<1>1. Completed' = Completed /\ (\A n : ~Called(n) /\ ~Called(n)') /\ Final' = Final
  BY DEF Completed, Called, Final
<1>2. \A v : Ts(v)' = Ts(v) /\ HorizontalAt(v)' = HorizontalAt(v) /\ OffsetAt(v)' = OffsetAt(v)
  BY TablesSame DEF HorizontalAt, OffsetAt
<1>3. DeblockInv'
  BY <1>1, <1>2 DEF ScheduleInv, DeblockInv
<1>4. OffsetInv'
  BY <1>1, <1>2 DEF ScheduleInv, OffsetInv, Deblocked
<1> QED
  BY <1>3, <1>4

LEMMA LenType ==
    ASSUME UnitsInv
    PROVE  Len(ctus) \in Nat /\ Width * Height \in Nat
BY SizeType DEF UnitsInv

LEMMA HeaderStep ==
    ASSUME ScheduleInv, UNCHANGED filterVars,
           \/ IndependentSegment \/ DependentSegment \/ StartSliceSegmentData
    PROVE  ScheduleInv'
<1> USE DEF IndependentSegment, DependentSegment, StartSliceSegmentData
<1>1. pc \in {"header", "data"} /\ pc' \in {"data", "ctu"} /\ pps' = pps /\ ctus' = ctus /\ coded' = coded
  OBVIOUS
<1>2. UnitsInv'
  BY <1>1, TablesSame DEF ScheduleInv, UnitsInv
<1>3. ControlInv'
  <2>1. CASE IndependentSegment \/ DependentSegment
    <3>1. PICK dependent, flags : ssh' = Header(dependent, flags)
      BY <2>1
    <3>2. ssh'.address = SegmentAddress /\ SegmentAddress = geo.toRs[Len(ctus)]
      BY <3>1 DEF Header, SegmentAddress, ScheduleInv, UnitsInv
    <3>3. pc = "header" /\ pc' = "data"
      BY <2>1
    <3> QED
      BY <1>1, <3>2, <3>3, TablesSame DEF ScheduleInv, ControlInv
  <2>2. CASE StartSliceSegmentData
    <3>1. ScanTables(geo)
      BY TablesGood DEF ScheduleInv, UnitsInv
    <3>2. ctbAddrInTs' = Len(ctus) /\ pc = "data" /\ pc' = "ctu"
      BY <2>2, <3>1 DEF ScanTables, ScheduleInv, ControlInv
    <3> QED
      BY <1>1, <3>2 DEF ScheduleInv, ControlInv
  <2> QED
    BY <2>1, <2>2
<1>4. (DeblockInv /\ OffsetInv)'
  BY <1>1, NotFiltering DEF filterVars
<1> QED
  BY <1>2, <1>3, <1>4 DEF ScheduleInv

LEMMA EndFlagStep ==
    ASSUME ScheduleInv, UNCHANGED filterVars, NextUnit \/ EndOfSliceSegment
    PROVE  ScheduleInv'
<1> USE DEF NextUnit, EndOfSliceSegment
<1>1. pc = "endFlag" /\ pc' \in {"ctu", "header", "done"} /\ pps' = pps /\ ctus' = ctus /\ coded' = coded
  OBVIOUS
<1>2. UnitsInv'
  BY <1>1, TablesSame DEF ScheduleInv, UnitsInv
<1>3. ControlInv'
  <2>1. Len(ctus) = ctbAddrInTs + 1 /\ Len(ctus) \in Nat /\ Len(ctus) <= Width * Height
    BY <1>1, LenType DEF ScheduleInv, ControlInv, UnitsInv
  <2>2. pc' \in {"ctu", "header"} => Len(ctus) \in Addr
    BY <1>1, <2>1
  <2>3. pc' = "ctu" => ctbAddrInTs' = Len(ctus)
    BY <1>1, <2>1
  <2>4. pc' = "done" => Len(ctus) = Width * Height
    BY <1>1, <2>1, LenType DEF Addr, ScheduleInv
  <2> QED
    BY <1>1, <2>2, <2>3, <2>4 DEF ControlInv
<1>4. (DeblockInv /\ OffsetInv)'
  BY <1>1, NotFiltering DEF filterVars
<1> QED
  BY <1>2, <1>3, <1>4 DEF ScheduleInv

(* A unit has been parsed: it joins the list, its calls begin.             *)
LEMMA UnitStep ==
    ASSUME ScheduleInv, CodingTreeUnit, StartFilters
    PROVE  /\ ScheduleInv'
           /\ current \in Coord /\ ctus' = Append(ctus, current)
<1>1. /\ pc = "ctu" /\ pc' = "filter" /\ pps' = pps /\ ctbAddrInTs' = ctbAddrInTs /\ call' = 1
      /\ ctbAddrInTs = Len(ctus) /\ Len(ctus) \in Addr /\ ctus' = Append(ctus, current)
      /\ UNCHANGED <<vertical, horizontal, offset>>
  BY DEF CodingTreeUnit, StartFilters, AddCtu, current, ScheduleInv, ControlInv
<1>2. ScanTables(geo) /\ current \in Coord /\ Len(ctus) \in Nat
  BY <1>1, TablesGood, CoordInTsType, LenType DEF ScheduleInv, UnitsInv, current
<1>3. UnitsInv'
  <2>1. /\ ctus' \in Seq(Coord) /\ Len(ctus') = Len(ctus) + 1
        /\ \A i \in 1 .. Len(ctus) : ctus'[i] = ctus[i]
        /\ ctus'[Len(ctus) + 1] = current
    BY <1>1, <1>2 DEF ScheduleInv, UnitsInv
  <2>2. \A i \in 1 .. Len(ctus') : ctus'[i] = CoordInTs(i - 1)
    BY <2>1, <1>1, <1>2 DEF ScheduleInv, UnitsInv, current
  <2>3. (\E S : coded' \in Seq(S)) /\ Len(coded') = Len(coded) + 1
    <3>1. PICK S : coded \in Seq(S)
      BY DEF ScheduleInv, UnitsInv
    <3>2. PICK e : coded' = Append(coded, e)
      BY DEF CodingTreeUnit
    <3>3. coded \in Seq(S \cup {e})
      BY <3>1
    <3>4. coded' \in Seq(S \cup {e}) /\ Len(coded') = Len(coded) + 1
      BY <3>2, <3>3
    <3> QED
      BY <3>4
  <2>4. Len(ctus') <= Width * Height
    BY <2>1, <1>1, <1>2, SizeType DEF Addr
  <2> QED
    BY <1>1, <2>1, <2>2, <2>3, <2>4, TablesSame DEF ScheduleInv, UnitsInv
<1>4. ControlInv'
  BY <1>1, <1>2 DEF ControlInv
<1>5. /\ Completed' = Completed /\ Final' = Final
      /\ ~Called(1)' /\ ~Called(2)' /\ ~Called(3)' /\ \A k \in 4 .. 9 : ~Called(k)'
      /\ \A n : ~Called(n)
  BY <1>1 DEF Completed, Called, Final
<1>6. \A v : Ts(v)' = Ts(v) /\ HorizontalAt(v)' = HorizontalAt(v) /\ OffsetAt(v)' = OffsetAt(v)
  BY <1>1, TablesSame DEF HorizontalAt, OffsetAt
<1>7. DeblockInv'
  BY <1>1, <1>5, <1>6 DEF ScheduleInv, DeblockInv
<1>8. OffsetInv'
  BY <1>1, <1>5, <1>6 DEF ScheduleInv, OffsetInv, Deblocked
<1> QED
  BY <1>1, <1>2, <1>3, <1>4, <1>7, <1>8 DEF ScheduleInv

-------------------------------------------------------------------------------
(* The calls of a unit.                                                    *)
LEMMA FilteringType ==
    ASSUME ScheduleInv, pc = "filter"
    PROVE  /\ ScanTables(geo) /\ ctbAddrInTs \in Addr /\ ctbAddrInTs \in Nat
           /\ current \in Coord /\ Ts(current) = ctbAddrInTs
           /\ Completed = ctbAddrInTs /\ Len(ctus) = ctbAddrInTs + 1 /\ call \in 1 .. 10
           /\ \A n : Called(n) <=> call > n
<1>1. ScanTables(geo) /\ ctbAddrInTs \in Addr
  BY TablesGood DEF ScheduleInv, UnitsInv, ControlInv
<1> QED
  BY <1>1, CoordInTsType, SizeType
     DEF ScheduleInv, ControlInv, Addr, current, Completed, Called

LEMMA CtuAt ==
    ASSUME ScheduleInv, pc = "filter",
           NEW v \in Coord, v[1] <= current[1], v[2] <= current[2]
    PROVE  ctuAt(v) = v
<1>1. Ts(v) <= ctbAddrInTs /\ Ts(v) \in Addr /\ CoordInTs(Ts(v)) = v
  BY FilteringType, Dominated, TsType
<1>2. Ts(v) + 1 \in 1 .. Len(ctus)
  BY <1>1, FilteringType, SizeType DEF Addr
<1>3. ctus[Ts(v) + 1] = CoordInTs(Ts(v) + 1 - 1) /\ Ts(v) + 1 - 1 = Ts(v)
  BY <1>1, <1>2, SizeType DEF ScheduleInv, UnitsInv, Addr
<1> QED
  BY <1>1, <1>3 DEF ctuAt, Ts

CallTable(x, y) ==
    /\ DOMAIN Calls = 1 .. 9
    /\ Calls[1].op = "V"
    /\ \A k \in {2, 3} : Calls[k].op = "H"
    /\ \A k \in 4 .. 9 : Calls[k].op = "SAO"
    /\ Calls[1].due
    /\ Calls[2].due <=> ~(x = 0)
    /\ Calls[3].due <=> x = Width - 1
    /\ Calls[4].due <=> ~(x - 1 = 0) /\ ~(x = 0) /\ ~(y = 0)
    /\ Calls[5].due <=> x = Width - 1 /\ ~(y = 0) /\ ~(x = 0)
    /\ Calls[6].due <=> x = Width - 1 /\ ~(y = 0)
    /\ Calls[7].due <=> ~(x = 0) /\ y = Height - 1 /\ ~(x - 1 = 0)
    /\ Calls[8].due <=> ~(x = 0) /\ y = Height - 1
    /\ Calls[9].due <=> x = Width - 1 /\ y = Height - 1
    /\ Calls[1].at = <<x, y>>
    /\ Calls[2].at = <<x - 1, y>>
    /\ Calls[3].at = <<x, y>>
    /\ Calls[4].at = <<x - 2, y - 1>>
    /\ Calls[5].at = <<x - 1, y - 1>>
    /\ Calls[6].at = <<x, y - 1>>
    /\ Calls[7].at = <<x - 2, y>>
    /\ Calls[8].at = <<x - 1, y>>
    /\ Calls[9].at = <<x, y>>

LEMMA CallsAre ==
    ASSUME NEW x, NEW y, current = <<x, y>>
    PROVE  CallTable(x, y)
<1>1. Calls = Schedule(x, y)
  BY DEF Calls, current
<1> DEFINE d1 == TRUE
           d2 == ~(x = 0)
           d3 == x = Width - 1
           d4 == ~(x - 1 = 0) /\ ~(x = 0) /\ ~(y = 0)
           d5 == x = Width - 1 /\ ~(y = 0) /\ ~(x = 0)
           d6 == x = Width - 1 /\ ~(y = 0)
           d7 == ~(x = 0) /\ y = Height - 1 /\ ~(x - 1 = 0)
           d8 == ~(x = 0) /\ y = Height - 1
           d9 == x = Width - 1 /\ y = Height - 1
<1>c1. Calls[1] = Call(d1, "V", x, y) /\ d1 \in BOOLEAN
  BY <1>1 DEF Schedule
<1>c2. Calls[2] = Call(d2, "H", x - 1, y) /\ d2 \in BOOLEAN
  BY <1>1 DEF Schedule
<1>c3. Calls[3] = Call(d3, "H", x, y) /\ d3 \in BOOLEAN
  BY <1>1 DEF Schedule
<1>c4. Calls[4] = Call(d4, "SAO", x - 2, y - 1) /\ d4 \in BOOLEAN
  BY <1>1 DEF Schedule
<1>c5. Calls[5] = Call(d5, "SAO", x - 1, y - 1) /\ d5 \in BOOLEAN
  BY <1>1 DEF Schedule
<1>c6. Calls[6] = Call(d6, "SAO", x, y - 1) /\ d6 \in BOOLEAN
  BY <1>1 DEF Schedule
<1>c7. Calls[7] = Call(d7, "SAO", x - 2, y) /\ d7 \in BOOLEAN
  BY <1>1 DEF Schedule
<1>c8. Calls[8] = Call(d8, "SAO", x - 1, y) /\ d8 \in BOOLEAN
  BY <1>1 DEF Schedule
<1>c9. Calls[9] = Call(d9, "SAO", x, y) /\ d9 \in BOOLEAN
  BY <1>1 DEF Schedule
<1>2. DOMAIN Calls = 1 .. 9
  BY <1>1 DEF Schedule
<1> HIDE DEF d1, d2, d3, d4, d5, d6, d7, d8, d9
<1>e1. (Calls[1].due <=> d1) /\ Calls[1].op = "V" /\ Calls[1].at = <<x, y>>
  BY <1>c1 DEF Call
<1>e2. (Calls[2].due <=> d2) /\ Calls[2].op = "H" /\ Calls[2].at = <<x - 1, y>>
  BY <1>c2 DEF Call
<1>e3. (Calls[3].due <=> d3) /\ Calls[3].op = "H" /\ Calls[3].at = <<x, y>>
  BY <1>c3 DEF Call
<1>e4. (Calls[4].due <=> d4) /\ Calls[4].op = "SAO" /\ Calls[4].at = <<x - 2, y - 1>>
  BY <1>c4 DEF Call
<1>e5. (Calls[5].due <=> d5) /\ Calls[5].op = "SAO" /\ Calls[5].at = <<x - 1, y - 1>>
  BY <1>c5 DEF Call
<1>e6. (Calls[6].due <=> d6) /\ Calls[6].op = "SAO" /\ Calls[6].at = <<x, y - 1>>
  BY <1>c6 DEF Call
<1>e7. (Calls[7].due <=> d7) /\ Calls[7].op = "SAO" /\ Calls[7].at = <<x - 2, y>>
  BY <1>c7 DEF Call
<1>e8. (Calls[8].due <=> d8) /\ Calls[8].op = "SAO" /\ Calls[8].at = <<x - 1, y>>
  BY <1>c8 DEF Call
<1>e9. (Calls[9].due <=> d9) /\ Calls[9].op = "SAO" /\ Calls[9].at = <<x, y>>
  BY <1>c9 DEF Call
<1>3. (\A k \in {2, 3} : Calls[k].op = "H") /\ (\A k \in 4 .. 9 : Calls[k].op = "SAO")
  <2>1. 4 .. 9 = {4, 5, 6, 7, 8, 9}
    OBVIOUS
  <2> QED
    BY <2>1, <1>e2, <1>e3, <1>e4, <1>e5, <1>e6, <1>e7, <1>e8, <1>e9
<1> QED
  BY <1>2, <1>3, <1>e1, <1>e2, <1>e3, <1>e4, <1>e5, <1>e6, <1>e7, <1>e8, <1>e9
     DEF CallTable, d1, d2, d3, d4, d5, d6, d7, d8, d9

(* What each call is for.                                                  *)
LEMMA CallsFor ==
    ASSUME current \in Coord
    PROVE  /\ DOMAIN Calls = 1 .. 9
           /\ Calls[1].due /\ Calls[1].op = "V" /\ Calls[1].at = current
           /\ \A k \in {2, 3} : Calls[k].op = "H"
           /\ \A k \in 4 .. 9 : Calls[k].op = "SAO"
           /\ \A k \in 1 .. 9 : Calls[k].due =>
                /\ Calls[k].at \in Coord
                /\ Calls[k].at[1] <= current[1] /\ Calls[k].at[2] <= current[2]
           /\ Calls[2].due => HorizontalAt(Calls[2].at) = current /\ Calls[2].at # current
           /\ Calls[3].due => HorizontalAt(current) = current /\ Calls[3].at = current
           /\ \A v \in Coord :
                /\ HorizontalAt(v) = current =>
                     IF v = current THEN Calls[3].due ELSE Calls[2].due /\ v = Calls[2].at
                /\ OffsetAt(v) = current => \E k \in 4 .. 9 : Calls[k].due /\ Calls[k].at = v
<1> DEFINE x == current[1]
           y == current[2]
<1>1. /\ current = <<x, y>> /\ x \in Int /\ y \in Int
      /\ 0 <= x /\ x <= Width - 1 /\ 0 <= y /\ y <= Height - 1
  BY CoordIsPair
<1>c. \A a, b \in Int : <<a, b>> \in Coord <=> 0 <= a /\ a <= Width - 1 /\ 0 <= b /\ b <= Height - 1
  BY SizeType DEF Coord
<1> HIDE DEF x, y
<1>2. CallTable(x, y)
  BY <1>1, CallsAre
<1> USE DEF CallTable
<1>3. /\ DOMAIN Calls = 1 .. 9
      /\ Calls[1].due /\ Calls[1].op = "V" /\ Calls[1].at = current
      /\ \A k \in {2, 3} : Calls[k].op = "H"
      /\ \A k \in 4 .. 9 : Calls[k].op = "SAO"
  BY <1>1, <1>2
<1>5. ASSUME NEW k \in 1 .. 9, Calls[k].due
      PROVE  /\ Calls[k].at \in Coord
             /\ Calls[k].at[1] <= x /\ Calls[k].at[2] <= y
  <2>1. CASE k = 1
    BY <2>1, <1>1, <1>2, <1>5, <1>c, SizeType
  <2>2. CASE k = 2
    BY <2>2, <1>1, <1>2, <1>5, <1>c, SizeType
  <2>3. CASE k = 3
    BY <2>3, <1>1, <1>2, <1>5, <1>c, SizeType
  <2>4. CASE k = 4
    BY <2>4, <1>1, <1>2, <1>5, <1>c, SizeType
  <2>5. CASE k = 5
    BY <2>5, <1>1, <1>2, <1>5, <1>c, SizeType
  <2>6. CASE k = 6
    BY <2>6, <1>1, <1>2, <1>5, <1>c, SizeType
  <2>7. CASE k = 7
    BY <2>7, <1>1, <1>2, <1>5, <1>c, SizeType
  <2>8. CASE k = 8
    BY <2>8, <1>1, <1>2, <1>5, <1>c, SizeType
  <2>9. CASE k = 9
    BY <2>9, <1>1, <1>2, <1>5, <1>c, SizeType
  <2> QED
    BY <2>1, <2>2, <2>3, <2>4, <2>5, <2>6, <2>7, <2>8, <2>9
<1>6. Calls[2].due => HorizontalAt(Calls[2].at) = current /\ Calls[2].at # current
  BY <1>1, <1>2 DEF HorizontalAt, Within
<1>7. Calls[3].due => HorizontalAt(current) = current /\ Calls[3].at = current
  BY <1>1, <1>2 DEF HorizontalAt, Within
<1>8. ASSUME NEW v \in Coord, HorizontalAt(v) = current
      PROVE  IF v = current THEN Calls[3].due ELSE Calls[2].due /\ v = Calls[2].at
  <2>1. /\ v = <<v[1], v[2]>> /\ v[1] \in Int /\ v[2] \in Int
        /\ 0 <= v[1] /\ v[1] <= Width - 1
    BY CoordIsPair
  <2>2. Within(v[1] + 1, Width - 1) = x /\ v[2] = y
    BY <1>1, <1>8 DEF HorizontalAt
  <2>3. CASE v[1] + 1 <= Width - 1
    BY <2>1, <2>2, <2>3, <1>1, <1>2 DEF Within
  <2>4. CASE ~(v[1] + 1 <= Width - 1)
    BY <2>1, <2>2, <2>4, <1>1, <1>2, SizeType DEF Within
  <2> QED
    BY <2>3, <2>4
<1>9. ASSUME NEW v \in Coord, OffsetAt(v) = current
      PROVE  \E k \in 4 .. 9 : Calls[k].due /\ Calls[k].at = v
  <2>1. /\ v = <<v[1], v[2]>> /\ v[1] \in Int /\ v[2] \in Int
        /\ 0 <= v[1] /\ v[1] <= Width - 1 /\ 0 <= v[2] /\ v[2] <= Height - 1
    BY CoordIsPair
  <2>2. Within(v[1] + 2, Width - 1) = x /\ Within(v[2] + 1, Height - 1) = y
    BY <1>1, <1>9 DEF OffsetAt
  <2>3. \/ v[1] = x - 2
        \/ v[1] = x - 1 /\ x = Width - 1
        \/ v[1] = x /\ x = Width - 1
    BY <2>1, <2>2, <1>1, SizeType DEF Within
  <2>4. v[2] = y - 1 \/ (v[2] = y /\ y = Height - 1)
    BY <2>1, <2>2, <1>1, SizeType DEF Within
  <2>5. CASE v[2] = y - 1
    BY <2>5, <2>1, <2>3, <1>1, <1>2
  <2>6. CASE v[2] = y /\ y = Height - 1
    BY <2>6, <2>1, <2>3, <1>1, <1>2
  <2> QED
    BY <2>4, <2>5, <2>6
<1>10. \A k \in 1 .. 9 : Calls[k].due =>
         /\ Calls[k].at \in Coord
         /\ Calls[k].at[1] <= current[1] /\ Calls[k].at[2] <= current[2]
  BY <1>5 DEF x, y
<1> HIDE DEF CallTable
<1> QED
  BY <1>3, <1>10, <1>6, <1>7, <1>8, <1>9

-------------------------------------------------------------------------------
(* The three kinds of calls.                                               *)
LEMMA FilterCalls ==
    ASSUME ScheduleInv, Filter
    PROVE  /\ pc = "filter" /\ pc' = "filter" /\ call \in 1 .. 9 /\ call' = call + 1
           /\ UNCHANGED <<pps, ctus, coded, ctbAddrInTs>>
           /\ \/ call = 1 /\ vertical' = vertical \cup {current} /\ UNCHANGED <<horizontal, offset>>
              \/ /\ call \in {2, 3} /\ Calls[call].due
                 /\ horizontal' = horizontal \cup {Calls[call].at} /\ UNCHANGED <<vertical, offset>>
              \/ /\ call \in 4 .. 9 /\ Calls[call].due
                 /\ offset' = [offset EXCEPT ![Calls[call].at] = Deblocked]
                 /\ UNCHANGED <<vertical, horizontal>>
              \/ ~Calls[call].due /\ UNCHANGED <<vertical, horizontal, offset>>
<1>1. /\ pc = "filter" /\ pc' = "filter" /\ call' = call + 1
      /\ UNCHANGED <<pps, ctus, coded, ctbAddrInTs>> /\ call \in DOMAIN Calls
  BY DEF Filter, sliceVars
<1>2. current \in Coord
  BY <1>1, FilteringType
<1>3. call \in 1 .. 9
  BY <1>1, <1>2, CallsFor
<1> DEFINE w == ctuAt(Calls[call].at)
<1>4. Calls[call].due => w = Calls[call].at
  BY <1>1, <1>2, <1>3, CallsFor, CtuAt
<1>5. CASE Calls[call].due /\ Calls[call].op = "V" /\ DeblockV(w)
  <2>1. call = 1
    BY <1>5, <1>2, <1>3, CallsFor
  <2> QED
    BY <1>1, <1>2, <1>4, <1>5, <2>1, CallsFor DEF DeblockV
<1>6. CASE Calls[call].due /\ Calls[call].op = "H" /\ DeblockH(w)
  <2>1. call \in {2, 3}
    BY <1>6, <1>2, <1>3, CallsFor
  <2> QED
    BY <1>1, <1>4, <1>6, <1>3, <2>1 DEF DeblockH
<1>7. CASE Calls[call].due /\ Calls[call].op = "SAO" /\ SampleAdaptiveOffset(w)
  <2>1. call \in 4 .. 9
    BY <1>7, <1>2, <1>3, CallsFor
  <2> QED
    BY <1>1, <1>3, <1>4, <1>7, <2>1 DEF SampleAdaptiveOffset, Deblocked
<1>8. CASE ~Calls[call].due /\ UNCHANGED <<vertical, horizontal, offset>>
  BY <1>1, <1>3, <1>8
<1> QED
  BY <1>5, <1>6, <1>7, <1>8 DEF Filter

(* What the calls do not change.                                           *)
LEMMA FilterSame ==
    ASSUME ScheduleInv, Filter
    PROVE  /\ UnitsInv' /\ ControlInv'
           /\ Calls' = Calls /\ current' = current /\ Completed' = Completed
           /\ \A v : Ts(v)' = Ts(v) /\ HorizontalAt(v)' = HorizontalAt(v) /\ OffsetAt(v)' = OffsetAt(v)
           /\ \A n : Called(n)' <=> call + 1 > n
<1>1. /\ pc = "filter" /\ pc' = "filter" /\ call \in 1 .. 9 /\ call' = call + 1
      /\ UNCHANGED <<pps, ctus, coded, ctbAddrInTs>>
  BY FilterCalls
<1>2. UnitsInv'
  BY <1>1, TablesSame DEF ScheduleInv, UnitsInv
<1>3. ControlInv'
  BY <1>1 DEF ScheduleInv, ControlInv
<1>4. current' = current
  BY <1>1, TablesSame DEF current
<1>5. Calls' = Calls
  BY <1>4 DEF Calls, current
<1>6. \A v : Ts(v)' = Ts(v) /\ HorizontalAt(v)' = HorizontalAt(v) /\ OffsetAt(v)' = OffsetAt(v)
  BY <1>1, TablesSame DEF HorizontalAt, OffsetAt
<1> QED
  BY <1>1, <1>2, <1>3, <1>4, <1>5, <1>6 DEF Completed, Called

(* Deblocking keeps to what is due.                                        *)
LEMMA FilterDeblocks ==
    ASSUME ScheduleInv, Filter
    PROVE  DeblockInv'
<1>1. current \in Coord /\ \A n : Called(n) <=> call > n
  BY FilterCalls, FilteringType
<1>2. vertical' = {v \in Coord : Ts(v) < Completed \/ (call + 1 > 1 /\ v = current)}
  <2>1. vertical = {v \in Coord : Ts(v) < Completed \/ (call > 1 /\ v = current)}
    BY <1>1 DEF ScheduleInv, DeblockInv
  <2>2. CASE call = 1
    <3>1. vertical' = vertical \cup {current}
      BY <2>2, <1>1, FilterCalls, CallsFor
    <3> QED
      BY <2>1, <2>2, <3>1, <1>1
  <2>3. CASE call # 1
    <3>1. vertical' = vertical /\ call > 1
      BY <2>3, FilterCalls
    <3> QED
      BY <2>1, <3>1, FilterCalls
  <2> QED
    BY <2>2, <2>3
<1>3. horizontal' =
        {v \in Coord : \/ Ts(HorizontalAt(v)) < Completed
                       \/ /\ HorizontalAt(v) = current
                          /\ call + 1 > 3 \/ (call + 1 > 2 /\ v # current)}
  <2>1. horizontal =
          {v \in Coord : \/ Ts(HorizontalAt(v)) < Completed
                         \/ /\ HorizontalAt(v) = current
                            /\ call > 3 \/ (call > 2 /\ v # current)}
    BY <1>1 DEF ScheduleInv, DeblockInv
  <2>2. CASE call \in {2, 3} /\ Calls[call].due
    <3>1. horizontal' = horizontal \cup {Calls[call].at}
      BY <2>2, FilterCalls
    <3>2. Calls[call].at \in Coord /\ HorizontalAt(Calls[call].at) = current
      BY <2>2, <1>1, CallsFor
    <3>3. call = 2 => Calls[call].at # current
      BY <2>2, <1>1, CallsFor
    <3>4. call = 3 => Calls[call].at = current
      BY <2>2, <1>1, CallsFor
    <3>5. \A v \in Coord : HorizontalAt(v) = current /\ v # current => v = Calls[2].at
      BY <1>1, CallsFor
    <3> QED
      BY <2>1, <2>2, <3>1, <3>2, <3>3, <3>4, <3>5
  <2>3. CASE call \in {2, 3} /\ ~Calls[call].due
    <3>1. horizontal' = horizontal
      BY <2>3, FilterCalls
    <3>2. \A v \in Coord : HorizontalAt(v) = current =>
            IF v = current THEN Calls[3].due ELSE Calls[2].due
      BY <1>1, CallsFor
    <3> QED
      BY <2>1, <2>3, <3>1, <3>2
  <2>4. CASE call \notin {2, 3}
    <3>1. horizontal' = horizontal /\ call \in 1 .. 9
      BY <2>4, FilterCalls
    <3> QED
      BY <2>1, <2>4, <3>1
  <2> QED
    BY <2>2, <2>3, <2>4
<1> QED
  BY <1>2, <1>3, FilterSame DEF DeblockInv

(* A unit that has its final samples keeps them, a premature call adds     *)
(* nothing to the deblocking a unit has seen.                              *)
Reach(v) == ({"V"} \X VerticalReach(v)) \cup ({"H"} \X HorizontalReach(v))

LEMMA FinalIs ==
    /\ \A v \in Coord : v \in Final <=> Reach(v) \subseteq offset[v]
    /\ \A v \in Coord : v \in Final' <=> Reach(v) \subseteq offset'[v]
BY DEF Final, Reach

LEMMA FilterGrows ==
    ASSUME ScheduleInv, Filter
    PROVE  /\ offset' \in [Coord -> SUBSET ({"V", "H"} \X Coord)]
           /\ \A v \in Coord : offset[v] \subseteq offset'[v] /\ offset'[v] \subseteq Deblocked'
           /\ Final \subseteq Final'
<1>1. vertical \subseteq Coord /\ horizontal \subseteq Coord
  BY DEF ScheduleInv, DeblockInv
<1>2. Deblocked \subseteq Deblocked' /\ Deblocked \subseteq {"V", "H"} \X Coord
  <2>1. vertical \subseteq vertical' /\ horizontal \subseteq horizontal'
    BY FilterCalls
  <2> QED
    BY <1>1, <2>1 DEF Deblocked
<1>3. /\ offset \in [Coord -> SUBSET ({"V", "H"} \X Coord)]
      /\ \A v \in Coord : offset[v] \subseteq Deblocked
  BY DEF ScheduleInv, OffsetInv
<1>4. offset' = offset \/ \E w : offset' = [offset EXCEPT ![w] = Deblocked]
  BY FilterCalls
<1>5. /\ offset' \in [Coord -> SUBSET ({"V", "H"} \X Coord)]
      /\ \A v \in Coord : offset[v] \subseteq offset'[v] /\ offset'[v] \subseteq Deblocked'
  <2>1. CASE offset' = offset
    BY <2>1, <1>2, <1>3
  <2>2. ASSUME NEW w, offset' = [offset EXCEPT ![w] = Deblocked]
        PROVE  <1>5!1 /\ <1>5!2
    <3>1. offset' \in [Coord -> SUBSET ({"V", "H"} \X Coord)]
      BY <2>2, <1>2, <1>3
    <3>2. \A v \in Coord : offset'[v] = IF v = w THEN Deblocked ELSE offset[v]
      BY <2>2, <1>3
    <3> QED
      BY <3>1, <3>2, <1>2, <1>3
  <2> QED
    BY <1>4, <2>1, <2>2
<1>6. Final \subseteq Final'
  <2>1. Final \subseteq Coord
    BY DEF Final
  <2> QED
    BY <1>5, <2>1, FinalIs
<1> QED
  BY <1>5, <1>6

(* When a unit's deblocking calls are made, those units that waited for it *)
(* may be offset.                                                          *)
LEMMA ReachDone ==
    ASSUME ScheduleInv, pc = "filter", call > 3,
           NEW v \in Coord, OffsetAt(v) = current
    PROVE  Reach(v) \subseteq Deblocked
<1>0. /\ ScanTables(geo) /\ Completed = Ts(current) /\ current \in Coord
      /\ Called(1) /\ Called(3)
  BY FilteringType
<1>1. ASSUME NEW w \in VerticalReach(v) PROVE w \in vertical
  <2>1. w \in Coord /\ Ts(w) <= Ts(current)
    BY <1>0, ReachBefore
  <2>2. Ts(w) < Ts(current) \/ w = current
    BY <1>0, <2>1, TsType, SizeType DEF Addr
  <2> QED
    BY <1>0, <2>1, <2>2 DEF ScheduleInv, DeblockInv
<1>2. ASSUME NEW w \in HorizontalReach(v) PROVE w \in horizontal
  <2>1. w \in Coord /\ HorizontalAt(w) \in Coord /\ Ts(HorizontalAt(w)) <= Ts(current)
    BY <1>0, ReachBefore, AtType
  <2>2. Ts(HorizontalAt(w)) < Ts(current) \/ HorizontalAt(w) = current
    BY <1>0, <2>1, TsType, SizeType DEF Addr
  <2> QED
    BY <1>0, <2>1, <2>2 DEF ScheduleInv, DeblockInv
<1> QED
  BY <1>1, <1>2 DEF Reach, Deblocked

LEMMA FilterOffsets ==
    ASSUME ScheduleInv, Filter
    PROVE  OffsetInv'
<1>1. \A v \in Coord : Ts(OffsetAt(v))' < Completed' => v \in Final'
  BY FilterSame, FilterGrows DEF ScheduleInv, OffsetInv
<1>2. ASSUME NEW k \in 4 .. 9, call + 1 > k, Calls[k].due, OffsetAt(Calls[k].at) = current
      PROVE  Calls[k].at \in Final'
  <2>1. pc = "filter" /\ call \in 1 .. 9
    BY FilterCalls
  <2>2. CASE call > k
    <3>1. Calls[k].at \in Final
      BY <1>2, <2>1, <2>2 DEF ScheduleInv, OffsetInv, Called
    <3> QED
      BY <3>1, FilterGrows
  <2>3. CASE call = k
    <3> DEFINE w == Calls[k].at
    <3>1. w \in Coord
      BY <1>2, <2>1, FilteringType, CallsFor
    <3>2. Reach(w) \subseteq Deblocked
      BY <1>2, <2>1, <2>3, <3>1, ReachDone
    <3>3. offset' = [offset EXCEPT ![w] = Deblocked]
      BY <1>2, <2>3, FilterCalls
    <3>4. offset'[w] = Deblocked
      BY <3>1, <3>3 DEF ScheduleInv, OffsetInv
    <3> QED
      BY <3>1, <3>2, <3>4, FinalIs
  <2> QED
    BY <1>2, <2>1, <2>2, <2>3
<1>3. (\A k \in 4 .. 9 :
         Called(k) /\ Calls[k].due /\ OffsetAt(Calls[k].at) = current => Calls[k].at \in Final)'
  <2>1. Calls' = Calls /\ current' = current /\ \A k \in 4 .. 9 : Called(k)' <=> call + 1 > k
    BY FilterSame
  <2> QED
    BY <1>2, <2>1 DEF OffsetAt, Within
<1>4. (\A v \in Coord : Ts(OffsetAt(v)) < Completed => v \in Final)'
  BY <1>1
<1>5. (\A v \in Coord : offset[v] \subseteq Deblocked)'
  BY FilterGrows
<1> QED
  BY <1>3, <1>4, <1>5, FilterGrows DEF OffsetInv

LEMMA FiltersDoneStep ==
    ASSUME ScheduleInv, FiltersDone
    PROVE  ScheduleInv'
<1>1. /\ pc = "filter" /\ pc' = "endFlag"
      /\ UNCHANGED <<pps, ctus, coded, ctbAddrInTs, vertical, horizontal, offset>>
  BY DEF FiltersDone, filterVars
<1>2. /\ ScanTables(geo) /\ current \in Coord /\ Ts(current) = ctbAddrInTs
      /\ ctbAddrInTs \in Addr /\ ctbAddrInTs \in Nat
      /\ Completed = ctbAddrInTs /\ Len(ctus) = ctbAddrInTs + 1
  BY <1>1, FilteringType
<1>3. call = 10 /\ \A n \in 1 .. 9 : Called(n)
  BY <1>1, <1>2, FilteringType, CallsFor DEF FiltersDone
<1>4. Completed' = ctbAddrInTs + 1 /\ (\A n : ~Called(n)') /\ Final' = Final
  BY <1>1, <1>2 DEF Completed, Called, Final
<1>5. \A v : Ts(v)' = Ts(v) /\ HorizontalAt(v)' = HorizontalAt(v) /\ OffsetAt(v)' = OffsetAt(v)
  BY <1>1, TablesSame DEF HorizontalAt, OffsetAt
<1>6. \A v \in Coord : Ts(v) < ctbAddrInTs + 1 <=> Ts(v) < ctbAddrInTs \/ v = current
  <2>1. \A v \in Coord : Ts(v) \in Int /\ (Ts(v) = Ts(current) => v = current)
    BY <1>2, TsType, SizeType DEF Addr
  <2> QED
    BY <1>2, <2>1
<1>7. UnitsInv'
  BY <1>1, TablesSame DEF ScheduleInv, UnitsInv
<1>8. ControlInv'
  BY <1>1, <1>2 DEF ControlInv
<1>9. DeblockInv'
  <2>1. vertical = {v \in Coord : Ts(v) < ctbAddrInTs + 1}
    BY <1>2, <1>3, <1>6 DEF ScheduleInv, DeblockInv
  <2>2. horizontal = {v \in Coord : Ts(HorizontalAt(v)) < ctbAddrInTs + 1}
    BY <1>2, <1>3, <1>6, AtType DEF ScheduleInv, DeblockInv
  <2> QED
    BY <1>1, <1>4, <1>5, <2>1, <2>2 DEF DeblockInv
<1>10. OffsetInv'
  <2>1. ASSUME NEW v \in Coord, Ts(OffsetAt(v)) < ctbAddrInTs + 1
        PROVE  v \in Final
    <3>1. Ts(OffsetAt(v)) < ctbAddrInTs \/ OffsetAt(v) = current
      BY <2>1, <1>6, AtType
    <3>2. CASE OffsetAt(v) = current
      <4>1. PICK k \in 4 .. 9 : Calls[k].due /\ Calls[k].at = v
        BY <3>2, <1>2, CallsFor
      <4> QED
        BY <4>1, <3>2, <1>3 DEF ScheduleInv, OffsetInv
    <3> QED
      BY <3>1, <3>2, <1>2 DEF ScheduleInv, OffsetInv
  <2>2. Deblocked' = Deblocked
    BY <1>1 DEF Deblocked
  <2> QED
    BY <1>1, <1>4, <1>5, <2>1, <2>2 DEF ScheduleInv, OffsetInv
<1> QED
  BY <1>7, <1>8, <1>9, <1>10 DEF ScheduleInv

-------------------------------------------------------------------------------
LEMMA ScheduleStep ==
    ASSUME ScheduleInv, [Next]_vars
    PROVE  ScheduleInv'
<1>1. CASE Parse
  BY <1>1, HeaderStep, UnitStep, EndFlagStep DEF Parse
<1>2. CASE Filter
  BY <1>2, FilterSame, FilterDeblocks, FilterOffsets DEF ScheduleInv
<1>3. CASE FiltersDone
  BY <1>3, FiltersDoneStep
<1>4. CASE UNCHANGED vars
  <2>1. UNCHANGED <<pps, ctus, coded, pc, ssh, ctbAddrInTs, call, vertical, horizontal, offset>>
    BY <1>4 DEF vars, sliceVars, filterVars
  <2>2. Completed' = Completed /\ (\A n : Called(n)' <=> Called(n)) /\ Final' = Final
        /\ Deblocked' = Deblocked
    BY <2>1 DEF Completed, Called, Final, Deblocked
  <2>3. geo' = geo /\ current' = current /\ Calls' = Calls
        /\ \A v : Ts(v)' = Ts(v) /\ HorizontalAt(v)' = HorizontalAt(v) /\ OffsetAt(v)' = OffsetAt(v)
        /\ \A a : CoordInTs(a)' = CoordInTs(a)
    BY <2>1, TablesSame DEF HorizontalAt, OffsetAt, current, Calls
  <2>4. UnitsInv' /\ ControlInv'
    BY <2>1, <2>3 DEF ScheduleInv, UnitsInv, ControlInv
  <2>5. DeblockInv' /\ OffsetInv'
    BY <2>1, <2>2, <2>3 DEF ScheduleInv, DeblockInv, OffsetInv
  <2> QED
    BY <2>4, <2>5 DEF ScheduleInv
<1> QED
  BY <1>1, <1>2, <1>3, <1>4 DEF Next, Done

(* When the picture is complete every unit has been decoded and has passed *)
(* both deblocking steps and sample adaptive offset, whatever its size,    *)
(* slices and tiles (State.cpp 460-537).                                   *)
THEOREM PictureCompleted ==
    Spec => []PictureComplete
<1>1. ScheduleInv => PictureComplete
  <2> SUFFICES ASSUME ScheduleInv, pc = "done"
               PROVE  /\ Len(ctus) = Width * Height
                      /\ vertical = Coord /\ horizontal = Coord /\ Final = Coord
    BY DEF PictureComplete
  <2>1. Len(ctus) = Width * Height /\ Completed = Width * Height /\ ScanTables(geo)
    BY TablesGood DEF ScheduleInv, ControlInv, UnitsInv, Completed
  <2>2. \A v \in Coord : Ts(v) < Completed
    BY <2>1, TsType, SizeType DEF Addr
  <2>3. \A v \in Coord : Ts(HorizontalAt(v)) < Completed /\ Ts(OffsetAt(v)) < Completed
    BY <2>2, AtType
  <2>4. vertical = Coord /\ horizontal = Coord
    BY <2>2, <2>3 DEF ScheduleInv, DeblockInv
  <2>5. Final = Coord
    BY <2>3 DEF ScheduleInv, OffsetInv, Final
  <2> QED
    BY <2>1, <2>4, <2>5
<1> QED
  BY <1>1, ScheduleInit, ScheduleStep, PTL DEF Spec

-------------------------------------------------------------------------------
(* The steps of PictureDecoding as steps of InLoopFilters.                 *)
decoded == {ctus[i] : i \in DOMAIN ctus}

LEMMA DecodedIs ==
    ASSUME ScheduleInv
    PROVE  \A v \in Coord : Ts(v) < Len(ctus) => v \in decoded
<1> SUFFICES ASSUME NEW v \in Coord, Ts(v) < Len(ctus) PROVE v \in decoded
  OBVIOUS
<1>1. Ts(v) \in Nat /\ CoordInTs(Ts(v)) = v
  BY TablesGood, TsType, SizeType DEF ScheduleInv, UnitsInv, Addr
<1>2. DOMAIN ctus = 1 .. Len(ctus) /\ Len(ctus) \in Nat
  BY DEF ScheduleInv, UnitsInv
<1>3. Ts(v) + 1 \in 1 .. Len(ctus) /\ Ts(v) + 1 - 1 = Ts(v)
  BY <1>1, <1>2
<1>4. ctus[Ts(v) + 1] = v
  BY <1>1, <1>3 DEF ScheduleInv, UnitsInv
<1> QED
  BY <1>2, <1>3, <1>4 DEF decoded

(* The deblocking calls meet the order: the units to the left and above    *)
(* were parsed before.                                                     *)
LEMMA VerticalInOrder ==
    ASSUME ScheduleInv, pc = "filter", call = 1
    PROVE  /\ current \in decoded \ vertical
           /\ At(current, -1, 0) \subseteq vertical
<1>1. /\ ScanTables(geo) /\ current \in Coord /\ Ts(current) = Completed
      /\ Len(ctus) = Ts(current) + 1 /\ Ts(current) \in Nat /\ ~Called(1)
  BY FilteringType
<1>2. current \in decoded
  BY <1>1, DecodedIs
<1>3. current \notin vertical
  BY <1>1 DEF ScheduleInv, DeblockInv
<1>4. ASSUME NEW w \in At(current, -1, 0) PROVE w \in vertical
  <2>1. w \in Coord /\ w[1] = current[1] + (-1) /\ w[2] = current[2] + 0
    BY <1>1, AtIs
  <2>2. w[1] <= current[1] /\ w[2] <= current[2] /\ w # current
    BY <1>1, <2>1, CoordIsPair
  <2>3. Ts(w) < Completed
    BY <1>1, <2>1, <2>2, Dominated
  <2> QED
    BY <2>1, <2>3 DEF ScheduleInv, DeblockInv
<1> QED
  BY <1>2, <1>3, <1>4

LEMMA HorizontalInOrder ==
    ASSUME ScheduleInv, pc = "filter", call \in {2, 3}, Calls[call].due
    PROVE  /\ Calls[call].at \in Coord \ horizontal
           /\ \A dx \in {0, 1}, dy \in {-1, 0} : At(Calls[call].at, dx, dy) \subseteq vertical
<1> DEFINE v == Calls[call].at
<1>1. /\ ScanTables(geo) /\ current \in Coord /\ Ts(current) = Completed
      /\ Ts(current) \in Nat /\ Called(1) /\ (\A n : Called(n) <=> call > n)
  BY FilteringType
<1>2. v \in Coord /\ HorizontalAt(v) = current /\ (v = current <=> call = 3)
  BY <1>1, CallsFor
<1>3. v \notin horizontal
  BY <1>1, <1>2 DEF ScheduleInv, DeblockInv
<1>4. ASSUME NEW dx \in {0, 1}, NEW dy \in {-1, 0}, NEW w \in At(v, dx, dy)
      PROVE  w \in vertical
  <2>1. w \in Coord /\ w[1] = v[1] + dx /\ w[2] = v[2] + dy
    BY <1>2, AtIs
  <2>2. current[1] = Within(v[1] + 1, Width - 1) /\ current[2] = v[2]
    BY <1>2 DEF HorizontalAt
  <2>3. w[1] <= current[1] /\ w[2] <= current[2]
    BY <1>2, <2>1, <2>2, CoordIsPair, SizeType DEF Within
  <2>4. w = current \/ Ts(w) < Completed
    BY <1>1, <2>1, <2>3, Dominated
  <2> QED
    BY <1>1, <2>1, <2>4 DEF ScheduleInv, DeblockInv
<1> QED
  BY <1>2, <1>3, <1>4

LEMMA FilterImplements ==
    ASSUME ScheduleInv, Filter
    PROVE  [Filters!Next]_(Filters!vars)
<1>1. /\ pc = "filter" /\ ctus' = ctus /\ decoded' = decoded
  BY FilterCalls DEF decoded
<1>2. Filters!Coord = Coord /\ (\A u, dx, dy : Filters!At(u, dx, dy) = At(u, dx, dy))
  BY DEF Filters!Coord, Coord, Filters!At, At
<1>3. CASE call = 1 /\ vertical' = vertical \cup {current} /\ UNCHANGED <<horizontal, offset>>
  <2>1. Final' = Final
    BY <1>3 DEF Final
  <2>2. Filters!Vertical(current)
    BY <1>1, <1>2, <1>3, <2>1, VerticalInOrder DEF Filters!Vertical, decoded
  <2> QED
    BY <1>1, <1>2, <2>2, FilteringType DEF Filters!Next
<1>4. CASE /\ call \in {2, 3} /\ Calls[call].due
           /\ horizontal' = horizontal \cup {Calls[call].at} /\ UNCHANGED <<vertical, offset>>
  <2>1. Final' = Final
    BY <1>4 DEF Final
  <2>2. Filters!Crossing(Calls[call].at) \subseteq vertical
    BY <1>1, <1>2, <1>4, HorizontalInOrder DEF Filters!Crossing
  <2>3. Filters!Horizontal(Calls[call].at)
    BY <1>1, <1>4, <2>1, <2>2, HorizontalInOrder DEF Filters!Horizontal, decoded
  <2> QED
    BY <1>1, <1>2, <1>4, <2>3, HorizontalInOrder DEF Filters!Next
<1>5. CASE /\ call \in 4 .. 9 /\ Calls[call].due
           /\ offset' = [offset EXCEPT ![Calls[call].at] = Deblocked]
           /\ UNCHANGED <<vertical, horizontal>>
  <2> DEFINE w == Calls[call].at
  <2>1. w \in Coord
    BY <1>1, <1>5, FilteringType, CallsFor
  <2>2. \A v \in Coord : v # w => (v \in Final <=> v \in Final')
    BY <1>5, FinalIs DEF ScheduleInv, OffsetInv
  <2>3. Final \subseteq Coord /\ Final' \subseteq Coord /\ Final \subseteq Final'
    BY FilterGrows DEF Final
  <2>4. CASE Final' = Final
    BY <1>1, <1>5, <2>4 DEF Filters!vars, decoded
  <2>5. CASE Final' # Final
    <3>1. w \in Final' /\ w \notin Final /\ Final' = Final \cup {w}
      BY <2>1, <2>2, <2>3, <2>5
    <3>2. Reach(w) \subseteq Deblocked
      BY <1>5, <2>1, <3>1, FinalIs DEF ScheduleInv, OffsetInv
    <3>3. VerticalReach(w) \subseteq vertical /\ HorizontalReach(w) \subseteq horizontal
      <4>1. /\ \A x \in VerticalReach(w) : <<"V", x>> \in Deblocked
            /\ \A x \in HorizontalReach(w) : <<"H", x>> \in Deblocked
        BY <3>2 DEF Reach
      <4> QED
        BY <4>1 DEF Deblocked
    <3>4. Filters!VerticalReach(w) = VerticalReach(w) /\ Filters!HorizontalReach(w) = HorizontalReach(w)
      BY <1>2 DEF Filters!VerticalReach, VerticalReach, Filters!HorizontalReach, HorizontalReach
    <3>5. Filters!Offset(w)
      BY <1>1, <1>5, <3>1, <3>3, <3>4 DEF Filters!Offset, decoded
    <3> QED
      BY <1>2, <2>1, <3>5 DEF Filters!Next
  <2> QED
    BY <2>4, <2>5
<1>6. CASE UNCHANGED <<vertical, horizontal, offset>>
  BY <1>1, <1>6 DEF Filters!vars, Final, decoded
<1> QED
  BY <1>3, <1>4, <1>5, <1>6, FilterCalls

LEMMA StepImplements ==
    ASSUME ScheduleInv, [Next]_vars
    PROVE  [Filters!Next]_(Filters!vars)
<1>1. CASE CodingTreeUnit /\ StartFilters
  <2>1. current \in Coord /\ ctus' = Append(ctus, current) /\ ctus \in Seq(Coord)
    BY <1>1, UnitStep DEF ScheduleInv, UnitsInv
  <2>2. decoded' = decoded \cup {current}
    <3>1. /\ DOMAIN ctus = 1 .. Len(ctus) /\ Len(ctus) \in Nat
          /\ DOMAIN ctus' = 1 .. Len(ctus) + 1
          /\ (\A i \in 1 .. Len(ctus) : ctus'[i] = ctus[i]) /\ ctus'[Len(ctus) + 1] = current
      BY <2>1
    <3> QED
      BY <3>1 DEF decoded
  <2>3. Final' = Final /\ UNCHANGED <<vertical, horizontal>>
    BY <1>1 DEF StartFilters, Final
  <2>4. PICK u \in Coord : decoded' = decoded \cup {u}
    BY <2>1, <2>2
  <2>5. Filters!Decode(u)
    BY <2>3, <2>4 DEF Filters!Decode, decoded
  <2>6. Filters!Coord = Coord
    BY DEF Filters!Coord, Coord
  <2> QED
    BY <2>4, <2>5, <2>6 DEF Filters!Next
<1>2. CASE Filter
  BY <1>2, FilterImplements
<1>3. CASE UNCHANGED <<ctus, vertical, horizontal, offset>>
  BY <1>3 DEF Filters!vars, Final
<1>4. \/ CodingTreeUnit /\ StartFilters
      \/ Filter
      \/ UNCHANGED <<ctus, vertical, horizontal, offset>>
  BY DEF Next, Parse, FiltersDone, Done, IndependentSegment, DependentSegment,
         StartSliceSegmentData, NextUnit, EndOfSliceSegment, vars, sliceVars, filterVars
<1> QED
  BY <1>1, <1>2, <1>3, <1>4

(* The schedule keeps the order that samples require, whatever the size of *)
(* the picture, its slices and tiles: InLoopFilters (State.cpp 460-537).   *)
THEOREM FilterOrderKept ==
    Spec => KeepsFilterOrder
<1>1. Init => Filters!Init
  <2> SUFFICES ASSUME Init PROVE Filters!Init
    OBVIOUS
  <2>1. decoded = {} /\ vertical = {} /\ horizontal = {}
    BY DEF Init, decoded
  <2>2. ASSUME NEW u \in Coord PROVE u \notin Final
    <3>1. u \in At(u, 0, 0)
      BY CoordIsPair DEF At
    <3>2. u \in VerticalReach(u)
      BY <3>1 DEF VerticalReach
    <3>3. offset[u] = {}
      BY DEF Init
    <3>4. <<"V", u>> \in Reach(u) /\ <<"V", u>> \notin offset[u]
      BY <3>2, <3>3 DEF Reach
    <3> QED
      BY <3>4, FinalIs
  <2>3. Final = {}
    BY <2>2 DEF Final
  <2> QED
    BY <2>1, <2>3 DEF Filters!Init, decoded
<1> QED
  BY <1>1, ScheduleInit, ScheduleStep, StepImplements, PTL
     DEF Spec, KeepsFilterOrder, Filters!Spec

-------------------------------------------------------------------------------
(* The slices: the scan tables are those of the tiles, a unit's look-up    *)
(* names its slice, the contexts and the arithmetic decoder are the        *)
(* encoder's, and the filters agree on the edges between units.  The       *)
(* argument: slices are listed in the order of their first units, each     *)
(* tile lists the slices that have units in it, and as tiles follow one    *)
(* another in the scan, a unit whose tile lists nothing yet is the first   *)
(* of its tile.                                                            *)

tileAt(ts) == tileId(CoordInTs(ts))

-------------------------------------------------------------------------------
(* The tiles of the picture.                                               *)
LEMMA GeoTables ==
    ASSUME pps \in PpsChoices
    PROVE  TablesOf(geo, pps.columns.n, pps.rows.n) /\ ScanTables(geo)
BY TablesRise, TablesProper, PpsAssumption DEF geo, Geometries

LEMMA AddrOfCoord ==
    ASSUME pps \in PpsChoices, NEW a \in Addr
    PROVE  /\ CoordInTs(a) \in Coord
           /\ AddrInTs(geo.colBd, geo.rowBd, CoordInTs(a)) = a
<1>1. ScanTables(geo) /\ TablesOf(geo, pps.columns.n, pps.rows.n)
  BY GeoTables
<1>2. geo.toRs[a] \in Addr /\ geo.toTs[geo.toRs[a]] = a
  BY <1>1 DEF ScanTables
<1>3. toCoord(geo.toRs[a]) \in Coord
  BY <1>2, CoordType
<1>4. geo.toTs[geo.toRs[a]] = AddrInTs(geo.colBd, geo.rowBd, toCoord(geo.toRs[a]))
  BY <1>1, <1>2 DEF TablesOf
<1> QED
  BY <1>2, <1>3, <1>4 DEF CoordInTs

LEMMA TileAtOrdered ==
    ASSUME pps \in PpsChoices, NEW a \in Addr, NEW b \in Addr, a <= b
    PROVE  /\ tileAt(a) \in 0 .. pps.columns.n * pps.rows.n - 1
           /\ tileAt(a) <= tileAt(b)
<1>1. /\ CoordInTs(a) \in Coord /\ AddrInTs(geo.colBd, geo.rowBd, CoordInTs(a)) = a
      /\ CoordInTs(b) \in Coord /\ AddrInTs(geo.colBd, geo.rowBd, CoordInTs(b)) = b
  BY AddrOfCoord
<1>2. geo = Geometry(pps.columns, pps.rows)
  BY DEF geo, Geometries
<1>3. ProperSpacing(Width, pps.columns) /\ ProperSpacing(Height, pps.rows)
  BY PpsAssumption
<1>4. AddrInTs(geo.colBd, geo.rowBd, CoordInTs(a)) <= AddrInTs(geo.colBd, geo.rowBd, CoordInTs(b))
  BY <1>1
<1>5. /\ geo.tile[CoordInTs(a)] \in 0 .. pps.columns.n * pps.rows.n - 1
      /\ geo.tile[CoordInTs(a)] <= geo.tile[CoordInTs(b)]
  BY <1>1, <1>2, <1>3, <1>4, TilesOrdered
<1> QED
  BY <1>5 DEF tileAt, tileId

LEMMA TileAtType ==
    ASSUME pps \in PpsChoices, NEW a \in Addr
    PROVE  tileAt(a) \in 0 .. pps.columns.n * pps.rows.n - 1 /\ tileAt(a) \in Int
<1>1. a <= a
  BY SizeType DEF Addr
<1>2. tileAt(a) \in 0 .. pps.columns.n * pps.rows.n - 1
  BY <1>1, TileAtOrdered
<1>3. pps.columns.n * pps.rows.n - 1 \in Int
  BY GeoTables DEF TablesOf
<1> QED
  BY <1>2, <1>3

(* Without tiles, tile scan is raster scan.                                *)
LEMMA OneTile ==
    ASSUME pps \in PpsChoices, ~pps.tiles, NEW a \in Addr
    PROVE  /\ tileAt(a) = 0 /\ CoordInTs(a) = <<a % Width, a \div Width>>
           /\ \A u \in Coord : tileId(u) = 0 /\ Ts(u) = u[2] * Width + u[1]
<1> DEFINE cb == geo.colBd
           rb == geo.rowBd
<1>1. pps.columns.n = 1 /\ pps.rows.n = 1
  BY PpsAssumption
<1>2. TablesOf(geo, 1, 1) /\ ScanTables(geo)
  BY <1>1, GeoTables
<1>3. ASSUME NEW u \in Coord
      PROVE  tileId(u) = 0 /\ AddrInTs(cb, rb, u) = u[2] * Width + u[1]
  <2> DEFINE i == SpanAt(cb, u[1])
             j == SpanAt(rb, u[2])
  <2>1. Rising(cb, 1, Width) /\ Rising(rb, 1, Height)
    BY <1>2 DEF TablesOf
  <2>2. i \in 0 .. 0 /\ j \in 0 .. 0
    <3>1. ColumnOf(cb, u) \in 0 .. 1 - 1 /\ RowOf(rb, u) \in 0 .. 1 - 1
      BY <2>1, TileType
    <3> QED
      BY <3>1 DEF ColumnOf, RowOf
  <2>3. geo.tile[u] = j * 1 + i
    BY <1>2 DEF TablesOf, RowOf, ColumnOf
  <2>4. AddrInTs(cb, rb, u) = Width * rb[j] + (rb[j + 1] - rb[j]) * cb[i]
                              + (u[2] - rb[j]) * (cb[i + 1] - cb[i]) + u[1] - cb[i]
    BY DEF AddrInTs
  <2> HIDE DEF i, j, cb, rb
  <2>5. i = 0 /\ j = 0
    BY <2>2
  <2>6. cb[0] = 0 /\ cb[1] = Width /\ rb[0] = 0 /\ rb[1] = Height
    BY <2>1 DEF Rising
  <2>7. AddrInTs(cb, rb, u) = Width * 0 + (Height - 0) * 0 + (u[2] - 0) * (Width - 0) + u[1] - 0
    BY <2>4, <2>5, <2>6
  <2>8. u[1] \in Int /\ u[2] \in Int
    BY CoordIsPair
  <2> QED
    BY <2>3, <2>5, <2>7, <2>8, SizeType DEF tileId
<1>4. \A b \in Addr : geo.toTs[b] = b
  <2> SUFFICES ASSUME NEW b \in Addr PROVE geo.toTs[b] = b
    OBVIOUS
  <2>1. geo.toTs[b] = AddrInTs(cb, rb, toCoord(b))
    BY <1>2 DEF TablesOf
  <2>2. toCoord(b) \in Coord /\ toAddrInRs(toCoord(b)) = b
    BY CoordType
  <2> QED
    BY <1>3, <2>1, <2>2 DEF toAddrInRs
<1>5. geo.toRs[a] = a
  BY <1>2, <1>4 DEF ScanTables
<1>6. CoordInTs(a) = <<a % Width, a \div Width>>
  BY <1>5 DEF CoordInTs, toCoord
<1>7. CoordInTs(a) \in Coord
  BY <1>2, CoordInTsType
<1>8. ASSUME NEW u \in Coord PROVE Ts(u) = u[2] * Width + u[1]
  BY <1>4, AddrType DEF Ts, toAddrInRs
<1> QED
  BY <1>3, <1>6, <1>7, <1>8 DEF tileAt

(* The four coordinates of a unit in the order of the scan.                *)
LEMMA Lexicographic ==
    ASSUME NEW k1 \in Int, NEW k2 \in Int, NEW k3 \in Int, NEW k4 \in Int,
           NEW l1 \in Int, NEW l2 \in Int, NEW l3 \in Int, NEW l4 \in Int,
           NEW k, k = <<k1, k2, k3, k4>>, NEW l, l = <<l1, l2, l3, l4>>
    PROVE  (\E i \in 1 .. 4 : k[i] < l[i] /\ \A j \in 1 .. i - 1 : k[j] = l[j])
             <=> \/ k1 < l1
                 \/ k1 = l1 /\ k2 < l2
                 \/ /\ k1 = l1 /\ k2 = l2
                    /\ k3 < l3 \/ (k3 = l3 /\ k4 < l4)
<1> DEFINE P(i) == k[i] < l[i] /\ \A j \in 1 .. i - 1 : k[j] = l[j]
<1>1. /\ k[1] = k1 /\ k[2] = k2 /\ k[3] = k3 /\ k[4] = k4
      /\ l[1] = l1 /\ l[2] = l2 /\ l[3] = l3 /\ l[4] = l4
  OBVIOUS
<1>2. (\E i \in 1 .. 4 : P(i)) <=> P(1) \/ P(2) \/ P(3) \/ P(4)
  <2> HIDE DEF P
  <2>1. \A i : i \in 1 .. 4 <=> i \in {1, 2, 3, 4}
    OBVIOUS
  <2> QED
    BY <2>1
<1>3. P(1) <=> k1 < l1
  BY <1>1
<1>4. P(2) <=> k1 = l1 /\ k2 < l2
  BY <1>1
<1>5. P(3) <=> k1 = l1 /\ k2 = l2 /\ k3 < l3
  BY <1>1
<1>6. P(4) <=> k1 = l1 /\ k2 = l2 /\ k3 = l3 /\ k4 < l4
  BY <1>1
<1> HIDE DEF P
<1>7. (\E i \in 1 .. 4 : P(i))
        <=> \/ k1 < l1
            \/ k1 = l1 /\ k2 < l2
            \/ /\ k1 = l1 /\ k2 = l2
               /\ k3 < l3 \/ (k3 = l3 /\ k4 < l4)
  BY <1>2, <1>3, <1>4, <1>5, <1>6
<1> QED
  BY <1>7 DEF P

LEMMA ScansInOrder ==
    ASSUME pps \in PpsChoices
    PROVE  ScanOrder
<1> DEFINE cb == geo.colBd
           rb == geo.rowBd
           n == pps.columns.n
           m == pps.rows.n
           Key(rs) == <<SpanAt(rb, toCoord(rs)[2]), SpanAt(cb, toCoord(rs)[1]),
                        toCoord(rs)[2], toCoord(rs)[1]>>
           Precedes(k, l) ==
             \E i \in 1 .. 4 : k[i] < l[i] /\ \A j \in 1 .. i - 1 : k[j] = l[j]
<1>1. ScanTables(geo) /\ TablesOf(geo, n, m)
  BY GeoTables
<1>2. n \in Nat /\ m \in Nat /\ Rising(cb, n, Width) /\ Rising(rb, m, Height)
  BY <1>1 DEF TablesOf
<1>3. /\ cb[n] = Width /\ rb[m] = Height
      /\ \A i \in 1 .. n : cb[i - 1] < cb[i]
      /\ \A i \in 1 .. m : rb[i - 1] < rb[i]
  BY <1>2 DEF Rising
<1>4. ASSUME NEW a \in Addr, NEW b \in Addr
      PROVE  geo.toTs[a] < geo.toTs[b] <=> Precedes(Key(a), Key(b))
  <2> DEFINE u == toCoord(a)
             v == toCoord(b)
  <2>1. u \in Coord /\ v \in Coord
    BY CoordType
  <2>2. geo.toTs[a] = AddrInTs(cb, rb, u) /\ geo.toTs[b] = AddrInTs(cb, rb, v)
    BY <1>1 DEF TablesOf
  <2>3. AddrInTs(cb, rb, u) < AddrInTs(cb, rb, v) <=> FollowsInScan(cb, rb, u, v)
    BY <1>2, <2>1, OrderIs
  <2>4. u[1] \in Int /\ u[2] \in Int /\ v[1] \in Int /\ v[2] \in Int
    BY <2>1, CoordIsPair
  <2>5. SpanAt(rb, u[2]) \in Int /\ SpanAt(cb, u[1]) \in Int
    <3>1. ColumnOf(cb, u) \in 0 .. n - 1 /\ RowOf(rb, u) \in 0 .. m - 1
      BY <1>2, <2>1, TileType
    <3> QED
      BY <3>1 DEF ColumnOf, RowOf
  <2>6. SpanAt(rb, v[2]) \in Int /\ SpanAt(cb, v[1]) \in Int
    <3>1. ColumnOf(cb, v) \in 0 .. n - 1 /\ RowOf(rb, v) \in 0 .. m - 1
      BY <1>2, <2>1, TileType
    <3> QED
      BY <3>1 DEF ColumnOf, RowOf
  <2> HIDE DEF u, v, cb, rb
  <2>7. Precedes(<<SpanAt(rb, u[2]), SpanAt(cb, u[1]), u[2], u[1]>>,
                 <<SpanAt(rb, v[2]), SpanAt(cb, v[1]), v[2], v[1]>>)
          <=> \/ SpanAt(rb, u[2]) < SpanAt(rb, v[2])
              \/ SpanAt(rb, u[2]) = SpanAt(rb, v[2]) /\ SpanAt(cb, u[1]) < SpanAt(cb, v[1])
              \/ /\ SpanAt(rb, u[2]) = SpanAt(rb, v[2]) /\ SpanAt(cb, u[1]) = SpanAt(cb, v[1])
                 /\ u[2] < v[2] \/ (u[2] = v[2] /\ u[1] < v[1])
    BY <2>4, <2>5, <2>6, Lexicographic
  <2> QED
    BY <2>2, <2>3, <2>7 DEF FollowsInScan, ColumnOf, RowOf, u, v
<1> HIDE DEF n, m, cb, rb
<1> QED
  BY <1>1, <1>3, <1>4 DEF ScanOrder, n, m, cb, rb

-------------------------------------------------------------------------------
(* The invariant.                                                          *)
InList(k, list) == \E j \in 1 .. Len(list) : list[j] = k
Started == pc \in {"data", "ctu"}
newest == Len(slices)

FlagSet == HeaderFlags \cup {NoFlags}
HeaderSet == [dependent : BOOLEAN, address : Addr, sliceAddr : Addr, flags : FlagSet]
SliceSet == [rs : Addr, ts : Addr, segments : Seq(HeaderSet)]
Contexts == [slice : Nat, learned : SUBSET Nat]
UnitSet == [slice : Nat, segment : Nat, flags : FlagSet, contexts : Contexts]
SliceTypes ==
    /\ slices \in Seq(SliceSet)
    /\ ssh \in HeaderSet
    /\ tileSlices \in [0 .. pps.columns.n * pps.rows.n - 1 -> Seq(Nat)]
    /\ coded \in Seq(UnitSet)
    /\ enc \in [slice : Nat, segment : Nat, flags : FlagSet, sliceStart : Nat, segmentStart : Nat]
    /\ cabac \in Contexts /\ saved \in [{"WPP", "DSS"} -> Contexts]
    /\ ctbAddrInTs \in Addr /\ firstInSegment \in Addr
    /\ engine \in {"aligned", "running"}

SlicesInv ==
    /\ enc.slice = newest
    /\ newest = 0 => pc = "header" /\ coded = <<>>
    /\ \A k \in 1 .. newest : slices[k].rs = geo.toRs[slices[k].ts] /\ slices[k].ts <= Len(coded)
    /\ ~Started => \A k \in 1 .. newest : slices[k].ts < Len(coded)
    /\ \A k, l \in 1 .. newest : k < l => slices[k].ts < slices[l].ts
    /\ \A ts \in Parsed :
        /\ Of(ts).slice \in 1 .. newest /\ slices[Of(ts).slice].ts <= ts
        /\ \A l \in 1 .. newest : Of(ts).slice < l => ts < slices[l].ts

TilesInv ==
    /\ \A t \in DOMAIN tileSlices : \A i \in 1 .. Len(tileSlices[t]) :
        /\ tileSlices[t][i] \in 1 .. newest
        /\ \A j \in 1 .. Len(tileSlices[t]) : i < j => tileSlices[t][i] < tileSlices[t][j]
    /\ \A k \in 1 .. newest : InList(k, tileSlices[tileAt(slices[k].ts)])
    /\ \A ts \in Parsed : InList(Of(ts).slice, tileSlices[tileAt(ts)])
    /\ \A t \in DOMAIN tileSlices : tileSlices[t] # <<>> =>
        \/ \E ts \in Parsed : tileAt(ts) = t
        \/ Started /\ slices[newest].ts = Len(coded) /\ tileAt(Len(coded)) = t

AtFirst == pc = "data" \/ (pc = "ctu" /\ isFirstInSegment)
SegmentInv ==
    /\ pc \in {"data", "ctu", "filter", "endFlag"} => ssh.sliceAddr = slices[newest].rs
    /\ AtFirst => (ssh.dependent <=> slices[newest].ts # Len(coded))
    /\ pc \in {"ctu", "filter", "endFlag"} => firstInSegment <= ctbAddrInTs
    /\ pc = "ctu" /\ ~isFirstInSegment => slices[newest].ts < Len(coded)

EngineInv ==
    /\ pc \in {"filter", "endFlag"} => engine = "running"
    /\ pc = "ctu" => (engine = "aligned" <=> isFirstInSegment \/ EndsSubStream(ctbAddrInTs))

After(t) == [Of(t).contexts EXCEPT !.learned = @ \cup {t}]
Fresh(ts) == [slice |-> Of(ts).slice, learned |-> {}]
Above(ts) == ts - Width + 1
Expected(ts) ==
    IF StartsTile(ts) THEN Fresh(ts)
    ELSE IF StartsRow(ts)
         THEN IF Above(ts) >= 0 /\ CoordInTs(ts)[1] + 1 < Width /\ Of(Above(ts)).slice = Of(ts).slice
              THEN After(Above(ts)) ELSE Fresh(ts)
    ELSE IF Of(ts - 1).slice # Of(ts).slice THEN Fresh(ts)
    ELSE After(ts - 1)
Finished == IF pc \in {"filter", "endFlag"} THEN Len(coded) - 1 ELSE Len(coded)
ContextInv ==
    /\ \A ts \in Parsed : Of(ts).contexts = Expected(ts)
    /\ coded # <<>> => cabac = After(Len(coded) - 1)
    /\ coded # <<>> /\ (pc = "header" \/ AtFirst) => saved["DSS"] = cabac
    /\ pps.sync => \A m \in 0 .. Finished - 1 :
        m % Width = 1 /\ Finished <= m + Width => saved["WPP"] = After(m)

FlagsInv ==
    /\ \A ts \in Parsed : /\ slices[Of(ts).slice].segments # <<>>
                          /\ slices[Of(ts).slice].segments[1].flags = Of(ts).flags
    /\ newest # 0 /\ slices[newest].segments # <<>> => slices[newest].segments[1].flags = enc.flags
    /\ pc = "data" => ssh.flags = enc.flags
    /\ pc \in {"ctu", "filter", "endFlag"} => slices[newest].segments # <<>>

SaoCrossed(u, adj) == <<"sao", u, adj>> \in crossed
DeblockCrossed(u, adj) == <<"deblock", u, adj>> \in crossed
CrossedInv ==
    /\ \A u \in Coord, adj \in Coord : SaoCrossed(u, adj) => offset[u] # {}
    /\ \A u \in Coord : offset[u] # {} => \A adj \in Around(u) \cap Coord :
        /\ Ts(u) < Len(coded) /\ Ts(adj) < Len(coded)
        /\ SaoCrossed(u, adj) <=> FlagsOf(u).sao /\ Open(u, adj)
    /\ \A u \in vertical : \A left \in At(u, -1, 0) :
        DeblockCrossed(u, left) <=> FlagsOf(u).deblock /\ Open(u, left)
    /\ \A u \in horizontal : \A above \in At(u, 0, -1) :
        DeblockCrossed(u, above) <=> FlagsOf(u).deblock /\ Open(u, above)
    /\ \A u \in Coord, adj \in Coord : DeblockCrossed(u, adj) =>
         \/ adj \in At(u, -1, 0) /\ u \in vertical
         \/ adj \in At(u, 0, -1) /\ u \in horizontal

SliceInv ==
    SliceTypes /\ SlicesInv /\ TilesInv /\ SegmentInv /\ EngineInv /\ ContextInv /\ FlagsInv

-------------------------------------------------------------------------------
(* Looking up the slice of a unit.                                         *)
LEMMA SliceFields ==
    ASSUME SliceTypes
    PROVE  /\ newest \in Nat /\ DOMAIN slices = 1 .. newest
           /\ \A k \in 1 .. newest :
                /\ slices[k] \in SliceSet
                /\ slices[k].rs \in Addr /\ slices[k].ts \in Addr /\ slices[k].ts \in Int
<1>1. slices \in Seq(SliceSet)
  BY DEF SliceTypes
<1>2. /\ newest \in Nat /\ DOMAIN slices = 1 .. newest
      /\ \A k \in 1 .. newest : slices[k] \in SliceSet
  BY <1>1 DEF newest
<1>3. \A a \in Addr : a \in Int
  BY SizeType DEF Addr
<1> QED
  BY <1>2, <1>3 DEF SliceSet

LEMMA UnitFields ==
    ASSUME SliceTypes, UnitsInv
    PROVE  /\ Len(coded) \in Nat /\ Len(coded) = Len(ctus) /\ Len(coded) <= Width * Height
           /\ \A ts \in Parsed :
                /\ ts \in Addr /\ ts \in Nat /\ ts < Len(coded)
                /\ Of(ts) \in UnitSet /\ Of(ts).slice \in Nat
<1>1. /\ Len(coded) \in Nat /\ \A i \in 1 .. Len(coded) : coded[i] \in UnitSet
  BY DEF SliceTypes
<1>2. Len(coded) = Len(ctus) /\ Len(ctus) <= Width * Height /\ Width * Height \in Nat
  BY SizeType DEF UnitsInv
<1>3. ASSUME NEW ts \in Parsed
      PROVE  ts \in Addr /\ ts \in Nat /\ ts < Len(coded) /\ ts + 1 \in 1 .. Len(coded)
  BY <1>1, <1>2 DEF Parsed, Addr
<1>4. ASSUME NEW ts \in Parsed PROVE Of(ts) \in UnitSet
  BY <1>1, <1>3 DEF Of
<1> QED
  BY <1>1, <1>2, <1>3, <1>4 DEF UnitSet

LEMMA MinIs ==
    ASSUME NEW S \in SUBSET Int, NEW m \in S, \A y \in S : m <= y
    PROVE  Min(S) = m
<1>1. \A x \in S : (\A y \in S : x =< y) <=> x = m
  OBVIOUS
<1> QED
  BY <1>1 DEF Min

LEMMA FindSliceIs ==
    ASSUME SliceTypes, SlicesInv, TilesInv, NEW t \in DOMAIN tileSlices, NEW ts \in Int,
           NEW k \in 1 .. newest, InList(k, tileSlices[t]), slices[k].ts <= ts,
           \A l \in 1 .. newest : k < l => ts < slices[l].ts
    PROVE  findSlice(t, ts) = k
<1> DEFINE list == tileSlices[t]
           later == {i \in DOMAIN list : slices[list[i]].ts > ts}
<1>0. list \in Seq(Nat)
  BY DEF SliceTypes
<1>1. list \in Seq(Nat) /\ DOMAIN list = 1 .. Len(list) /\ Len(list) \in Nat
  <2> HIDE DEF list
  <2> QED
    BY <1>0
<1>2. /\ \A i \in 1 .. Len(list) : list[i] \in 1 .. newest
      /\ \A i, j \in 1 .. Len(list) : i < j => list[i] < list[j]
  BY DEF TilesInv
<1>3. PICK j \in 1 .. Len(list) : list[j] = k
  BY DEF InList
<1> HIDE DEF list
<1>4. /\ \A l \in 1 .. newest : slices[l].ts \in Int
      /\ \A l \in 1 .. newest : l < k => slices[l].ts < slices[k].ts
  BY SliceFields DEF SlicesInv
<1>5. ASSUME NEW i \in 1 .. Len(list) PROVE slices[list[i]].ts > ts <=> i > j
  <2>1. list[i] \in 1 .. newest /\ slices[list[i]].ts \in Int /\ slices[k].ts \in Int
    BY <1>2, <1>4
  <2>2. i > j => list[i] > k
    BY <1>1, <1>2, <1>3
  <2>3. i < j => list[i] < k
    BY <1>1, <1>2, <1>3
  <2>4. i < j \/ i = j \/ i > j
    BY <1>1
  <2>5. CASE i > j
    <3>1. ts < slices[list[i]].ts
      BY <2>1, <2>2, <2>5
    <3> QED
      BY <2>1, <2>5, <3>1
  <2>6. CASE i = j
    BY <1>1, <1>3, <2>1, <2>6
  <2>7. CASE i < j
    <3>1. slices[list[i]].ts < slices[k].ts
      BY <1>4, <2>1, <2>3, <2>7
    <3> QED
      BY <1>1, <2>1, <2>7, <3>1
  <2> QED
    BY <2>4, <2>5, <2>6, <2>7
<1>6. later = (j + 1) .. Len(list)
  BY <1>1, <1>5
<1> HIDE DEF later
<1>7. Min(later \cup {Len(list) + 1}) = j + 1
  <2>1. later \cup {Len(list) + 1} = (j + 1) .. (Len(list) + 1)
    BY <1>1, <1>6
  <2>2. /\ later \cup {Len(list) + 1} \in SUBSET Int /\ j + 1 \in later \cup {Len(list) + 1}
        /\ \A y \in later \cup {Len(list) + 1} : j + 1 <= y
    BY <1>1, <2>1
  <2> QED
    BY <2>2, MinIs, Zenon
<1>8. findSlice(t, ts) = LET at == Min(later \cup {Len(list) + 1}) - 1
                         IN  IF at = 0 THEN 0 ELSE list[at]
  BY DEF findSlice, list, later
<1>9. (j + 1) - 1 = j /\ j # 0
  BY <1>1
<1> QED
  BY <1>3, <1>7, <1>8, <1>9

LEMMA LookUps ==
    ASSUME UnitsInv, SliceTypes, SlicesInv, TilesInv
    PROVE  /\ \A ts \in Parsed : sliceAt(CoordInTs(ts)) = Of(ts).slice
           /\ \A k \in 1 .. newest : sliceAt(toCoord(slices[k].rs)) = k
<1>1. pps \in PpsChoices /\ ScanTables(geo)
  BY TablesGood DEF UnitsInv
<1>2. DOMAIN tileSlices = 0 .. pps.columns.n * pps.rows.n - 1
  BY DEF SliceTypes
<1>3. ASSUME NEW ts \in Addr PROVE sliceAt(CoordInTs(ts)) = findSlice(tileAt(ts), ts)
  <2>1. Ts(CoordInTs(ts)) = ts
    BY <1>1, CoordInTsType
  <2> QED
    BY <2>1 DEF sliceAt, tileAt, Ts
<1>4. ASSUME NEW ts \in Parsed PROVE sliceAt(CoordInTs(ts)) = Of(ts).slice
  <2>1. ts \in Addr /\ ts \in Int /\ Of(ts).slice \in 1 .. newest
    BY UnitFields DEF SlicesInv
  <2>2. tileAt(ts) \in DOMAIN tileSlices /\ InList(Of(ts).slice, tileSlices[tileAt(ts)])
    BY <1>1, <1>2, <2>1, TileAtType DEF TilesInv
  <2>3. /\ slices[Of(ts).slice].ts <= ts
        /\ \A l \in 1 .. newest : Of(ts).slice < l => ts < slices[l].ts
    BY DEF SlicesInv
  <2>4. findSlice(tileAt(ts), ts) = Of(ts).slice
    BY <2>1, <2>2, <2>3, FindSliceIs
  <2> QED
    BY <1>3, <2>1, <2>4
<1>5. ASSUME NEW k \in 1 .. newest PROVE sliceAt(toCoord(slices[k].rs)) = k
  <2> DEFINE ts == slices[k].ts
  <2>1. ts \in Addr /\ ts \in Int /\ toCoord(slices[k].rs) = CoordInTs(ts)
    BY SliceFields DEF SlicesInv, CoordInTs
  <2>2. tileAt(ts) \in DOMAIN tileSlices /\ InList(k, tileSlices[tileAt(ts)])
    BY <1>1, <1>2, <2>1, TileAtType DEF TilesInv
  <2>3. slices[k].ts <= ts /\ \A l \in 1 .. newest : k < l => ts < slices[l].ts
    BY <2>1 DEF SlicesInv
  <2> HIDE DEF ts
  <2>4. findSlice(tileAt(ts), ts) = k
    BY <2>1, <2>2, <2>3, FindSliceIs
  <2> QED
    BY <1>3, <2>1, <2>4
<1> QED
  BY <1>4, <1>5

(* At the header of a slice segment, the unit it names is the next one.    *)
LEMMA HeaderAddress ==
    ASSUME ScheduleInv, pc = "header"
    PROVE  /\ SegmentAddress \in Addr /\ SegmentAddress = geo.toRs[Len(coded)]
           /\ geo.toTs[SegmentAddress] = Len(coded) /\ Len(coded) \in Addr
           /\ toCoord(SegmentAddress) = CoordInTs(Len(coded))
<1>1. ScanTables(geo) /\ Len(coded) \in Addr
  BY TablesGood DEF ScheduleInv, UnitsInv, ControlInv
<1> QED
  BY <1>1 DEF SegmentAddress, ScanTables, CoordInTs

-------------------------------------------------------------------------------
(* The types of the variables.                                             *)
LEMMA TypesIndependent ==
    ASSUME ScheduleInv, SliceTypes, IndependentSegment
    PROVE  SliceTypes'
<1>1. SegmentAddress \in Addr /\ Len(coded) \in Addr /\ Len(coded) \in Nat
  BY HeaderAddress, UnitFields DEF IndependentSegment, ScheduleInv
<1>2. geo.toTs[SegmentAddress] \in Addr
  BY <1>1, HeaderAddress DEF IndependentSegment
<1>3. PICK flags \in HeaderFlags :
        /\ ssh' = Header(FALSE, flags)
        /\ enc' = [slice |-> enc.slice + 1, segment |-> enc.segment + 1, flags |-> flags,
                   sliceStart |-> Len(coded), segmentStart |-> Len(coded)]
  BY DEF IndependentSegment
<1>4. ssh' \in HeaderSet
  BY <1>1, <1>3 DEF Header, calcSliceAddrRs, HeaderSet, FlagSet
<1>5. enc' \in [slice : Nat, segment : Nat, flags : FlagSet, sliceStart : Nat, segmentStart : Nat]
  <2>1. enc.slice + 1 \in Nat /\ enc.segment + 1 \in Nat
    BY DEF SliceTypes
  <2> QED
    BY <1>1, <1>3, <2>1 DEF FlagSet
<1>6. slices' \in Seq(SliceSet)
  <2>1. <<>> \in Seq(HeaderSet)
    OBVIOUS
  <2>2. [rs |-> SegmentAddress, ts |-> geo.toTs[SegmentAddress], segments |-> <<>>] \in SliceSet
    BY <1>1, <1>2, <2>1 DEF SliceSet
  <2>3. slices' = Append(slices, [rs |-> SegmentAddress, ts |-> geo.toTs[SegmentAddress],
                                  segments |-> <<>>])
    BY DEF IndependentSegment, AddSlice
  <2>4. slices \in Seq(SliceSet)
    BY DEF SliceTypes
  <2> QED
    BY <2>2, <2>3, <2>4
<1>7. tileSlices' \in [0 .. pps.columns.n * pps.rows.n - 1 -> Seq(Nat)]
  <2>1. PICK tile : tileSlices' = [tileSlices EXCEPT ![tile] = Append(@, Len(slices) + 1)]
    BY DEF IndependentSegment, AddSlice
  <2>2. Len(slices) + 1 \in Nat /\ tileSlices \in [0 .. pps.columns.n * pps.rows.n - 1 -> Seq(Nat)]
    BY SliceFields DEF SliceTypes, newest
  <2>3. \A list \in Seq(Nat) : Append(list, Len(slices) + 1) \in Seq(Nat)
    BY <2>2
  <2> QED
    BY <2>1, <2>2, <2>3
<1>8. UNCHANGED <<pps, coded, cabac, saved, ctbAddrInTs, firstInSegment, engine>>
  BY DEF IndependentSegment
<1> QED
  BY <1>4, <1>5, <1>6, <1>7, <1>8 DEF SliceTypes

LEMMA TypesDependent ==
    ASSUME ScheduleInv, SliceTypes, SlicesInv, TilesInv, DependentSegment
    PROVE  /\ SliceTypes' /\ ssh'.sliceAddr = slices[newest].rs
           /\ ssh'.flags = enc.flags /\ ssh'.dependent = TRUE
<1>1. /\ SegmentAddress \in Addr /\ Len(coded) \in Addr /\ Len(coded) \in Nat
      /\ geo.toTs[SegmentAddress] = Len(coded) /\ coded # <<>>
  BY HeaderAddress, UnitFields DEF DependentSegment, ScheduleInv
<1>2. Len(coded) - 1 \in Parsed /\ newest \in Nat
  <2>1. Len(coded) # 0
    BY <1>1 DEF SliceTypes
  <2> QED
    BY <1>1, <2>1, SliceFields DEF Parsed
<1>3. sliceAt(CoordInTs(Len(coded) - 1)) = Of(Len(coded) - 1).slice
  BY <1>2, LookUps DEF ScheduleInv
<1>4. Of(Len(coded) - 1).slice = newest
  <2> DEFINE k == Of(Len(coded) - 1).slice
  <2>1. k \in 1 .. newest /\ \A l \in 1 .. newest : k < l => Len(coded) - 1 < slices[l].ts
    BY <1>2 DEF SlicesInv
  <2>2. newest \in 1 .. newest /\ slices[newest].ts < Len(coded) /\ slices[newest].ts \in Int
    BY <1>2, <2>1, SliceFields DEF SlicesInv, DependentSegment, Started
  <2> HIDE DEF k
  <2>3. ~(k < newest)
    BY <1>1, <2>1, <2>2
  <2>4. k = newest
    BY <1>2, <2>1, <2>3
  <2> QED
    BY <2>4 DEF k
<1>5. /\ calcSliceAddrRs(TRUE) = slices[newest].rs /\ slices[newest].rs \in Addr
  <2>1. newest \in 1 .. newest
    BY <1>2, <1>4 DEF SlicesInv
  <2> QED
    BY <1>1, <1>3, <1>4, <2>1, SliceFields DEF calcSliceAddrRs
<1>6. ssh' = [dependent |-> TRUE, address |-> SegmentAddress,
              sliceAddr |-> slices[newest].rs, flags |-> enc.flags]
  BY <1>5 DEF DependentSegment, Header
<1>7. enc.flags \in FlagSet /\ enc.segment + 1 \in Nat
  BY DEF SliceTypes
<1>8. ssh' \in HeaderSet
  BY <1>1, <1>5, <1>6, <1>7 DEF HeaderSet
<1>9. enc' \in [slice : Nat, segment : Nat, flags : FlagSet, sliceStart : Nat, segmentStart : Nat]
  <2>1. enc' = [enc EXCEPT !.segment = @ + 1, !.segmentStart = Len(coded)]
    BY DEF DependentSegment
  <2> QED
    BY <1>1, <1>7, <2>1 DEF SliceTypes
<1>10. UNCHANGED <<pps, slices, tileSlices, coded, cabac, saved, ctbAddrInTs, firstInSegment, engine>>
  BY DEF DependentSegment
<1> QED
  BY <1>6, <1>8, <1>9, <1>10 DEF SliceTypes

LEMMA TypesStart ==
    ASSUME ScheduleInv, SliceTypes, StartSliceSegmentData, newest # 0
    PROVE  /\ SliceTypes' /\ newest' = newest
           /\ \A k \in 1 .. newest : slices'[k].rs = slices[k].rs /\ slices'[k].ts = slices[k].ts
           /\ \A k \in 1 .. newest - 1 : slices'[k] = slices[k]
           /\ slices'[newest].segments = Append(slices[newest].segments, ssh)
<1> DEFINE joined == [slices[newest] EXCEPT !.segments = Append(@, ssh)]
<1>1. /\ newest \in 1 .. newest /\ newest \in Nat /\ slices \in Seq(SliceSet)
      /\ \A k \in 1 .. newest : slices[k] \in SliceSet
  BY SliceFields DEF SliceTypes
<1>2. slices' = [slices EXCEPT ![newest] = joined]
  BY DEF StartSliceSegmentData, newest
<1>3. /\ joined \in SliceSet /\ joined.rs = slices[newest].rs /\ joined.ts = slices[newest].ts
      /\ joined.segments = Append(slices[newest].segments, ssh)
  <2>1. slices[newest] \in SliceSet /\ ssh \in HeaderSet
    BY <1>1 DEF SliceTypes
  <2>2. Append(slices[newest].segments, ssh) \in Seq(HeaderSet)
    BY <2>1 DEF SliceSet
  <2> QED
    BY <2>1, <2>2 DEF SliceSet
<1> HIDE DEF joined
<1>4. slices' \in Seq(SliceSet) /\ newest' = newest
  BY <1>1, <1>2, <1>3 DEF newest
<1>5. ASSUME NEW k \in 1 .. newest
      PROVE  slices'[k] = IF k = newest THEN joined ELSE slices[k]
  BY <1>1, <1>2 DEF newest
<1>6. geo.toTs[ssh.address] \in Addr
  BY TablesGood DEF ScheduleInv, UnitsInv, SliceTypes, HeaderSet, ScanTables
<1>7. SliceTypes'
  <2>1. /\ UNCHANGED <<pps, tileSlices, coded, ssh, enc, cabac, saved>> /\ engine' = "aligned"
        /\ ctbAddrInTs' \in Addr /\ firstInSegment' \in Addr
    BY <1>6 DEF StartSliceSegmentData
  <2> QED
    BY <1>4, <2>1 DEF SliceTypes
<1>8. \A k \in 1 .. newest : slices'[k].rs = slices[k].rs /\ slices'[k].ts = slices[k].ts
  BY <1>3, <1>5
<1>9. \A k \in 1 .. newest - 1 : slices'[k] = slices[k]
  <2> SUFFICES ASSUME NEW k \in 1 .. newest - 1 PROVE slices'[k] = slices[k]
    OBVIOUS
  <2>1. k \in 1 .. newest /\ k # newest
    BY <1>1
  <2> QED
    BY <1>5, <2>1
<1>10. slices'[newest].segments = Append(slices[newest].segments, ssh)
  BY <1>1, <1>3, <1>5
<1> QED
  BY <1>4, <1>7, <1>8, <1>9, <1>10

-------------------------------------------------------------------------------
(* A unit takes part in the lists of slices and units.                     *)
LEMMA NewestHere ==
    ASSUME ScheduleInv, SliceTypes, SlicesInv, SegmentInv, pc = "ctu"
    PROVE  /\ newest \in 1 .. newest /\ newest \in Nat /\ ctbAddrInTs = Len(coded)
           /\ Len(coded) \in Addr /\ Len(coded) \in Nat
           /\ slices[newest].ts \in Addr /\ slices[newest].ts \in Int
           /\ slices[newest].ts <= Len(coded)
           /\ ssh.sliceAddr = slices[newest].rs
<1>1. newest \in Nat /\ newest # 0
  BY SliceFields DEF SlicesInv
<1>2. newest \in 1 .. newest
  BY <1>1
<1>3. ctbAddrInTs = Len(coded) /\ Len(coded) \in Addr /\ Len(coded) \in Nat
  BY UnitFields DEF ScheduleInv, UnitsInv, ControlInv
<1> QED
  BY <1>1, <1>2, <1>3, SliceFields DEF SlicesInv, SegmentInv

LEMMA TypesCtu ==
    ASSUME ScheduleInv, SliceTypes, SlicesInv, TilesInv, SegmentInv, CodingTreeUnit
    PROVE  /\ SliceTypes' /\ initialized = [slice |-> newest, learned |-> {}]
           /\ Len(coded)' = Len(coded) + 1
           /\ \A ts \in Parsed : Of(ts)' = Of(ts)
           /\ coded'[Len(coded) + 1] = [slice |-> newest, segment |-> enc.segment,
                                        flags |-> enc.flags, contexts |-> contexts]
<1>1. /\ newest \in 1 .. newest /\ newest \in Nat /\ ctbAddrInTs = Len(coded)
      /\ Len(coded) \in Addr /\ Len(coded) \in Nat /\ ssh.sliceAddr = slices[newest].rs
  BY NewestHere DEF CodingTreeUnit
<1>2. sliceAt(toCoord(slices[newest].rs)) = newest
  BY <1>1, LookUps DEF ScheduleInv
<1>3. initialized = [slice |-> newest, learned |-> {}]
  BY <1>1, <1>2 DEF initialized
<1>4. contexts \in Contexts
  <2>1. Point \in {"initialize", "WPP", "DSS", "continue"}
    BY DEF Point
  <2>2. initialized \in Contexts
    BY <1>1, <1>3 DEF Contexts
  <2>3. cabac \in Contexts /\ saved["WPP"] \in Contexts /\ saved["DSS"] \in Contexts
    BY DEF SliceTypes
  <2> QED
    BY <2>1, <2>2, <2>3 DEF contexts
<1>5. cabac' \in Contexts
  <2>1. cabac' = [contexts EXCEPT !.learned = @ \cup {ctbAddrInTs}]
    BY DEF CodingTreeUnit
  <2> QED
    BY <1>1, <1>4, <2>1 DEF Contexts
<1> DEFINE unit == [slice |-> newest, segment |-> enc.segment,
                    flags |-> enc.flags, contexts |-> contexts]
<1>6. unit \in UnitSet /\ coded' = Append(coded, unit) /\ coded \in Seq(UnitSet)
  <2>1. enc.segment \in Nat /\ enc.flags \in FlagSet /\ enc.slice = newest
    BY DEF SliceTypes, SlicesInv
  <2> QED
    BY <1>1, <1>4, <2>1 DEF UnitSet, CodingTreeUnit, SliceTypes
<1> HIDE DEF unit
<1>7. /\ coded' \in Seq(UnitSet) /\ Len(coded') = Len(coded) + 1
      /\ coded'[Len(coded) + 1] = unit
      /\ \A i \in 1 .. Len(coded) : coded'[i] = coded[i]
  BY <1>6
<1>8. tileSlices' \in [0 .. pps.columns.n * pps.rows.n - 1 -> Seq(Nat)]
  <2>1. PICK tile : tileSlices' = [tileSlices EXCEPT ![tile] = IF @ = <<>> THEN <<Len(slices)>> ELSE @]
    BY DEF CodingTreeUnit, AddCtu
  <2>2. <<Len(slices)>> \in Seq(Nat)
    BY <1>1 DEF newest
  <2> QED
    BY <2>1, <2>2 DEF SliceTypes
<1>9. SliceTypes'
  <2>1. UNCHANGED <<pps, slices, ssh, ctbAddrInTs, firstInSegment, saved, enc>> /\ engine' = "running"
    BY DEF CodingTreeUnit
  <2> QED
    BY <1>5, <1>7, <1>8, <2>1 DEF SliceTypes
<1>10. ASSUME NEW ts \in Parsed PROVE Of(ts)' = Of(ts)
  <2>1. ts + 1 \in 1 .. Len(coded)
    BY <1>1 DEF Parsed
  <2> QED
    BY <1>7, <2>1 DEF Of
<1> QED
  BY <1>3, <1>7, <1>9, <1>10 DEF unit

(* The steps that leave the lists of slices and units alone.               *)
LEMMA TypesAfter ==
    ASSUME ScheduleInv, SliceTypes, NextUnit \/ EndOfSliceSegment
    PROVE  SliceTypes'
<1>1. StoreWpp \in [{"WPP", "DSS"} -> Contexts]
  BY DEF StoreWpp, SliceTypes
<1>2. saved' \in [{"WPP", "DSS"} -> Contexts]
  <2>1. saved' = StoreWpp \/ saved' = [StoreWpp EXCEPT !["DSS"] = cabac]
    BY DEF NextUnit, EndOfSliceSegment
  <2> QED
    BY <1>1, <2>1 DEF SliceTypes
<1>3. ctbAddrInTs' \in Addr /\ engine' \in {"aligned", "running"}
  <2>1. CASE NextUnit
    BY <2>1 DEF NextUnit, SliceTypes
  <2>2. CASE EndOfSliceSegment
    BY <2>2 DEF EndOfSliceSegment, SliceTypes
  <2> QED
    BY <2>1, <2>2
<1>4. UNCHANGED <<pps, slices, ssh, tileSlices, coded, enc, cabac, firstInSegment>>
  BY DEF NextUnit, EndOfSliceSegment
<1> QED
  BY <1>2, <1>3, <1>4 DEF SliceTypes

-------------------------------------------------------------------------------
(* The slices, in the order of their first units.                          *)
SameSlices ==
    /\ newest' = newest
    /\ \A k \in 1 .. newest : slices'[k].rs = slices[k].rs /\ slices'[k].ts = slices[k].ts

LEMMA SlicesKept ==
    ASSUME SlicesInv, SameSlices, UNCHANGED <<pps, coded>>, enc'.slice = enc.slice,
           newest # 0, Started' \/ ~Started
    PROVE  SlicesInv'
<1>1. geo' = geo /\ Parsed' = Parsed
  BY DEF geo, Parsed
<1>2. \A ts : Of(ts)' = Of(ts)
  BY DEF Of
<1>3. enc'.slice = newest' /\ (newest' = 0 => pc' = "header" /\ coded' = <<>>)
  BY DEF SlicesInv, SameSlices
<1>4. /\ \A k \in 1 .. newest' : slices'[k].rs = geo'.toRs[slices'[k].ts] /\ slices'[k].ts <= Len(coded')
      /\ ~Started' => \A k \in 1 .. newest' : slices'[k].ts < Len(coded')
  BY <1>1 DEF SlicesInv, SameSlices
<1>5. \A k, l \in 1 .. newest' : k < l => slices'[k].ts < slices'[l].ts
  BY DEF SlicesInv, SameSlices
<1>6. \A ts \in Parsed' :
        /\ Of(ts)'.slice \in 1 .. newest' /\ slices'[Of(ts)'.slice].ts <= ts
        /\ \A l \in 1 .. newest' : Of(ts)'.slice < l => ts < slices'[l].ts
  BY <1>1, <1>2 DEF SlicesInv, SameSlices
<1> QED
  BY <1>3, <1>4, <1>5, <1>6 DEF SlicesInv

LEMMA SlicesIndependent ==
    ASSUME ScheduleInv, SliceTypes, SlicesInv, IndependentSegment
    PROVE  /\ SlicesInv' /\ newest \in Nat /\ newest' = newest + 1 /\ Len(coded) \in Addr
           /\ slices'[newest + 1] = [rs |-> geo.toRs[Len(coded)], ts |-> Len(coded), segments |-> <<>>]
           /\ \A k \in 1 .. newest : slices'[k] = slices[k]
<1>1. /\ SegmentAddress = geo.toRs[Len(coded)] /\ geo.toTs[SegmentAddress] = Len(coded)
      /\ Len(coded) \in Addr /\ Len(coded) \in Int /\ ~Started
  BY HeaderAddress, UnitFields DEF IndependentSegment, Started, ScheduleInv
<1> DEFINE added == [rs |-> geo.toRs[Len(coded)], ts |-> Len(coded), segments |-> <<>>]
<1>2. slices' = Append(slices, added) /\ slices \in Seq(SliceSet)
  BY <1>1 DEF IndependentSegment, AddSlice, SliceTypes
<1>3. added.rs = geo.toRs[Len(coded)] /\ added.ts = Len(coded)
  OBVIOUS
<1> HIDE DEF added
<1>4. /\ newest \in Nat /\ newest' = newest + 1 /\ slices'[newest + 1] = added
      /\ \A k \in 1 .. newest : slices'[k] = slices[k]
  BY <1>2 DEF newest
<1>5. UNCHANGED <<pps, coded>> /\ geo' = geo /\ Parsed' = Parsed /\ pc' = "data"
  BY DEF IndependentSegment, geo, Parsed
<1>6. \A ts : Of(ts)' = Of(ts)
  BY <1>5 DEF Of
<1>7. enc'.slice = newest'
  BY <1>4 DEF IndependentSegment, SlicesInv
<1>8. \A k \in 1 .. newest' : k \in 1 .. newest \/ k = newest + 1
  BY <1>4
<1>9. \A k \in 1 .. newest : slices[k].ts < Len(coded) /\ slices[k].ts \in Int
  BY <1>1, SliceFields DEF SlicesInv
<1>10. \A k \in 1 .. newest' : slices'[k].rs = geo'.toRs[slices'[k].ts] /\ slices'[k].ts <= Len(coded')
  <2> SUFFICES ASSUME NEW k \in 1 .. newest'
               PROVE  slices'[k].rs = geo'.toRs[slices'[k].ts] /\ slices'[k].ts <= Len(coded')
    OBVIOUS
  <2>1. CASE k = newest + 1
    BY <1>1, <1>3, <1>4, <1>5, <2>1
  <2>2. CASE k \in 1 .. newest
    BY <1>4, <1>5, <2>2 DEF SlicesInv
  <2> QED
    BY <1>8, <2>1, <2>2
<1>11. \A k, l \in 1 .. newest' : k < l => slices'[k].ts < slices'[l].ts
  <2> SUFFICES ASSUME NEW k \in 1 .. newest', NEW l \in 1 .. newest', k < l
               PROVE  slices'[k].ts < slices'[l].ts
    OBVIOUS
  <2>1. k \in 1 .. newest
    BY <1>4
  <2>2. CASE l = newest + 1
    BY <1>3, <1>4, <1>9, <2>1, <2>2
  <2>3. CASE l \in 1 .. newest
    BY <1>4, <2>1, <2>3 DEF SlicesInv
  <2> QED
    BY <1>8, <2>2, <2>3
<1>12. \A ts \in Parsed' :
        /\ Of(ts)'.slice \in 1 .. newest' /\ slices'[Of(ts)'.slice].ts <= ts
        /\ \A l \in 1 .. newest' : Of(ts)'.slice < l => ts < slices'[l].ts
  <2> SUFFICES ASSUME NEW ts \in Parsed
               PROVE  /\ Of(ts).slice \in 1 .. newest' /\ slices'[Of(ts).slice].ts <= ts
                      /\ \A l \in 1 .. newest' : Of(ts).slice < l => ts < slices'[l].ts
    BY <1>5, <1>6
  <2>1. /\ Of(ts).slice \in 1 .. newest /\ slices[Of(ts).slice].ts <= ts
        /\ \A l \in 1 .. newest : Of(ts).slice < l => ts < slices[l].ts
    BY DEF SlicesInv
  <2>2. Of(ts).slice \in 1 .. newest' /\ slices'[Of(ts).slice].ts <= ts
    BY <1>4, <2>1
  <2>3. ts < Len(coded)
    BY <1>1 DEF Parsed
  <2>4. ASSUME NEW l \in 1 .. newest', Of(ts).slice < l PROVE ts < slices'[l].ts
    <3>1. CASE l = newest + 1
      BY <1>3, <1>4, <2>3, <3>1
    <3>2. CASE l \in 1 .. newest
      BY <1>4, <2>1, <2>4, <3>2
    <3> QED
      BY <1>8, <3>1, <3>2
  <2> QED
    BY <2>2, <2>4
<1>13. SlicesInv'
  <2>1. newest' # 0 /\ Started'
    BY <1>4, <1>5 DEF Started
  <2> QED
    BY <1>7, <1>10, <1>11, <1>12, <2>1 DEF SlicesInv
<1> QED
  BY <1>1, <1>4, <1>13 DEF added

LEMMA SlicesCtu ==
    ASSUME ScheduleInv, SliceTypes, SlicesInv, TilesInv, SegmentInv, CodingTreeUnit
    PROVE  SlicesInv'
<1>1. /\ newest \in 1 .. newest /\ newest \in Nat /\ ctbAddrInTs = Len(coded)
      /\ Len(coded) \in Addr /\ Len(coded) \in Nat
      /\ slices[newest].ts \in Int /\ slices[newest].ts <= Len(coded)
  BY NewestHere DEF CodingTreeUnit
<1>2. /\ Len(coded') = Len(coded) + 1 /\ coded'[Len(coded) + 1].slice = newest
      /\ \A ts \in Parsed : Of(ts)' = Of(ts)
  BY TypesCtu
<1>3. UNCHANGED <<pps, slices, enc>> /\ newest' = newest /\ geo' = geo
  BY DEF CodingTreeUnit, newest, geo
<1>4. \A ts \in Parsed' : ts = Len(coded) => Of(ts)'.slice = newest
  BY <1>2 DEF Of
<1>5. \A ts \in Parsed' : ts \in Parsed \/ ts = Len(coded)
  BY <1>1, <1>2 DEF Parsed
<1>6. \A k \in 1 .. newest : slices[k].ts <= Len(coded) /\ slices[k].ts \in Int
  BY SliceFields DEF SlicesInv
<1>7. ASSUME NEW ts \in Parsed'
      PROVE  /\ Of(ts)'.slice \in 1 .. newest /\ slices[Of(ts)'.slice].ts <= ts
             /\ \A l \in 1 .. newest : Of(ts)'.slice < l => ts < slices[l].ts
  <2>1. CASE ts \in Parsed
    BY <1>2, <2>1 DEF SlicesInv
  <2>2. CASE ts = Len(coded)
    BY <1>1, <1>4, <2>2
  <2> QED
    BY <1>5, <2>1, <2>2
<1>8. enc'.slice = newest' /\ (newest' = 0 => pc' = "header" /\ coded' = <<>>)
  BY <1>1, <1>3 DEF SlicesInv
<1>9. /\ \A k \in 1 .. newest' : slices'[k].rs = geo'.toRs[slices'[k].ts] /\ slices'[k].ts <= Len(coded')
      /\ \A k \in 1 .. newest' : slices'[k].ts < Len(coded')
  BY <1>1, <1>2, <1>3, <1>6 DEF SlicesInv
<1>10. \A k, l \in 1 .. newest' : k < l => slices'[k].ts < slices'[l].ts
  BY <1>3 DEF SlicesInv
<1>11. \A ts \in Parsed' :
        /\ Of(ts)'.slice \in 1 .. newest' /\ slices'[Of(ts)'.slice].ts <= ts
        /\ \A l \in 1 .. newest' : Of(ts)'.slice < l => ts < slices'[l].ts
  BY <1>3, <1>7
<1> QED
  BY <1>8, <1>9, <1>10, <1>11 DEF SlicesInv

(* Every other step leaves the slices' first units, and the units, alone.  *)
Quiet ==
    \/ DependentSegment \/ StartSliceSegmentData \/ NextUnit \/ EndOfSliceSegment
    \/ Filter \/ FiltersDone \/ UNCHANGED vars

LEMMA SlicesExist ==
    ASSUME SliceTypes, SlicesInv, pc # "header" \/ coded # <<>>
    PROVE  newest \in 1 .. newest /\ newest # 0 /\ newest \in Nat
<1>1. newest \in Nat /\ newest # 0
  BY SliceFields DEF SlicesInv
<1> QED
  BY <1>1

LEMMA StepSplit ==
    ASSUME [Next]_vars
    PROVE  IndependentSegment \/ CodingTreeUnit \/ Quiet
BY DEF Next, Parse, Quiet, Done

LEMMA QuietKeeps ==
    ASSUME ScheduleInv, SliceTypes, SlicesInv, Quiet
    PROVE  /\ SameSlices /\ UNCHANGED <<pps, coded, tileSlices>> /\ enc'.slice = enc.slice
           /\ ~StartSliceSegmentData => UNCHANGED slices
           /\ ~DependentSegment => UNCHANGED <<enc, ssh>>
<1>1. CASE StartSliceSegmentData
  <2>1. newest # 0
    BY <1>1, SlicesExist DEF StartSliceSegmentData
  <2>2. SameSlices
    BY <1>1, <2>1, TypesStart DEF SameSlices
  <2> QED
    BY <1>1, <2>2 DEF StartSliceSegmentData
<1>2. CASE DependentSegment
  <2>1. enc' = [enc EXCEPT !.segment = @ + 1, !.segmentStart = Len(coded)]
        /\ UNCHANGED <<pps, slices, tileSlices, coded>>
    BY <1>2 DEF DependentSegment
  <2>2. enc'.slice = enc.slice
    BY <2>1 DEF SliceTypes
  <2> QED
    BY <1>2, <2>1, <2>2 DEF SameSlices, newest
<1>3. CASE NextUnit \/ EndOfSliceSegment
  BY <1>3 DEF NextUnit, EndOfSliceSegment, SameSlices, newest
<1>4. CASE Filter \/ FiltersDone \/ UNCHANGED vars
  BY <1>4 DEF Filter, FiltersDone, vars, sliceVars, SameSlices, newest
<1> QED
  BY <1>1, <1>2, <1>3, <1>4 DEF Quiet

LEMMA TypesStep ==
    ASSUME ScheduleInv, SliceTypes, SlicesInv, TilesInv, SegmentInv, [Next]_vars
    PROVE  SliceTypes'
<1>1. CASE StartSliceSegmentData
  <2>1. newest # 0
    BY <1>1, SlicesExist DEF StartSliceSegmentData
  <2> QED
    BY <1>1, <2>1, TypesStart
<1>2. CASE Filter \/ FiltersDone \/ UNCHANGED vars
  BY <1>2 DEF Filter, FiltersDone, vars, sliceVars, SliceTypes
<1> QED
  BY <1>1, <1>2, StepSplit, TypesIndependent, TypesDependent, TypesCtu, TypesAfter DEF Quiet

LEMMA SlicesStep ==
    ASSUME ScheduleInv, SliceTypes, SlicesInv, TilesInv, SegmentInv, [Next]_vars
    PROVE  SlicesInv'
<1>1. CASE Quiet
  <2>1. SameSlices /\ UNCHANGED <<pps, coded>> /\ enc'.slice = enc.slice
    BY <1>1, QuietKeeps
  <2>2. CASE UNCHANGED vars
    BY <2>2, <2>1 DEF vars, sliceVars, SlicesInv, newest, Started, geo, Parsed, Of
  <2>3. CASE ~UNCHANGED vars
    <3>1. newest # 0
      BY <1>1, <2>3, SlicesExist DEF Quiet, DependentSegment, StartSliceSegmentData, NextUnit,
         EndOfSliceSegment, Filter, FiltersDone
    <3>2. Started' \/ ~Started
      BY <1>1, <2>3 DEF Quiet, DependentSegment, StartSliceSegmentData, NextUnit,
         EndOfSliceSegment, Filter, FiltersDone, Started, sliceVars
    <3> QED
      BY <2>1, <3>1, <3>2, SlicesKept
  <2> QED
    BY <2>2, <2>3
<1> QED
  BY <1>1, StepSplit, SlicesIndependent, SlicesCtu

-------------------------------------------------------------------------------
(* The lists of the tiles.                                                 *)
LEMMA QuietStarted ==
    ASSUME Quiet
    PROVE  Started' \/ ~Started
BY DEF Quiet, DependentSegment, StartSliceSegmentData, NextUnit, EndOfSliceSegment, Filter,
   FiltersDone, Started, sliceVars, vars

LEMMA TileAtKept ==
    ASSUME UNCHANGED pps
    PROVE  \A ts : tileAt(ts)' = tileAt(ts)
BY DEF tileAt, tileId, CoordInTs, geo

LEMMA TilesQuiet ==
    ASSUME ScheduleInv, SliceTypes, SlicesInv, TilesInv, Quiet
    PROVE  TilesInv'
<1>1. SameSlices /\ UNCHANGED <<pps, coded, tileSlices>>
  BY QuietKeeps
<1>2. newest' = newest /\ Parsed' = Parsed /\ \A ts : Of(ts)' = Of(ts) /\ tileAt(ts)' = tileAt(ts)
  BY <1>1, TileAtKept DEF SameSlices, Parsed, Of
<1>3. \A t \in DOMAIN tileSlices' : \A i \in 1 .. Len(tileSlices'[t]) :
        /\ tileSlices'[t][i] \in 1 .. newest'
        /\ \A j \in 1 .. Len(tileSlices'[t]) : i < j => tileSlices'[t][i] < tileSlices'[t][j]
  BY <1>1, <1>2 DEF TilesInv
<1>4. ASSUME NEW k \in 1 .. newest' PROVE InList(k, tileSlices[tileAt(slices[k].ts)])'
  <2>1. slices'[k].ts = slices[k].ts /\ k \in 1 .. newest
    BY <1>1, <1>2 DEF SameSlices
  <2>2. tileAt(slices[k].ts)' = tileAt(slices[k].ts)
    BY <1>1, <2>1 DEF tileAt, tileId, CoordInTs, geo
  <2> QED
    BY <1>1, <2>1, <2>2 DEF TilesInv, InList
<1>5. \A ts \in Parsed' : InList(Of(ts).slice, tileSlices[tileAt(ts)])'
  BY <1>1, <1>2 DEF TilesInv, InList
<1>6. ASSUME NEW t \in DOMAIN tileSlices', tileSlices'[t] # <<>>
      PROVE  \/ \E ts \in Parsed' : tileAt(ts)' = t
             \/ Started' /\ slices'[newest'].ts = Len(coded') /\ tileAt(Len(coded))' = t
  <2>1. CASE \E ts \in Parsed : tileAt(ts) = t
    BY <1>2, <2>1
  <2>2. CASE Started /\ slices[newest].ts = Len(coded) /\ tileAt(Len(coded)) = t
    <3>1. pc # "header"
      BY <2>2 DEF Started
    <3>2. newest \in 1 .. newest
      BY <3>1, SlicesExist
    <3>3. tileAt(Len(coded))' = tileAt(Len(coded))
      BY <1>1 DEF tileAt, tileId, CoordInTs, geo
    <3> QED
      BY <1>1, <1>2, <2>2, <3>2, <3>3, QuietStarted DEF SameSlices
  <2> QED
    BY <1>1, <1>6, <2>1, <2>2 DEF TilesInv
<1> QED
  BY <1>3, <1>4, <1>5, <1>6 DEF TilesInv

LEMMA TilesIndependent ==
    ASSUME ScheduleInv, SliceTypes, SlicesInv, TilesInv, IndependentSegment
    PROVE  TilesInv'
<1> DEFINE tile == tileAt(Len(coded))
           list == tileSlices[tile]
<1>1. /\ newest \in Nat /\ newest' = newest + 1 /\ Len(coded) \in Addr
      /\ slices'[newest + 1] = [rs |-> geo.toRs[Len(coded)], ts |-> Len(coded), segments |-> <<>>]
      /\ \A k \in 1 .. newest : slices'[k] = slices[k]
  BY SlicesIndependent
<1>2. /\ UNCHANGED <<pps, coded>> /\ ~Started /\ Started'
  BY DEF IndependentSegment, Started
<1>3. Parsed' = Parsed /\ \A ts : Of(ts)' = Of(ts) /\ tileAt(ts)' = tileAt(ts)
  BY <1>2, TileAtKept DEF Parsed, Of
<1>4. tileSlices' = [tileSlices EXCEPT ![tile] = Append(list, newest + 1)]
  <2>1. toCoord(SegmentAddress) = CoordInTs(Len(coded))
    BY HeaderAddress DEF IndependentSegment
  <2> QED
    BY <2>1 DEF IndependentSegment, AddSlice, tileAt, newest
<1>5. tile \in DOMAIN tileSlices /\ \A t \in DOMAIN tileSlices : tileSlices[t] \in Seq(Nat)
  <2>1. tile \in 0 .. pps.columns.n * pps.rows.n - 1
    BY <1>1, TileAtType DEF ScheduleInv, UnitsInv
  <2> QED
    BY <2>1 DEF SliceTypes
<1>6. /\ DOMAIN tileSlices' = DOMAIN tileSlices /\ tileSlices'[tile] = Append(list, newest + 1)
      /\ \A t \in DOMAIN tileSlices : t # tile => tileSlices'[t] = tileSlices[t]
  BY <1>4, <1>5
<1>7. /\ list \in Seq(Nat) /\ Len(list) \in Nat /\ Len(tileSlices'[tile]) = Len(list) + 1
      /\ tileSlices'[tile][Len(list) + 1] = newest + 1
      /\ \A i \in 1 .. Len(list) : tileSlices'[tile][i] = list[i]
  <2>1. list \in Seq(Nat)
    BY <1>5
  <2> HIDE DEF list
  <2> QED
    BY <1>1, <1>6, <2>1
<1>8. \A t \in DOMAIN tileSlices : \A k : InList(k, tileSlices[t]) => InList(k, tileSlices'[t])
  <2> SUFFICES ASSUME NEW k, InList(k, list) PROVE InList(k, tileSlices'[tile])
    BY <1>6
  <2>1. PICK j \in 1 .. Len(list) : list[j] = k
    BY DEF InList
  <2>2. j \in 1 .. Len(tileSlices'[tile])
    BY <1>7
  <2> QED
    BY <1>7, <2>1, <2>2 DEF InList
<1>9. ASSUME NEW t \in DOMAIN tileSlices', NEW i \in 1 .. Len(tileSlices'[t])
      PROVE  /\ tileSlices'[t][i] \in 1 .. newest'
             /\ \A j \in 1 .. Len(tileSlices'[t]) : i < j => tileSlices'[t][i] < tileSlices'[t][j]
  <2>1. CASE t # tile
    <3>1. /\ tileSlices[t][i] \in 1 .. newest
          /\ \A j \in 1 .. Len(tileSlices[t]) : i < j => tileSlices[t][i] < tileSlices[t][j]
      BY <1>6, <2>1 DEF TilesInv
    <3> QED
      BY <1>1, <1>6, <2>1, <3>1
  <2>2. CASE t = tile
    <3> HIDE DEF list, tile
    <3>1. /\ \A j \in 1 .. Len(list) : list[j] \in 1 .. newest
          /\ \A j, k \in 1 .. Len(list) : j < k => list[j] < list[k]
      BY <1>5 DEF TilesInv, list
    <3>2. i \in 1 .. Len(list) + 1
      BY <1>7, <2>2
    <3>3. CASE i = Len(list) + 1
      BY <1>1, <1>7, <2>2, <3>3
    <3>4. CASE i \in 1 .. Len(list)
      <4>1. tileSlices'[t][i] = list[i] /\ list[i] \in 1 .. newest
        BY <1>7, <2>2, <3>1, <3>4
      <4>2. ASSUME NEW j \in 1 .. Len(tileSlices'[t]), i < j
            PROVE  tileSlices'[t][i] < tileSlices'[t][j]
        <5>1. j \in 1 .. Len(list) \/ j = Len(list) + 1
          BY <1>7, <2>2
        <5>2. CASE j = Len(list) + 1
          BY <1>1, <1>7, <2>2, <4>1, <5>2
        <5>3. CASE j \in 1 .. Len(list)
          BY <1>7, <2>2, <3>1, <3>4, <4>1, <4>2, <5>3
        <5> QED
          BY <5>1, <5>2, <5>3
      <4> QED
        BY <1>1, <4>1, <4>2
    <3> QED
      BY <1>7, <3>2, <3>3, <3>4
  <2> QED
    BY <2>1, <2>2
<1>10. ASSUME NEW k \in 1 .. newest' PROVE InList(k, tileSlices'[tileAt(slices'[k].ts)])
  <2>1. CASE k = newest + 1
    <3>1. Len(list) + 1 \in 1 .. Len(tileSlices'[tile])
      BY <1>7
    <3>2. InList(k, tileSlices'[tile])
      BY <1>7, <2>1, <3>1 DEF InList
    <3> QED
      BY <1>1, <2>1, <3>2
  <2>2. CASE k \in 1 .. newest
    <3>1. InList(k, tileSlices[tileAt(slices[k].ts)])
      BY <2>2 DEF TilesInv
    <3>2. tileAt(slices[k].ts) \in DOMAIN tileSlices
      BY <2>2, SliceFields, TileAtType DEF SliceTypes, ScheduleInv, UnitsInv
    <3> QED
      BY <1>1, <1>8, <2>2, <3>1, <3>2
  <2> QED
    BY <1>1, <2>1, <2>2
<1>11. ASSUME NEW ts \in Parsed PROVE InList(Of(ts).slice, tileSlices'[tileAt(ts)])
  <2>1. ts \in Addr
    BY UnitFields DEF ScheduleInv
  <2>2. tileAt(ts) \in DOMAIN tileSlices /\ InList(Of(ts).slice, tileSlices[tileAt(ts)])
    BY <2>1, TileAtType DEF TilesInv, SliceTypes, ScheduleInv, UnitsInv
  <2> QED
    BY <1>8, <2>2
<1>12. ASSUME NEW t \in DOMAIN tileSlices', tileSlices'[t] # <<>>
       PROVE  \/ \E ts \in Parsed' : tileAt(ts)' = t
              \/ Started' /\ slices'[newest'].ts = Len(coded') /\ tileAt(Len(coded))' = t
  <2>1. CASE t # tile
    BY <1>2, <1>3, <1>6, <1>12, <2>1 DEF TilesInv
  <2>2. CASE t = tile
    <3>1. tileAt(Len(coded))' = tile
      BY <1>2 DEF tileAt, tileId, CoordInTs, geo
    <3> QED
      BY <1>1, <1>2, <2>2, <3>1
  <2> QED
    BY <2>1, <2>2
<1> HIDE DEF tile, list
<1>13. ASSUME NEW k \in 1 .. newest' PROVE InList(k, tileSlices[tileAt(slices[k].ts)])'
  <2>1. tileAt(slices[k].ts)' = tileAt(slices'[k].ts)
    BY <1>2 DEF tileAt, tileId, CoordInTs, geo
  <2> QED
    BY <1>10, <2>1 DEF InList
<1>14. \A ts \in Parsed' : InList(Of(ts).slice, tileSlices[tileAt(ts)])'
  BY <1>3, <1>11 DEF InList
<1> QED
  BY <1>9, <1>12, <1>13, <1>14 DEF TilesInv

(* If the tile of a unit lists a slice before the unit, it lists the slice *)
(* the unit belongs to.                                                    *)
LEMMA NewestListed ==
    ASSUME ScheduleInv, SliceTypes, SlicesInv, TilesInv, SegmentInv, pc = "ctu",
           tileSlices[tileAt(Len(coded))] # <<>>
    PROVE  InList(newest, tileSlices[tileAt(Len(coded))])
<1>1. /\ newest \in 1 .. newest /\ newest \in Nat
      /\ Len(coded) \in Addr /\ Len(coded) \in Nat
      /\ slices[newest].ts \in Int /\ slices[newest].ts <= Len(coded)
  BY NewestHere
<1>2. CASE slices[newest].ts = Len(coded)
  BY <1>1, <1>2 DEF TilesInv
<1>3. CASE slices[newest].ts < Len(coded)
  <2> DEFINE tile == tileAt(Len(coded))
  <2>0. pps \in PpsChoices
    BY DEF ScheduleInv, UnitsInv
  <2>1. tile \in DOMAIN tileSlices
    BY <1>1, <2>0, TileAtType DEF SliceTypes
  <2>2. slices[newest].ts # Len(coded)
    BY <1>1, <1>3
  <2>3. PICK ts \in Parsed : tileAt(ts) = tile
    BY <2>1, <2>2 DEF TilesInv
  <2>4. /\ ts \in Addr /\ Len(coded) - 1 \in Parsed /\ ts <= Len(coded) - 1
        /\ Len(coded) - 1 <= Len(coded)
    BY <1>1, <2>3, UnitFields DEF Parsed, ScheduleInv
  <2>5. Len(coded) - 1 \in Addr
    BY <2>4, UnitFields DEF ScheduleInv
  <2>6. tileAt(ts) <= tileAt(Len(coded) - 1) /\ tileAt(Len(coded) - 1) <= tile
    BY <1>1, <2>0, <2>4, <2>5, TileAtOrdered
  <2>7. tileAt(Len(coded) - 1) \in Int /\ tile \in Int
    BY <1>1, <2>0, <2>5, TileAtType
  <2>8. tileAt(Len(coded) - 1) = tile
    BY <2>3, <2>6, <2>7
  <2>9. Of(Len(coded) - 1).slice = newest
    <3> DEFINE k == Of(Len(coded) - 1).slice
    <3>1. k \in 1 .. newest /\ \A l \in 1 .. newest : k < l => Len(coded) - 1 < slices[l].ts
      BY <2>4 DEF SlicesInv
    <3> HIDE DEF k
    <3>2. ~(k < newest)
      BY <1>1, <1>3, <3>1
    <3>3. k = newest
      BY <1>1, <3>1, <3>2
    <3> QED
      BY <3>3 DEF k
  <2>10. InList(Of(Len(coded) - 1).slice, tileSlices[tileAt(Len(coded) - 1)])
    BY <2>4 DEF TilesInv
  <2> QED
    BY <2>8, <2>9, <2>10
<1> QED
  BY <1>1, <1>2, <1>3

LEMMA TilesCtu ==
    ASSUME ScheduleInv, SliceTypes, SlicesInv, TilesInv, SegmentInv, CodingTreeUnit
    PROVE  TilesInv'
<1> DEFINE tile == tileAt(Len(coded))
           list == tileSlices[tile]
<1>1. /\ newest \in 1 .. newest /\ newest \in Nat /\ ctbAddrInTs = Len(coded)
      /\ Len(coded) \in Addr /\ Len(coded) \in Nat
  BY NewestHere DEF CodingTreeUnit
<1>2. UNCHANGED <<pps, slices>> /\ newest' = newest
  BY DEF CodingTreeUnit, newest
<1>3. \A ts : tileAt(ts)' = tileAt(ts)
  BY <1>2, TileAtKept
<1>4. tileSlices' = [tileSlices EXCEPT ![tile] = IF list = <<>> THEN <<newest>> ELSE list]
  BY <1>1 DEF CodingTreeUnit, AddCtu, newest, tileAt
<1>5. tile \in DOMAIN tileSlices
  BY <1>1, TileAtType DEF SliceTypes, ScheduleInv, UnitsInv
<1>6. /\ Len(coded') = Len(coded) + 1 /\ coded'[Len(coded) + 1].slice = newest
      /\ \A ts \in Parsed : Of(ts)' = Of(ts)
  BY TypesCtu
<1>7. /\ \A ts \in Parsed' : ts \in Parsed \/ ts = Len(coded)
      /\ Len(coded) \in Parsed' /\ \A ts \in Parsed : ts \in Parsed'
      /\ \A ts \in Parsed' : ts = Len(coded) => Of(ts)'.slice = newest
  BY <1>1, <1>6 DEF Parsed, Of
<1>8. /\ DOMAIN tileSlices' = DOMAIN tileSlices
      /\ \A t \in DOMAIN tileSlices : t # tile => tileSlices'[t] = tileSlices[t]
      /\ list = <<>> => tileSlices'[tile] = <<newest>>
      /\ list # <<>> => tileSlices'[tile] = list
  BY <1>4, <1>5
<1>9. list # <<>> => InList(newest, list)
  BY NewestListed DEF CodingTreeUnit
<1>10. InList(newest, <<newest>>)
  <2>1. 1 \in 1 .. Len(<<newest>>) /\ <<newest>>[1] = newest
    OBVIOUS
  <2> QED
    BY <2>1 DEF InList
<1>11. InList(newest, tileSlices'[tile])
  BY <1>8, <1>9, <1>10
<1>12. \A t \in DOMAIN tileSlices : \A k : InList(k, tileSlices[t]) => InList(k, tileSlices'[t])
  <2>1. \A k : ~InList(k, <<>>)
    BY DEF InList
  <2> QED
    BY <1>8, <2>1
<1>13. ASSUME NEW t \in DOMAIN tileSlices', NEW i \in 1 .. Len(tileSlices'[t])
       PROVE  /\ tileSlices'[t][i] \in 1 .. newest'
              /\ \A j \in 1 .. Len(tileSlices'[t]) : i < j => tileSlices'[t][i] < tileSlices'[t][j]
  <2>1. CASE t = tile /\ list = <<>>
    BY <1>1, <1>2, <1>8, <2>1
  <2>2. CASE ~(t = tile /\ list = <<>>)
    BY <1>2, <1>8, <2>2 DEF TilesInv
  <2> QED
    BY <2>1, <2>2
<1> HIDE DEF list
<1>14. ASSUME NEW k \in 1 .. newest' PROVE InList(k, tileSlices[tileAt(slices[k].ts)])'
  <2>1. k \in 1 .. newest /\ tileAt(slices[k].ts)' = tileAt(slices[k].ts)
    BY <1>2 DEF tileAt, tileId, CoordInTs, geo
  <2>2. InList(k, tileSlices[tileAt(slices[k].ts)])
    BY <2>1 DEF TilesInv
  <2>3. tileAt(slices[k].ts) \in DOMAIN tileSlices
    BY <2>1, SliceFields, TileAtType DEF SliceTypes, ScheduleInv, UnitsInv
  <2>4. InList(k, tileSlices'[tileAt(slices[k].ts)])
    BY <1>12, <2>2, <2>3
  <2> QED
    BY <2>1, <2>4 DEF InList
<1>15. ASSUME NEW ts \in Parsed' PROVE InList(Of(ts).slice, tileSlices[tileAt(ts)])'
  <2>1. InList(Of(ts)'.slice, tileSlices'[tileAt(ts)])
    <3>1. CASE ts = Len(coded)
      BY <1>7, <1>11, <3>1
    <3>2. CASE ts \in Parsed
      <4>1. tileAt(ts) \in DOMAIN tileSlices /\ InList(Of(ts).slice, tileSlices[tileAt(ts)])
        BY <3>2, UnitFields, TileAtType DEF TilesInv, SliceTypes, ScheduleInv, UnitsInv
      <4> QED
        BY <1>6, <1>12, <3>2, <4>1
    <3> QED
      BY <1>7, <3>1, <3>2
  <2> QED
    BY <1>3, <2>1 DEF InList
<1>16. ASSUME NEW t \in DOMAIN tileSlices', tileSlices'[t] # <<>>
       PROVE  \E ts \in Parsed' : tileAt(ts)' = t
  <2>1. CASE t = tile
    BY <1>3, <1>7, <2>1
  <2>2. CASE t # tile
    <3> HIDE DEF tile
    <3>1. \/ \E ts \in Parsed : tileAt(ts) = t
          \/ tileAt(Len(coded)) = t
      BY <1>8, <1>16, <2>2 DEF TilesInv
    <3> QED
      BY <1>3, <1>7, <2>2, <3>1 DEF tile
  <2> QED
    BY <2>1, <2>2
<1> QED
  BY <1>13, <1>14, <1>15, <1>16 DEF TilesInv

LEMMA TilesStep ==
    ASSUME ScheduleInv, SliceTypes, SlicesInv, TilesInv, SegmentInv, [Next]_vars
    PROVE  TilesInv'
BY StepSplit, TilesQuiet, TilesIndependent, TilesCtu

-------------------------------------------------------------------------------
(* The segment being parsed.                                               *)
LEMMA SegmentStep ==
    ASSUME ScheduleInv, SliceTypes, SlicesInv, TilesInv, SegmentInv, [Next]_vars
    PROVE  SegmentInv'
<1>1. CASE IndependentSegment
  <2>1. /\ newest' = newest + 1 /\ slices'[newest + 1].rs = geo.toRs[Len(coded)]
        /\ slices'[newest + 1].ts = Len(coded)
    BY <1>1, SlicesIndependent
  <2>2. SegmentAddress = geo.toRs[Len(coded)]
    BY <1>1, HeaderAddress DEF IndependentSegment
  <2>3. PICK flags : ssh' = Header(FALSE, flags)
    BY <1>1 DEF IndependentSegment
  <2>4. ssh'.dependent = FALSE /\ ssh'.sliceAddr = slices'[newest'].rs
    BY <2>1, <2>2, <2>3 DEF Header, calcSliceAddrRs
  <2>5. pc' = "data" /\ coded' = coded
    BY <1>1 DEF IndependentSegment
  <2> QED
    BY <2>1, <2>4, <2>5 DEF SegmentInv, AtFirst
<1>2. CASE DependentSegment
  <2>1. ssh'.sliceAddr = slices[newest].rs /\ ssh'.dependent = TRUE
    BY <1>2, TypesDependent
  <2>2. newest \in 1 .. newest
    BY <1>2, SlicesExist DEF DependentSegment
  <2>3. slices[newest].ts < Len(coded) /\ slices[newest].ts \in Int /\ Len(coded) \in Int
    BY <1>2, <2>2, SliceFields, UnitFields DEF SlicesInv, DependentSegment, Started, ScheduleInv
  <2>4. pc' = "data" /\ UNCHANGED <<coded, slices>> /\ newest' = newest
    BY <1>2 DEF DependentSegment, newest
  <2> QED
    BY <2>1, <2>3, <2>4 DEF SegmentInv, AtFirst
<1>3. CASE StartSliceSegmentData
  <2>1. newest \in 1 .. newest /\ newest # 0
    BY <1>3, SlicesExist DEF StartSliceSegmentData
  <2>2. /\ newest' = newest /\ slices'[newest].rs = slices[newest].rs
        /\ slices'[newest].ts = slices[newest].ts
    BY <1>3, <2>1, TypesStart
  <2>3. /\ pc = "data" /\ pc' = "ctu" /\ UNCHANGED <<ssh, coded>>
        /\ ctbAddrInTs' = firstInSegment' /\ firstInSegment' = geo.toTs[ssh.address]
    BY <1>3 DEF StartSliceSegmentData
  <2>4. firstInSegment' <= ctbAddrInTs'
    <3>1. firstInSegment' \in Addr
      BY <1>3, <2>1, TypesStart DEF SliceTypes
    <3> QED
      BY <2>3, <3>1, SizeType DEF Addr
  <2> QED
    BY <2>2, <2>3, <2>4 DEF SegmentInv, AtFirst, isFirstInSegment
<1>4. CASE CodingTreeUnit
  <2>1. /\ pc = "ctu" /\ pc' = "filter" /\ newest' = newest
        /\ UNCHANGED <<slices, ssh, ctbAddrInTs, firstInSegment>>
    BY <1>4 DEF CodingTreeUnit, newest
  <2> QED
    BY <2>1 DEF SegmentInv, AtFirst
<1>5. CASE NextUnit
  <2>1. /\ pc = "endFlag" /\ pc' = "ctu" /\ newest' = newest /\ ctbAddrInTs' = ctbAddrInTs + 1
        /\ UNCHANGED <<slices, ssh, firstInSegment, coded>>
    BY <1>5 DEF NextUnit, newest
  <2>2. firstInSegment <= ctbAddrInTs /\ firstInSegment \in Int /\ ctbAddrInTs \in Int
    BY <2>1, SizeType DEF SegmentInv, SliceTypes, Addr
  <2>3. firstInSegment' < ctbAddrInTs'
    BY <2>1, <2>2
  <2>4. ~isFirstInSegment'
    BY <2>1, <2>2 DEF isFirstInSegment
  <2>5. newest \in 1 .. newest
    BY <2>1, SlicesExist
  <2>6. slices[newest].ts < Len(coded)
    BY <2>1, <2>5 DEF SlicesInv, Started
  <2>7. firstInSegment' <= ctbAddrInTs'
    BY <2>1, <2>2
  <2> QED
    BY <2>1, <2>4, <2>6, <2>7 DEF SegmentInv, AtFirst
<1>6. CASE EndOfSliceSegment
  <2>1. pc' \in {"header", "done"}
    BY <1>6 DEF EndOfSliceSegment
  <2> QED
    BY <2>1 DEF SegmentInv, AtFirst
<1>7. CASE Filter \/ FiltersDone \/ UNCHANGED vars
  <2>1. /\ UNCHANGED <<slices, ssh, firstInSegment, ctbAddrInTs, coded>> /\ newest' = newest
        /\ pc' = pc \/ (pc = "filter" /\ pc' = "endFlag")
    BY <1>7 DEF Filter, FiltersDone, vars, sliceVars, newest
  <2> QED
    BY <2>1 DEF SegmentInv, AtFirst, isFirstInSegment
<1> QED
  BY <1>1, <1>2, <1>3, <1>4, <1>5, <1>6, <1>7, StepSplit DEF Quiet

-------------------------------------------------------------------------------
(* The arithmetic decoder.                                                 *)
LEMMA EngineStep ==
    ASSUME ScheduleInv, SliceTypes, SlicesInv, SegmentInv, EngineInv, [Next]_vars
    PROVE  EngineInv'
<1>1. CASE StartSliceSegmentData
  BY <1>1 DEF StartSliceSegmentData, EngineInv, isFirstInSegment
<1>2. CASE CodingTreeUnit
  BY <1>2 DEF CodingTreeUnit, EngineInv
<1>3. CASE NextUnit
  <2>1. firstInSegment <= ctbAddrInTs /\ firstInSegment \in Int /\ ctbAddrInTs \in Int
    BY <1>3, SizeType DEF SegmentInv, SliceTypes, Addr, NextUnit
  <2>2. /\ pc' = "ctu" /\ engine = "running" /\ UNCHANGED <<firstInSegment, pps>>
        /\ ctbAddrInTs' = ctbAddrInTs + 1
        /\ engine' = IF EndsSubStream(ctbAddrInTs + 1) THEN "aligned" ELSE engine
    BY <1>3 DEF NextUnit, EngineInv
  <2>3. ~isFirstInSegment'
    BY <2>1, <2>2 DEF isFirstInSegment
  <2>4. EndsSubStream(ctbAddrInTs)' = EndsSubStream(ctbAddrInTs + 1)
    BY <2>2 DEF EndsSubStream, tileBoundary, wppBoundary, StartsTile, tileId, CoordInTs, geo
  <2> QED
    BY <2>2, <2>3, <2>4 DEF EngineInv
<1>4. CASE IndependentSegment \/ DependentSegment \/ EndOfSliceSegment
  <2>1. pc' \in {"header", "data", "done"}
    BY <1>4 DEF IndependentSegment, DependentSegment, EndOfSliceSegment
  <2> QED
    BY <2>1 DEF EngineInv
<1>5. CASE Filter \/ FiltersDone \/ UNCHANGED vars
  <2>1. /\ UNCHANGED <<engine, firstInSegment, ctbAddrInTs, pps>>
        /\ pc' = pc \/ (pc = "filter" /\ pc' = "endFlag")
    BY <1>5 DEF Filter, FiltersDone, vars, sliceVars
  <2>2. EndsSubStream(ctbAddrInTs)' = EndsSubStream(ctbAddrInTs)
    BY <2>1 DEF EndsSubStream, tileBoundary, wppBoundary, StartsTile, tileId, CoordInTs, geo
  <2> QED
    BY <2>1, <2>2 DEF EngineInv, isFirstInSegment
<1> QED
  BY <1>1, <1>2, <1>3, <1>4, <1>5, StepSplit DEF Quiet

-------------------------------------------------------------------------------
(* The unit being parsed and, with wavefronts, the one above it.           *)
LEMMA LastSlice ==
    ASSUME ScheduleInv, SliceTypes, SlicesInv, coded # <<>>
    PROVE  /\ Len(coded) - 1 \in Parsed /\ Len(coded) - 1 \in Addr
           /\ Of(Len(coded) - 1).slice = newest <=> slices[newest].ts < Len(coded)
<1>1. newest \in 1 .. newest /\ newest \in Nat
  BY SlicesExist
<1>2. Len(coded) \in Nat /\ Len(coded) # 0
  BY UnitFields DEF ScheduleInv, SliceTypes
<1>3. Len(coded) - 1 \in Parsed
  BY <1>2 DEF Parsed
<1>4. Len(coded) - 1 \in Addr
  BY <1>3, UnitFields DEF ScheduleInv
<1> DEFINE k == Of(Len(coded) - 1).slice
<1>5. /\ k \in 1 .. newest /\ slices[k].ts <= Len(coded) - 1
      /\ \A l \in 1 .. newest : k < l => Len(coded) - 1 < slices[l].ts
  BY <1>3 DEF SlicesInv
<1>6. slices[newest].ts \in Int
  BY <1>1, SliceFields
<1> HIDE DEF k
<1>7. k = newest \/ k < newest
  BY <1>1, <1>5
<1>8. CASE k = newest
  <2>1. slices[newest].ts <= Len(coded) - 1
    BY <1>5, <1>8
  <2> QED
    BY <1>2, <1>3, <1>4, <1>6, <1>8, <2>1 DEF k
<1>9. CASE k < newest
  <2>1. Len(coded) - 1 < slices[newest].ts /\ k # newest
    BY <1>1, <1>5, <1>9
  <2> QED
    BY <1>2, <1>3, <1>4, <1>6, <2>1 DEF k
<1> QED
  BY <1>7, <1>8, <1>9

LEMMA CurrentSlice ==
    ASSUME ScheduleInv, SliceTypes, SlicesInv, TilesInv, SegmentInv, pc = "ctu", ~pps.tiles
    PROVE  sliceAt(CoordInTs(Len(coded))) = newest
<1>1. /\ newest \in 1 .. newest /\ newest \in Nat /\ Len(coded) \in Addr /\ Len(coded) \in Nat
      /\ slices[newest].ts \in Addr /\ slices[newest].ts <= Len(coded)
  BY NewestHere
<1>2. pps \in PpsChoices /\ ScanTables(geo)
  BY TablesGood DEF ScheduleInv, UnitsInv
<1>3. tileAt(Len(coded)) = 0
  BY <1>1, <1>2, OneTile
<1>4. tileAt(slices[newest].ts) = 0
  BY <1>1, <1>2, OneTile
<1>5. InList(newest, tileSlices[0])
  BY <1>1, <1>4 DEF TilesInv
<1>6. 0 \in DOMAIN tileSlices
  BY <1>1, <1>2, <1>3, TileAtType DEF SliceTypes
<1>7. findSlice(0, Len(coded)) = newest
  <2>1. \A l \in 1 .. newest : newest < l => Len(coded) < slices[l].ts
    BY <1>1
  <2> QED
    BY <1>1, <1>5, <1>6, <2>1, FindSliceIs
<1>8. Ts(CoordInTs(Len(coded))) = Len(coded)
  BY <1>1, <1>2, CoordInTsType
<1> QED
  BY <1>3, <1>7, <1>8 DEF sliceAt, tileAt, Ts

(* Slices begin at different units.                                        *)
LEMMA SlicesApart ==
    ASSUME ScheduleInv, SliceTypes, SlicesInv, NEW k \in 1 .. newest, NEW l \in 1 .. newest
    PROVE  slices[k].rs = slices[l].rs <=> k = l
<1>1. ScanTables(geo) /\ newest \in Nat
  BY TablesGood, SliceFields DEF ScheduleInv, UnitsInv
<1>2. slices[k].ts \in Addr /\ slices[l].ts \in Addr /\ slices[k].ts \in Int /\ slices[l].ts \in Int
  BY SliceFields
<1>3. geo.toTs[slices[k].rs] = slices[k].ts /\ geo.toTs[slices[l].rs] = slices[l].ts
  BY <1>1, <1>2 DEF SlicesInv, ScanTables
<1>4. k < l => slices[k].ts < slices[l].ts
  BY DEF SlicesInv
<1>5. l < k => slices[l].ts < slices[k].ts
  BY DEF SlicesInv
<1> QED
  BY <1>1, <1>2, <1>3, <1>4, <1>5

LEMMA AboveIs ==
    ASSUME pps \in PpsChoices, ~pps.tiles, NEW ts \in Addr, ts % Width = 0
    PROVE  /\ <<1, ts \div Width - 1>> \in Coord <=> Above(ts) >= 0 /\ 1 < Width
           /\ <<1, ts \div Width - 1>> \in Coord =>
                /\ Above(ts) \in Addr /\ Above(ts) < ts /\ Above(ts) % Width = 1
                /\ <<1, ts \div Width - 1>> = CoordInTs(Above(ts))
                /\ Ts(<<1, ts \div Width - 1>>) = Above(ts)
<1> DEFINE r == ts \div Width
           adj == <<1, r - 1>>
<1>1. /\ Width \in Nat /\ Width > 0 /\ ts \in Nat /\ r \in Nat /\ ts = r * Width
      /\ Height \in Nat
  BY SizeType, DivMod DEF Addr
<1>2. r <= Height - 1
  <2>1. ScanTables(geo)
    BY TablesGood
  <2>2. CoordInTs(ts) \in Coord /\ CoordInTs(ts) = <<ts % Width, r>>
    BY <2>1, CoordInTsType, OneTile
  <2> QED
    BY <2>2, CoordIsPair
<1> HIDE DEF r
<1>3. adj \in Coord <=> 1 < Width /\ r >= 1
  BY <1>1, <1>2 DEF Coord
<1>4. Above(ts) >= 0 /\ 1 < Width <=> 1 < Width /\ r >= 1
  <2>1. CASE r = 0
    BY <1>1, <2>1 DEF Above
  <2>2. CASE r >= 1
    <3>1. 1 * Width <= r * Width
      BY <1>1, <2>2, ProductMonotone
    <3> QED
      BY <1>1, <2>2, <3>1 DEF Above
  <2> QED
    BY <1>1, <2>1, <2>2
<1>5. ASSUME adj \in Coord
      PROVE  /\ Above(ts) \in Addr /\ Above(ts) < ts /\ Above(ts) % Width = 1
             /\ adj = CoordInTs(Above(ts)) /\ Ts(adj) = Above(ts)
  <2>1. Ts(adj) = (r - 1) * Width + 1
    BY <1>5, OneTile
  <2>2. (r - 1) * Width + 1 = r * Width - Width + 1
    BY <1>1
  <2>3. Ts(adj) = Above(ts) /\ Above(ts) < ts
    BY <1>1, <1>3, <1>5, <2>1, <2>2 DEF Above
  <2>4. ScanTables(geo)
    BY TablesGood
  <2>5. Above(ts) \in Addr /\ CoordInTs(Above(ts)) = adj
    BY <1>5, <2>3, <2>4, TsType
  <2>6. CoordInTs(Above(ts)) = <<Above(ts) % Width, Above(ts) \div Width>>
    BY <2>5, OneTile
  <2> QED
    BY <2>3, <2>5, <2>6
<1> QED
  BY <1>3, <1>4, <1>5 DEF r

LEMMA AboveAvailable ==
    ASSUME ScheduleInv, SliceTypes, SlicesInv, TilesInv, SegmentInv, pc = "ctu",
           ~pps.tiles, ctbAddrInTs % Width = 0
    PROVE  availableNbT <=> /\ Above(Len(coded)) >= 0 /\ 1 < Width
                            /\ Of(Above(Len(coded))).slice = newest
<1> DEFINE ts == Len(coded)
           adj == <<1, ts \div Width - 1>>
<1>1. ctbAddrInTs = ts /\ ts \in Addr /\ ts \in Nat /\ newest \in 1 .. newest
  BY NewestHere
<1>2. pps \in PpsChoices /\ ScanTables(geo)
  BY TablesGood DEF ScheduleInv, UnitsInv
<1>3. CoordInTs(ts) = <<0, ts \div Width>> /\ CoordInTs(ts) \in Coord /\ Ts(CoordInTs(ts)) = ts
  BY <1>1, <1>2, OneTile, CoordInTsType
<1>4. sliceAt(CoordInTs(ts)) = newest
  BY CurrentSlice
<1>5. availableNbT <=> /\ adj \in Coord /\ Ts(adj) <= ts
                       /\ slices[sliceAt(adj)].rs = slices[newest].rs
                       /\ tileId(adj) = tileId(CoordInTs(ts))
  <2>1. availableNbT <=> isAvailable(CoordInTs(ts), <<CoordInTs(ts)[1] + 1, CoordInTs(ts)[2] - 1>>)
    BY <1>1 DEF availableNbT
  <2>2. <<CoordInTs(ts)[1] + 1, CoordInTs(ts)[2] - 1>> = adj
    BY <1>3
  <2> HIDE DEF ts, adj
  <2> QED
    BY <1>3, <1>4, <2>1, <2>2 DEF isAvailable, Ts
<1>6. CASE adj \notin Coord
  BY <1>1, <1>2, <1>5, <1>6, AboveIs
<1>7. CASE adj \in Coord
  <2>1. /\ Above(ts) >= 0 /\ 1 < Width /\ Above(ts) \in Addr /\ Above(ts) < ts
        /\ adj = CoordInTs(Above(ts)) /\ Ts(adj) = Above(ts)
    BY <1>1, <1>2, <1>7, AboveIs
  <2>2. Above(ts) \in Parsed /\ Above(ts) <= ts
    BY <1>1, <2>1, SizeType DEF Parsed, Addr
  <2>3. sliceAt(adj) = Of(Above(ts)).slice /\ Of(Above(ts)).slice \in 1 .. newest
    BY <2>1, <2>2, LookUps DEF ScheduleInv, SlicesInv
  <2>4. tileId(adj) = 0 /\ tileId(CoordInTs(ts)) = 0
    <3>1. \A u \in Coord : tileId(u) = 0
      BY <1>1, <1>2, OneTile
    <3> HIDE DEF ts, adj
    <3> QED
      BY <1>3, <1>7, <3>1
  <2>5. slices[sliceAt(adj)].rs = slices[newest].rs <=> Of(Above(ts)).slice = newest
    BY <1>1, <2>3, SlicesApart
  <2> HIDE DEF ts, adj
  <2>6. availableNbT <=> Above(ts) >= 0 /\ 1 < Width /\ Of(Above(ts)).slice = newest
    BY <1>5, <1>7, <2>1, <2>2, <2>4, <2>5
  <2> QED
    BY <2>6 DEF ts
<1> QED
  BY <1>6, <1>7

LEMMA EngineAgrees ==
    ASSUME ScheduleInv, SliceTypes, SlicesInv, TilesInv, SegmentInv, EngineInv
    PROVE  EngineInSync
<1> SUFFICES ASSUME pc = "ctu"
             PROVE  /\ Point # "continue" <=> engine = "aligned"
                    /\ syntaxChecks
  BY DEF EngineInSync
<1>1. ~(pps.tiles /\ pps.sync)
  BY PpsAssumption DEF ScheduleInv, UnitsInv
<1>2. Point # "continue" <=> isFirstInSegment \/ EndsSubStream(ctbAddrInTs)
  BY DEF Point, EndsSubStream
<1>3. ~(tileBoundary(ctbAddrInTs) /\ wppBoundary(ctbAddrInTs))
  BY <1>1 DEF tileBoundary, wppBoundary
<1>4. ASSUME Point = "WPP", isFirstInSegment PROVE ssh.dependent
  <2> DEFINE a == Above(Len(coded))
  <2>1. pps.sync /\ ctbAddrInTs % Width = 0 /\ availableNbT
    BY <1>4 DEF Point, wppBoundary
  <2>2. ~pps.tiles /\ pps \in PpsChoices
    BY <1>1, <2>1 DEF ScheduleInv, UnitsInv
  <2>3. a >= 0 /\ 1 < Width /\ Of(a).slice = newest
    BY <2>1, <2>2, AboveAvailable
  <2>4. /\ ctbAddrInTs = Len(coded) /\ Len(coded) \in Addr /\ Len(coded) \in Nat
        /\ slices[newest].ts \in Int
    BY NewestHere
  <2>5. a \in Addr /\ a < Len(coded)
    BY <2>1, <2>2, <2>3, <2>4, AboveIs
  <2>6. a \in Parsed /\ a \in Int
    BY <2>3, <2>4, <2>5, SizeType DEF Parsed, Addr
  <2>7. slices[newest].ts <= a
    BY <2>3, <2>6 DEF SlicesInv
  <2> HIDE DEF a
  <2>8. slices[newest].ts # Len(coded)
    BY <2>4, <2>5, <2>6, <2>7
  <2> QED
    BY <1>4, <2>8 DEF SegmentInv, AtFirst
<1> QED
  BY <1>2, <1>3, <1>4 DEF EngineInv, syntaxChecks

-------------------------------------------------------------------------------
(* The contexts.  What the encoder expects of the unit being parsed:       *)
ExpectedHere(ts) ==
    LET fresh == [slice |-> newest, learned |-> {}]
    IN  IF StartsTile(ts) THEN fresh
        ELSE IF StartsRow(ts)
             THEN IF Above(ts) >= 0 /\ CoordInTs(ts)[1] + 1 < Width /\ Of(Above(ts)).slice = newest
                  THEN After(Above(ts)) ELSE fresh
        ELSE IF Of(ts - 1).slice # newest THEN fresh
        ELSE After(ts - 1)

LEMMA ContextsExpected ==
    ASSUME ScheduleInv, SliceTypes, SlicesInv, TilesInv, SegmentInv, ContextInv, CodingTreeUnit,
           NEW ts, ts = Len(coded)
    PROVE  contexts = ExpectedHere(ts)
<1> DEFINE fresh == [slice |-> newest, learned |-> {}]
<1>1. /\ pc = "ctu" /\ ctbAddrInTs = ts /\ ts \in Addr /\ ts \in Nat
      /\ slices[newest].ts \in Int /\ slices[newest].ts <= ts
  BY NewestHere DEF CodingTreeUnit
<1>2. initialized = fresh
  BY TypesCtu
<1>3. pps \in PpsChoices /\ ~(pps.tiles /\ pps.sync)
  BY PpsAssumption DEF ScheduleInv, UnitsInv
<1>4. contexts = IF Point = "initialize" THEN fresh ELSE IF Point = "continue" THEN cabac ELSE saved[Point]
  BY <1>2 DEF contexts
<1>5. ts # 0 => /\ coded # <<>> /\ cabac = After(ts - 1) /\ ts - 1 \in Parsed /\ ts - 1 \in Addr
                /\ Of(ts - 1).slice = newest <=> slices[newest].ts < ts
  BY <1>1, LastSlice DEF ContextInv
<1>6. StartsTile(ts) => ts = 0 \/ pps.tiles
  <2> SUFFICES ASSUME ts # 0, ~pps.tiles, StartsTile(ts) PROVE FALSE
    OBVIOUS
  <2>1. tileAt(ts) = 0 /\ tileAt(ts - 1) = 0
    BY <1>1, <1>3, <1>5, OneTile
  <2> QED
    BY <2>1 DEF StartsTile, tileAt
<1>7. ts = 0 => StartsTile(ts) /\ isFirstInSegment
  <2>1. ts = 0 => StartsTile(ts)
    BY DEF StartsTile
  <2>2. firstInSegment <= ctbAddrInTs /\ firstInSegment \in Nat
    BY <1>1, SizeType DEF SegmentInv, SliceTypes, Addr
  <2> QED
    BY <1>1, <2>1, <2>2 DEF isFirstInSegment
<1>8. isFirstInSegment => (ssh.dependent <=> slices[newest].ts < ts)
  <2>1. isFirstInSegment => (ssh.dependent <=> slices[newest].ts # ts)
    BY <1>1 DEF SegmentInv, AtFirst
  <2> QED
    BY <1>1, <2>1
<1>9. ~isFirstInSegment => slices[newest].ts < ts
  BY <1>1 DEF SegmentInv
<1>10. CASE StartsTile(ts)
  <2>1. ExpectedHere(ts) = fresh
    BY <1>10 DEF ExpectedHere
  <2>2. CASE pps.tiles
    BY <1>1, <1>4, <1>10, <2>1, <2>2 DEF Point, tileBoundary
  <2>3. CASE ~pps.tiles
    <3>1. ts = 0 /\ ~tileBoundary(ctbAddrInTs) /\ isFirstInSegment
      BY <1>6, <1>7, <1>10, <2>3 DEF tileBoundary
    <3>2. ~ssh.dependent
      BY <1>1, <1>8, <3>1, SliceFields, NewestHere, SizeType DEF Addr
    <3>3. CASE wppBoundary(ctbAddrInTs)
      <4>1. ctbAddrInTs % Width = 0
        BY <3>3 DEF wppBoundary
      <4>2. ~(Above(ts) >= 0 /\ 1 < Width)
        BY <3>1, SizeType DEF Above
      <4>3. ~availableNbT
        BY <1>1, <2>3, <4>1, <4>2, AboveAvailable
      <4>4. Point = "initialize"
        BY <3>1, <3>3, <4>3 DEF Point
      <4> QED
        BY <1>4, <2>1, <4>4
    <3>4. CASE ~wppBoundary(ctbAddrInTs)
      <4>1. Point = "initialize"
        BY <3>1, <3>2, <3>4 DEF Point
      <4> QED
        BY <1>4, <2>1, <4>1
    <3> QED
      BY <3>3, <3>4
  <2> QED
    BY <2>2, <2>3
<1>11. CASE ~StartsTile(ts) /\ StartsRow(ts)
  <2>1. ts # 0 /\ ~tileBoundary(ctbAddrInTs) /\ wppBoundary(ctbAddrInTs) /\ pps.sync /\ ts % Width = 0
    BY <1>1, <1>7, <1>11 DEF tileBoundary, wppBoundary, StartsRow
  <2>2. ~pps.tiles
    BY <1>3, <2>1
  <2>3. CoordInTs(ts)[1] = 0
    BY <1>1, <1>3, <2>1, <2>2, OneTile
  <2>4. availableNbT <=> Above(ts) >= 0 /\ CoordInTs(ts)[1] + 1 < Width /\ Of(Above(ts)).slice = newest
    BY <1>1, <2>1, <2>2, <2>3, AboveAvailable
  <2>5. CASE availableNbT
    <3>1. Above(ts) \in Addr /\ Above(ts) < ts /\ Above(ts) % Width = 1
      <4>1. Above(ts) >= 0 /\ 1 < Width
        BY <2>3, <2>4, <2>5
      <4> QED
        BY <1>1, <1>3, <2>1, <2>2, <4>1, AboveIs
    <3>2. Finished = ts /\ Above(ts) \in 0 .. Finished - 1 /\ Finished <= Above(ts) + Width
      BY <1>1, <3>1, SizeType DEF Finished, Above, Addr
    <3>3. saved["WPP"] = After(Above(ts))
      BY <2>1, <3>1, <3>2 DEF ContextInv
    <3>4. Point = "WPP"
      BY <2>1, <2>5 DEF Point
    <3>5. ExpectedHere(ts) = After(Above(ts))
      BY <1>11, <2>4, <2>5 DEF ExpectedHere
    <3> QED
      BY <1>4, <3>3, <3>4, <3>5
  <2>6. CASE ~availableNbT
    <3>1. Point = "initialize"
      BY <2>1, <2>6 DEF Point
    <3>2. ExpectedHere(ts) = fresh
      BY <1>11, <2>4, <2>6 DEF ExpectedHere
    <3> QED
      BY <1>4, <3>1, <3>2
  <2> QED
    BY <2>5, <2>6
<1>12. CASE ~StartsTile(ts) /\ ~StartsRow(ts)
  <2>1. ts # 0 /\ ~tileBoundary(ctbAddrInTs) /\ ~wppBoundary(ctbAddrInTs)
    BY <1>1, <1>7, <1>12 DEF tileBoundary, wppBoundary, StartsRow
  <2>2. ExpectedHere(ts) = IF Of(ts - 1).slice # newest THEN fresh ELSE After(ts - 1)
    BY <1>12 DEF ExpectedHere
  <2>3. CASE ~isFirstInSegment
    <3>1. Point = "continue"
      BY <2>1, <2>3 DEF Point
    <3> QED
      BY <1>4, <1>5, <1>9, <2>1, <2>2, <2>3, <3>1
  <2>4. CASE isFirstInSegment /\ ssh.dependent
    <3>1. Point = "DSS"
      BY <2>1, <2>4 DEF Point
    <3>2. saved["DSS"] = After(ts - 1)
      BY <1>1, <1>5, <2>1, <2>4 DEF ContextInv, AtFirst
    <3> QED
      BY <1>4, <1>5, <1>8, <2>1, <2>2, <2>4, <3>1, <3>2
  <2>5. CASE isFirstInSegment /\ ~ssh.dependent
    <3>1. Point = "initialize"
      BY <2>1, <2>5 DEF Point
    <3> QED
      BY <1>4, <1>5, <1>8, <2>1, <2>2, <2>5, <3>1
  <2> QED
    BY <2>3, <2>4, <2>5
<1> QED
  BY <1>10, <1>11, <1>12

(* What is expected of a unit depends on it and the units before it.       *)
LEMMA ExpectedKept ==
    ASSUME ScheduleInv, SliceTypes, UNCHANGED pps, \A ts \in Parsed : Of(ts)' = Of(ts),
           NEW ts \in Parsed
    PROVE  Expected(ts)' = Expected(ts)
<1>1. ts \in Addr /\ ts \in Nat /\ Len(coded) \in Nat /\ ts < Len(coded)
  BY UnitFields DEF ScheduleInv
<1>2. /\ CoordInTs(ts)' = CoordInTs(ts) /\ StartsTile(ts)' = StartsTile(ts)
      /\ StartsRow(ts)' = StartsRow(ts)
  BY TablesSame DEF StartsTile, StartsRow, tileId, CoordInTs
<1>3. \A t \in Parsed : After(t)' = After(t)
  BY DEF After
<1>4. Fresh(ts)' = Fresh(ts)
  BY DEF Fresh
<1>5. ~StartsTile(ts) => ts - 1 \in Parsed
  BY <1>1 DEF StartsTile, Parsed
<1>6. Above(ts)' = Above(ts) /\ (Above(ts) >= 0 => Above(ts) \in Parsed)
  BY <1>1, SizeType DEF Above, Parsed
<1> QED
  BY <1>2, <1>3, <1>4, <1>5, <1>6 DEF Expected

LEMMA ExpectedOfNew ==
    ASSUME ScheduleInv, SliceTypes, UNCHANGED pps, \A ts \in Parsed : Of(ts)' = Of(ts),
           newest' = newest, NEW ts, ts = Len(coded), Of(ts)'.slice = newest, ts \in Addr
    PROVE  Expected(ts)' = ExpectedHere(ts)
<1>1. ts \in Nat /\ Len(coded) \in Nat
  BY UnitFields DEF ScheduleInv
<1>2. /\ CoordInTs(ts)' = CoordInTs(ts) /\ StartsTile(ts)' = StartsTile(ts)
      /\ StartsRow(ts)' = StartsRow(ts)
  BY TablesSame DEF StartsTile, StartsRow, tileId, CoordInTs
<1>3. \A t \in Parsed : After(t)' = After(t)
  BY DEF After
<1>4. Fresh(ts)' = [slice |-> newest, learned |-> {}]
  BY DEF Fresh
<1>5. ~StartsTile(ts) => ts - 1 \in Parsed
  BY <1>1 DEF StartsTile, Parsed
<1>6. /\ Above(ts)' = Above(ts)
      /\ StartsRow(ts) /\ Above(ts) >= 0 /\ CoordInTs(ts)[1] + 1 < Width => Above(ts) \in Parsed
  <2>1. Above(ts)' = Above(ts)
    BY DEF Above
  <2>2. CoordInTs(ts) \in Coord
    BY TablesGood, CoordInTsType DEF ScheduleInv, UnitsInv
  <2>3. CoordInTs(ts)[1] \in Nat
    BY <2>2, CoordIsPair
  <2> QED
    BY <1>1, <2>1, <2>3, SizeType DEF Above, Parsed
<1> QED
  BY <1>2, <1>3, <1>4, <1>5, <1>6 DEF Expected, ExpectedHere

(* Units in the same column are whole rows apart.                          *)
LEMMA RowsApart ==
    ASSUME NEW a \in Nat, NEW b \in Nat, a < b, a % Width = b % Width
    PROVE  a + Width <= b
<1> DEFINE p == a \div Width
           q == b \div Width
           r == a % Width
<1>1. /\ p \in Nat /\ q \in Nat /\ Width \in Nat /\ r \in Int
      /\ a = p * Width + r /\ b = q * Width + r
  BY DivMod, SizeType
<1> HIDE DEF p, q, r
<1>2. p < q
  <2>1. q <= p => q * Width <= p * Width
    BY <1>1, ProductMonotone
  <2> QED
    BY <1>1, <2>1
<1>3. (p + 1) * Width <= q * Width
  BY <1>1, <1>2, ProductMonotone
<1>4. (p + 1) * Width = p * Width + Width
  BY <1>1
<1> QED
  BY <1>1, <1>3, <1>4

LEMMA ContextKept ==
    ASSUME ScheduleInv, SliceTypes, ContextInv, UNCHANGED <<pps, coded, cabac>>
    PROVE  /\ \A ts \in Parsed' : Of(ts)'.contexts = Expected(ts)'
           /\ coded' # <<>> => cabac' = After(Len(coded) - 1)'
           /\ \A t : After(t)' = After(t)
<1>1. Parsed' = Parsed /\ \A ts : Of(ts)' = Of(ts)
  BY DEF Parsed, Of
<1>2. \A t : After(t)' = After(t)
  BY <1>1 DEF After
<1>3. ASSUME NEW ts \in Parsed PROVE Expected(ts)' = Expected(ts)
  BY <1>1, ExpectedKept
<1>4. After(Len(coded) - 1)' = After(Len(coded) - 1)
  BY DEF After, Of
<1> QED
  BY <1>1, <1>2, <1>3, <1>4 DEF ContextInv

LEMMA ContextCtu ==
    ASSUME ScheduleInv, SliceTypes, SlicesInv, TilesInv, SegmentInv, ContextInv, CodingTreeUnit
    PROVE  ContextInv'
<1>1. /\ ctbAddrInTs = Len(coded) /\ Len(coded) \in Addr /\ Len(coded) \in Nat
  BY NewestHere DEF CodingTreeUnit
<1>2. /\ Len(coded') = Len(coded) + 1
      /\ coded'[Len(coded) + 1] = [slice |-> newest, segment |-> enc.segment,
                                   flags |-> enc.flags, contexts |-> contexts]
      /\ \A ts \in Parsed : Of(ts)' = Of(ts)
  BY TypesCtu
<1>3. /\ \A ts \in Parsed' : ts \in Parsed \/ ts = Len(coded)
      /\ \A ts : ts = Len(coded) => /\ Of(ts)'.slice = newest /\ Of(ts)'.contexts = contexts
                                    /\ Of(ts)' = coded'[Len(coded) + 1]
  BY <1>1, <1>2 DEF Parsed, Of
<1>4. UNCHANGED <<pps, saved>> /\ newest' = newest /\ pc = "ctu" /\ pc' = "filter"
      /\ cabac' = [contexts EXCEPT !.learned = @ \cup {ctbAddrInTs}]
  BY DEF CodingTreeUnit, newest
<1>5. \A t \in Parsed : After(t)' = After(t)
  BY <1>2 DEF After
<1>6. ASSUME NEW ts \in Parsed' PROVE Of(ts)'.contexts = Expected(ts)'
  <2>1. CASE ts \in Parsed
    <3>1. Expected(ts)' = Expected(ts)
      BY <1>2, <1>4, <2>1, ExpectedKept
    <3> QED
      BY <1>2, <2>1, <3>1 DEF ContextInv
  <2>2. CASE ts = Len(coded)
    <3>1. Expected(ts)' = ExpectedHere(ts)
      BY <1>1, <1>2, <1>3, <1>4, <2>2, ExpectedOfNew
    <3>2. contexts = ExpectedHere(ts)
      BY <2>2, ContextsExpected
    <3> QED
      BY <1>3, <2>2, <3>1, <3>2
  <2> QED
    BY <1>3, <2>1, <2>2
<1>7. cabac' = After(Len(coded) - 1)'
  <2>1. Len(coded') - 1 = Len(coded)
    BY <1>1, <1>2
  <2>2. Of(Len(coded) - 1)' = coded'[Len(coded) + 1]
    BY <1>1, <1>2, <2>1 DEF Of
  <2>3. Of(Len(coded) - 1)'.contexts = contexts
    BY <1>2, <2>2
  <2> QED
    BY <1>1, <1>4, <2>1, <2>3 DEF After
<1>8. ~(pc' = "header" \/ AtFirst')
  BY <1>4 DEF AtFirst
<1>9. pps'.sync => \A m \in 0 .. Finished' - 1 :
        m % Width = 1 /\ Finished' <= m + Width => saved'["WPP"] = After(m)'
  <2>1. Finished' = Finished /\ Finished = Len(coded)
    BY <1>1, <1>2, <1>4 DEF Finished
  <2>2. \A m \in 0 .. Finished - 1 : m \in Parsed
    BY <2>1 DEF Parsed
  <2> QED
    BY <1>4, <1>5, <2>1, <2>2 DEF ContextInv
<1> QED
  BY <1>6, <1>7, <1>8, <1>9 DEF ContextInv

(* The contexts kept for the next row, when a unit is finished.            *)
LEMMA StoreWppIs ==
    ASSUME ScheduleInv, SliceTypes, ContextInv, pc = "endFlag", pps.sync,
           NEW m \in 0 .. Len(coded) - 1, m % Width = 1, Len(coded) <= m + Width
    PROVE  StoreWpp["WPP"] = After(m)
<1>1. /\ Len(coded) \in Nat /\ ctbAddrInTs \in Addr /\ Len(coded) = ctbAddrInTs + 1
      /\ coded # <<>> /\ m \in Nat /\ ctbAddrInTs \in Nat
  <2>1. Len(coded) \in Nat /\ Len(coded) = Len(ctus)
    BY UnitFields DEF ScheduleInv
  <2>2. ctbAddrInTs \in Addr /\ Len(coded) = ctbAddrInTs + 1
    BY <2>1 DEF ScheduleInv, ControlInv
  <2>3. ctbAddrInTs \in Nat
    BY <2>2, SizeType DEF Addr
  <2>4. Len(coded) # 0
    BY <2>2, <2>3
  <2> QED
    BY <2>1, <2>2, <2>3, <2>4
<1>2. pps \in PpsChoices /\ ~pps.tiles
  BY PpsAssumption DEF ScheduleInv, UnitsInv
<1>3. CoordInTs(ctbAddrInTs)[1] = ctbAddrInTs % Width
  BY <1>1, <1>2, OneTile
<1>4. saved \in [{"WPP", "DSS"} -> Contexts] /\ cabac = After(ctbAddrInTs)
  <2>1. Len(coded) - 1 = ctbAddrInTs
    BY <1>1
  <2> QED
    BY <1>1, <2>1 DEF SliceTypes, ContextInv
<1>5. CASE m = ctbAddrInTs
  BY <1>3, <1>4, <1>5 DEF StoreWpp
<1>6. CASE m < ctbAddrInTs
  <2>1. Finished = ctbAddrInTs
    BY <1>1 DEF Finished
  <2>2. m \in 0 .. Finished - 1 /\ Finished <= m + Width
    BY <1>1, <1>6, <2>1, SizeType
  <2>3. saved["WPP"] = After(m)
    BY <2>2 DEF ContextInv
  <2>4. ctbAddrInTs % Width # 1
    <3> SUFFICES ASSUME ctbAddrInTs % Width = 1 PROVE FALSE
      OBVIOUS
    <3>1. m + Width <= ctbAddrInTs
      BY <1>1, <1>6, RowsApart
    <3> QED
      BY <1>1, <3>1, SizeType
  <2> QED
    BY <1>3, <2>3, <2>4 DEF StoreWpp
<1> QED
  BY <1>1, <1>5, <1>6

LEMMA ContextStep ==
    ASSUME ScheduleInv, SliceTypes, SlicesInv, TilesInv, SegmentInv, ContextInv, [Next]_vars
    PROVE  ContextInv'
<1>1. CASE IndependentSegment \/ DependentSegment \/ StartSliceSegmentData
  <2>1. /\ UNCHANGED <<pps, coded, cabac, saved>>
        /\ (pc = "header" \/ AtFirst) /\ pc \notin {"filter", "endFlag"}
        /\ pc' \notin {"filter", "endFlag"}
    BY <1>1 DEF IndependentSegment, DependentSegment, StartSliceSegmentData, AtFirst
  <2>2. pc = "header" \/ AtFirst
    BY <1>1 DEF IndependentSegment, DependentSegment, StartSliceSegmentData, AtFirst
  <2>3. Finished' = Finished
    BY <1>1 DEF IndependentSegment, DependentSegment, StartSliceSegmentData, Finished
  <2> QED
    BY <2>1, <2>2, <2>3, ContextKept DEF ContextInv
<1>2. CASE NextUnit \/ EndOfSliceSegment
  <2>1. /\ UNCHANGED <<pps, coded, cabac>> /\ pc = "endFlag" /\ Finished' = Len(coded)
    BY <1>2 DEF NextUnit, EndOfSliceSegment, Finished
  <2>2. StoreWpp \in [{"WPP", "DSS"} -> Contexts]
    BY DEF StoreWpp, SliceTypes
  <2>3. saved'["WPP"] = StoreWpp["WPP"]
    BY <1>2, <2>2 DEF NextUnit, EndOfSliceSegment
  <2>4. pc' = "header" \/ AtFirst' => saved'["DSS"] = cabac'
    <3>1. CASE NextUnit
      <4>1. firstInSegment <= ctbAddrInTs /\ firstInSegment \in Int /\ ctbAddrInTs \in Int
        BY <2>1, SizeType DEF SegmentInv, SliceTypes, Addr
      <4>2. pc' = "ctu" /\ ~isFirstInSegment'
        BY <3>1, <4>1 DEF NextUnit, isFirstInSegment
      <4> QED
        BY <4>2 DEF AtFirst
    <3>2. CASE EndOfSliceSegment
      BY <2>2, <3>2 DEF EndOfSliceSegment
    <3> QED
      BY <1>2, <3>1, <3>2
  <2>5. pps'.sync => \A m \in 0 .. Finished' - 1 :
          m % Width = 1 /\ Finished' <= m + Width => saved'["WPP"] = After(m)'
    <3> SUFFICES ASSUME pps.sync, NEW m \in 0 .. Len(coded) - 1, m % Width = 1, Len(coded) <= m + Width
                 PROVE  saved'["WPP"] = After(m)'
      BY <2>1
    <3>1. StoreWpp["WPP"] = After(m)
      BY <2>1, StoreWppIs
    <3> QED
      BY <2>1, <2>3, <3>1, ContextKept
  <2> QED
    BY <2>1, <2>4, <2>5, ContextKept DEF ContextInv
<1>3. CASE Filter \/ FiltersDone \/ UNCHANGED vars
  <2>1. /\ UNCHANGED <<pps, coded, cabac, saved, ctbAddrInTs, firstInSegment>>
        /\ pc' = pc \/ (pc = "filter" /\ pc' = "endFlag")
    BY <1>3 DEF Filter, FiltersDone, vars, sliceVars
  <2>2. Finished' = Finished /\ (pc' = "header" \/ AtFirst' => pc = "header" \/ AtFirst)
    BY <2>1 DEF Finished, AtFirst, isFirstInSegment
  <2> QED
    BY <2>1, <2>2, ContextKept DEF ContextInv
<1> QED
  BY <1>1, <1>2, <1>3, StepSplit, ContextCtu DEF Quiet

-------------------------------------------------------------------------------
(* The flags: a slice's header is that of its first segment.               *)
LEMMA FlagsStep ==
    ASSUME ScheduleInv, SliceTypes, SlicesInv, TilesInv, SegmentInv, FlagsInv, [Next]_vars
    PROVE  FlagsInv'
<1>1. CASE IndependentSegment
  <2>1. /\ newest \in Nat /\ newest' = newest + 1 /\ slices'[newest + 1].segments = <<>>
        /\ \A k \in 1 .. newest : slices'[k] = slices[k]
    BY <1>1, SlicesIndependent
  <2>2. Parsed' = Parsed /\ \A ts : Of(ts)' = Of(ts)
    BY <1>1 DEF IndependentSegment, Parsed, Of
  <2>3. PICK flags \in HeaderFlags :
          /\ ssh' = Header(FALSE, flags)
          /\ enc' = [slice |-> enc.slice + 1, segment |-> enc.segment + 1, flags |-> flags,
                     sliceStart |-> Len(coded), segmentStart |-> Len(coded)]
    BY <1>1 DEF IndependentSegment
  <2>4. ssh'.flags = enc'.flags /\ pc' = "data"
    BY <1>1, <2>3 DEF Header, IndependentSegment
  <2>5. \A ts \in Parsed : Of(ts).slice \in 1 .. newest
    BY DEF SlicesInv
  <2> QED
    BY <2>1, <2>2, <2>4, <2>5 DEF FlagsInv
<1>2. CASE DependentSegment
  <2>1. ssh'.flags = enc.flags
    BY <1>2, TypesDependent
  <2>2. enc'.flags = enc.flags
    <3>1. enc' = [enc EXCEPT !.segment = @ + 1, !.segmentStart = Len(coded)]
      BY <1>2 DEF DependentSegment
    <3> QED
      BY <3>1 DEF SliceTypes
  <2>3. /\ Parsed' = Parsed /\ (\A ts : Of(ts)' = Of(ts)) /\ pc' = "data"
        /\ UNCHANGED slices /\ newest' = newest
    BY <1>2 DEF DependentSegment, Parsed, Of, newest
  <2> QED
    BY <2>1, <2>2, <2>3 DEF FlagsInv
<1>3. CASE StartSliceSegmentData
  <2> DEFINE before == slices[newest].segments
  <2>1. newest \in 1 .. newest /\ newest # 0 /\ newest \in Nat
    BY <1>3, SlicesExist DEF StartSliceSegmentData
  <2>2. /\ newest' = newest /\ \A k \in 1 .. newest - 1 : slices'[k] = slices[k]
        /\ slices'[newest].segments = Append(before, ssh)
    BY <1>3, <2>1, TypesStart
  <2>3. before \in Seq(HeaderSet) /\ slices[newest] \in SliceSet
    BY <2>1, SliceFields DEF SliceSet
  <2>4. /\ Parsed' = Parsed /\ (\A ts : Of(ts)' = Of(ts)) /\ pc = "data" /\ pc' = "ctu"
        /\ UNCHANGED <<ssh, enc>>
    BY <1>3 DEF StartSliceSegmentData, Parsed, Of
  <2>5. ssh.flags = enc.flags /\ (before # <<>> => before[1].flags = enc.flags)
    BY <2>1, <2>4 DEF FlagsInv
  <2> HIDE DEF before
  <2>6. /\ Append(before, ssh) # <<>>
        /\ before = <<>> => Append(before, ssh)[1] = ssh
        /\ before # <<>> => Append(before, ssh)[1] = before[1]
    BY <2>3
  <2>7. slices'[newest].segments # <<>> /\ slices'[newest].segments[1].flags = enc.flags
    BY <2>2, <2>5, <2>6
  <2>8. ASSUME NEW ts \in Parsed
        PROVE  /\ slices'[Of(ts).slice].segments # <<>>
               /\ slices'[Of(ts).slice].segments[1].flags = Of(ts).flags
    <3>1. Of(ts).slice \in 1 .. newest - 1 \/ Of(ts).slice = newest
      BY <2>1 DEF SlicesInv
    <3>2. CASE Of(ts).slice \in 1 .. newest - 1
      BY <2>2, <3>2 DEF FlagsInv
    <3>3. CASE Of(ts).slice = newest
      <4>1. before # <<>> /\ before[1].flags = Of(ts).flags
        BY <3>3 DEF FlagsInv, before
      <4> QED
        BY <2>5, <2>7, <3>3, <4>1
    <3> QED
      BY <3>1, <3>2, <3>3
  <2> QED
    BY <2>2, <2>4, <2>7, <2>8 DEF FlagsInv
<1>4. CASE CodingTreeUnit
  <2>1. /\ newest \in 1 .. newest /\ newest \in Nat /\ Len(coded) \in Nat
    BY <1>4, NewestHere DEF CodingTreeUnit
  <2>2. /\ Len(coded') = Len(coded) + 1
        /\ coded'[Len(coded) + 1] = [slice |-> newest, segment |-> enc.segment,
                                     flags |-> enc.flags, contexts |-> contexts]
        /\ \A ts \in Parsed : Of(ts)' = Of(ts)
    BY <1>4, TypesCtu
  <2>3. UNCHANGED <<slices, enc>> /\ newest' = newest /\ pc = "ctu" /\ pc' = "filter"
    BY <1>4 DEF CodingTreeUnit, newest
  <2>4. slices[newest].segments # <<>> /\ slices[newest].segments[1].flags = enc.flags
    BY <2>1, <2>3 DEF FlagsInv
  <2>5. ASSUME NEW ts \in Parsed'
        PROVE  /\ slices[Of(ts)'.slice].segments # <<>>
               /\ slices[Of(ts)'.slice].segments[1].flags = Of(ts)'.flags
    <3>1. ts \in Parsed \/ ts = Len(coded)
      BY <2>1, <2>2 DEF Parsed
    <3>2. CASE ts \in Parsed
      BY <2>2, <3>2 DEF FlagsInv
    <3>3. CASE ts = Len(coded)
      <4>1. Of(ts)'.slice = newest /\ Of(ts)'.flags = enc.flags
        BY <2>2, <3>3 DEF Of
      <4> QED
        BY <2>4, <4>1
    <3> QED
      BY <3>1, <3>2, <3>3
  <2> QED
    BY <2>3, <2>4, <2>5 DEF FlagsInv
<1>5. CASE NextUnit \/ EndOfSliceSegment \/ Filter \/ FiltersDone \/ UNCHANGED vars
  <2>1. /\ UNCHANGED <<slices, enc, ssh>> /\ newest' = newest
        /\ Parsed' = Parsed /\ \A ts : Of(ts)' = Of(ts)
    BY <1>5 DEF NextUnit, EndOfSliceSegment, Filter, FiltersDone, vars, sliceVars, newest, Parsed, Of
  <2>2. /\ pc' = "data" => pc = "data"
        /\ pc' \in {"ctu", "filter", "endFlag"} => pc \in {"ctu", "filter", "endFlag"}
    BY <1>5 DEF NextUnit, EndOfSliceSegment, Filter, FiltersDone, vars, sliceVars
  <2> QED
    BY <2>1, <2>2 DEF FlagsInv
<1> QED
  BY <1>1, <1>2, <1>3, <1>4, <1>5, StepSplit DEF Quiet

-------------------------------------------------------------------------------
(* The invariant holds.                                                    *)
LEMMA SliceInit ==
    ASSUME Init
    PROVE  SliceInv
<1>1. /\ pps \in PpsChoices /\ slices = <<>> /\ coded = <<>> /\ pc = "header" /\ enc.slice = 0
      /\ engine = "running" /\ newest = 0 /\ Len(coded) = 0
  BY DEF Init, newest
<1>2. Parsed = {} /\ 1 .. newest = {} /\ ~Started /\ ~AtFirst
  BY <1>1 DEF Parsed, Started, AtFirst
<1>3. tileSlices = [t \in 0 .. pps.columns.n * pps.rows.n - 1 |-> <<>>]
  BY DEF Init
<1>4. SliceTypes
  <2>1. 0 \in Addr
    <3>1. 1 * Height <= Width * Height
      BY SizeType, ProductMonotone
    <3> QED
      BY <3>1, SizeType DEF Addr
  <2>2. NoFlags \in FlagSet
    BY DEF FlagSet
  <2>3. ssh \in HeaderSet /\ ctbAddrInTs \in Addr /\ firstInSegment \in Addr
    BY <2>1, <2>2 DEF Init, HeaderSet
  <2>4. slices \in Seq(SliceSet) /\ coded \in Seq(UnitSet)
    BY <1>1
  <2>5. tileSlices \in [0 .. pps.columns.n * pps.rows.n - 1 -> Seq(Nat)]
    <3>1. <<>> \in Seq(Nat)
      OBVIOUS
    <3> QED
      BY <1>3, <3>1
  <2>6. enc \in [slice : Nat, segment : Nat, flags : FlagSet, sliceStart : Nat, segmentStart : Nat]
    BY <2>2 DEF Init
  <2>7. cabac \in Contexts /\ saved \in [{"WPP", "DSS"} -> Contexts]
    BY DEF Init, Contexts
  <2> QED
    BY <1>1, <2>3, <2>4, <2>5, <2>6, <2>7 DEF SliceTypes
<1>5. SlicesInv
  BY <1>1, <1>2 DEF SlicesInv
<1>6. TilesInv
  BY <1>2, <1>3 DEF TilesInv
<1>7. SegmentInv /\ EngineInv
  BY <1>1, <1>2 DEF SegmentInv, EngineInv
<1>8. ContextInv
  <2>1. Finished = 0 /\ 0 .. Finished - 1 = {}
    BY <1>1 DEF Finished
  <2> QED
    BY <1>1, <1>2, <2>1 DEF ContextInv
<1>9. FlagsInv
  BY <1>1, <1>2 DEF FlagsInv
<1> QED
  BY <1>4, <1>5, <1>6, <1>7, <1>8, <1>9 DEF SliceInv

LEMMA SliceStep ==
    ASSUME ScheduleInv, SliceInv, [Next]_vars
    PROVE  SliceInv'
<1>1. SliceTypes /\ SlicesInv /\ TilesInv /\ SegmentInv /\ EngineInv /\ ContextInv /\ FlagsInv
  BY DEF SliceInv
<1>2. SliceTypes' /\ SlicesInv' /\ TilesInv'
  BY <1>1, TypesStep, SlicesStep, TilesStep
<1>3. SegmentInv' /\ EngineInv'
  BY <1>1, SegmentStep, EngineStep
<1>4. ContextInv' /\ FlagsInv'
  BY <1>1, ContextStep, FlagsStep
<1> QED
  BY <1>2, <1>3, <1>4 DEF SliceInv

LEMMA SliceInvariant == Spec => [](ScheduleInv /\ SliceInv)
<1>1. Init => ScheduleInv /\ SliceInv
  BY ScheduleInit, SliceInit
<1>2. ScheduleInv /\ SliceInv /\ [Next]_vars => ScheduleInv' /\ SliceInv'
  BY ScheduleStep, SliceStep
<1> QED
  BY <1>1, <1>2, PTL DEF Spec

(* The type invariant of the picture, at every step.                       *)
LEMMA SliceTypeOK ==
    ASSUME ScheduleInv, SliceInv
    PROVE  TypeOK
<1>1. SliceTypes /\ SlicesInv /\ TilesInv
  BY DEF SliceInv
<1>2. /\ DOMAIN slices = 1 .. newest /\ newest \in Nat
      /\ \A k \in 1 .. newest : slices[k].rs \in Addr /\ slices[k].ts \in Addr
  BY <1>1, SliceFields
<1>3. pps \in PpsChoices /\ ScanTables(geo)
  BY TablesGood DEF ScheduleInv, UnitsInv
<1>4. ASSUME NEW i \in DOMAIN slices
      PROVE  /\ slices[i].rs \in Addr /\ slices[i].ts = geo.toTs[slices[i].rs]
             /\ i > 1 => slices[i - 1].ts < slices[i].ts
  <2>1. slices[i].rs = geo.toRs[slices[i].ts] /\ slices[i].ts \in Addr /\ slices[i].rs \in Addr
    BY <1>1, <1>2 DEF SlicesInv
  <2>2. slices[i].ts = geo.toTs[slices[i].rs]
    BY <1>3, <2>1 DEF ScanTables
  <2>3. i > 1 => i - 1 \in 1 .. newest /\ i \in 1 .. newest /\ i - 1 < i
    BY <1>2
  <2> QED
    BY <1>1, <2>1, <2>2, <2>3 DEF SlicesInv
<1>5. ASSUME NEW id \in DOMAIN tileSlices, NEW i \in DOMAIN tileSlices[id]
      PROVE  tileSlices[id][i] \in DOMAIN slices
  <2>1. tileSlices[id] \in Seq(Nat)
    BY <1>1 DEF SliceTypes
  <2>2. i \in 1 .. Len(tileSlices[id])
    BY <2>1
  <2> QED
    BY <1>1, <1>2, <2>2 DEF TilesInv
<1>6. \A i \in DOMAIN ctus : ctus[i] = CoordInTs(i - 1)
  <2>1. DOMAIN ctus = 1 .. Len(ctus)
    BY DEF ScheduleInv, UnitsInv
  <2> QED
    BY <2>1 DEF ScheduleInv, UnitsInv
<1>7. vertical \cup horizontal \subseteq Coord
  BY DEF ScheduleInv, DeblockInv
<1> QED
  BY <1>1, <1>3, <1>4, <1>5, <1>6, <1>7 DEF TypeOK, SliceTypes, ScheduleInv, ControlInv

(* TypeOK: every variable of a picture's decoding has its type, and slices *)
(* and units are listed in decoding order, for every picture, tile layout  *)
(* and division into slices.                                               *)
THEOREM PictureTyped == Spec => []TypeOK
<1>1. ScheduleInv /\ SliceInv => TypeOK
  BY SliceTypeOK
<1> QED
  BY <1>1, SliceInvariant, PTL

(* ScanOrder: for every picture size and every proper tile layout the scan *)
(* tables are inverse to each other and follow the tiles, and the rows     *)
(* within a tile (PictureProperties.cpp).                                  *)
THEOREM ScanFollowsTiles == Spec => []ScanOrder
<1>1. ScheduleInv => ScanOrder
  BY ScansInOrder DEF ScheduleInv, UnitsInv
<1> QED
  BY <1>1, SliceInvariant, PTL

(* SliceNamed: whenever a unit's slice is looked up it is the slice the    *)
(* encoder put the unit in (Tile::findSlice, Picture::sliceAt).            *)
THEOREM SliceAlwaysNamed == Spec => []SliceNamed
<1>1. ScheduleInv /\ SliceInv => SliceNamed
  BY LookUps DEF SliceNamed, ScheduleInv, SliceInv
<1> QED
  BY <1>1, SliceInvariant, PTL

(* ContextsSynchronised: every unit is parsed with the encoder's contexts, *)
(* whatever the tiles, wavefronts, slices and dependent segments           *)
(* (SliceSegmentData.cpp).                                                 *)
THEOREM ContextsAlwaysSynchronised == Spec => []ContextsSynchronised
<1>1. ContextInv => ContextsSynchronised
  BY DEF ContextInv, ContextsSynchronised, Expected, Fresh, Above, After
<1>2. ScheduleInv /\ SliceInv => ContextsSynchronised
  BY <1>1 DEF SliceInv
<1> QED
  BY <1>2, SliceInvariant, PTL

(* EngineInSync: the arithmetic decoder is initialised exactly where a     *)
(* sub-stream begins, and the parser's assertions hold there.              *)
THEOREM EngineAlwaysInSync == Spec => []EngineInSync
<1>1. ScheduleInv /\ SliceInv => EngineInSync
  BY EngineAgrees DEF SliceInv
<1> QED
  BY <1>1, SliceInvariant, PTL

-------------------------------------------------------------------------------
(* The edges between units.  A unit and its slice, once parsed, stay.      *)
IsParsed(u) == Ts(u) < Len(coded)
UnitOf(u) == Of(Ts(u))

LEMMA ParsedUnit ==
    ASSUME ScheduleInv, SliceInv, NEW u \in Coord, IsParsed(u)
    PROVE  /\ Ts(u) \in Parsed /\ Ts(u) \in Int /\ sliceAt(u) = UnitOf(u).slice
           /\ UnitOf(u).slice \in 1 .. newest /\ newest \in Nat
           /\ headerAt(u).flags = UnitOf(u).flags
<1>1. ScanTables(geo) /\ SliceTypes /\ SlicesInv /\ TilesInv /\ FlagsInv
  BY TablesGood DEF ScheduleInv, UnitsInv, SliceInv
<1>2. Ts(u) \in Addr /\ CoordInTs(Ts(u)) = u /\ Ts(u) \in Nat
  BY <1>1, TsType, SizeType DEF Addr
<1>3. Ts(u) \in Parsed
  BY <1>1, <1>2, UnitFields DEF IsParsed, Parsed, ScheduleInv
<1>4. sliceAt(u) = UnitOf(u).slice
  BY <1>1, <1>2, <1>3, LookUps DEF UnitOf, ScheduleInv
<1>5. UnitOf(u).slice \in 1 .. newest /\ newest \in Nat
  BY <1>1, <1>3, SliceFields DEF SlicesInv, UnitOf
<1>6. headerAt(u).flags = UnitOf(u).flags
  BY <1>1, <1>3, <1>4 DEF headerAt, FlagsInv, UnitOf
<1> QED
  BY <1>2, <1>3, <1>4, <1>5, <1>6

LEMMA SlicesFollow ==
    ASSUME ScheduleInv, SliceInv, NEW u \in Coord, IsParsed(u), NEW v \in Coord, IsParsed(v),
           UnitOf(u).slice < UnitOf(v).slice
    PROVE  Ts(u) < Ts(v)
<1>1. Ts(u) \in Parsed /\ Ts(u) \in Int /\ UnitOf(u).slice \in 1 .. newest
  BY ParsedUnit
<1>2. Ts(v) \in Parsed /\ Ts(v) \in Int /\ UnitOf(v).slice \in 1 .. newest
  BY ParsedUnit
<1>3. Ts(u) < slices[UnitOf(v).slice].ts /\ slices[UnitOf(v).slice].ts <= Ts(v)
  BY <1>1, <1>2 DEF SliceInv, SlicesInv, UnitOf
<1>4. slices[UnitOf(v).slice].ts \in Int
  BY <1>2, SliceFields DEF SliceInv
<1> QED
  BY <1>1, <1>2, <1>3, <1>4

LEMMA OpenIs ==
    ASSUME NEW u, NEW v
    PROVE  Open(u, v) <=>
             /\ \/ UnitOf(u).slice = UnitOf(v).slice
                \/ UnitOf(u).slice > UnitOf(v).slice /\ UnitOf(u).flags.acrossSlices
                \/ ~(UnitOf(u).slice > UnitOf(v).slice) /\ UnitOf(v).flags.acrossSlices
             /\ tileId(u) = tileId(v) \/ pps.acrossTiles
<1>1. UnitOf(u) = Of(geo.toTs[toAddrInRs(u)]) /\ UnitOf(v) = Of(geo.toTs[toAddrInRs(v)])
  BY DEF UnitOf, Ts
<1> DEFINE s == UnitOf(u)
           t == UnitOf(v)
           later == IF s.slice > t.slice THEN s ELSE t
<1>2. Open(u, v) <=> /\ s.slice = t.slice \/ later.flags.acrossSlices
                     /\ tileId(u) = tileId(v) \/ pps.acrossTiles
  BY <1>1, Zenon DEF Open
<1> HIDE DEF s, t
<1>3. CASE s.slice > t.slice
  BY <1>2, <1>3, Zenon DEF s, t
<1>4. CASE ~(s.slice > t.slice)
  BY <1>2, <1>4, Zenon DEF s, t
<1> QED
  BY <1>3, <1>4

LEMMA MayCross ==
    ASSUME ScheduleInv, SliceInv, NEW u \in Coord, IsParsed(u), NEW v \in Coord, IsParsed(v)
    PROVE  /\ isSaoAvailable(u, v) <=> Open(u, v)
           /\ headerAt(u).flags = FlagsOf(u)
           /\ Ts(v) < Ts(u) => (~isBdry(u, v) <=> Open(u, v))
<1> DEFINE s == UnitOf(u).slice
           t == UnitOf(v).slice
           su == UnitOf(u).flags.acrossSlices
           sv == UnitOf(v).flags.acrossSlices
           tiles == tileId(u) = tileId(v) \/ pps.acrossTiles
           Before(a, b) == Ts(a) < Ts(b)
<1>1. /\ sliceAt(u) = s /\ headerAt(u).flags = UnitOf(u).flags /\ s \in 1 .. newest
      /\ Ts(u) \in Int /\ newest \in Nat
  BY ParsedUnit
<1>2. /\ sliceAt(v) = t /\ headerAt(v).flags = UnitOf(v).flags /\ t \in 1 .. newest
      /\ Ts(v) \in Int
  BY ParsedUnit
<1>3. slices[s].rs = slices[t].rs <=> s = t
  <2> HIDE DEF s, t
  <2> QED
    BY <1>1, <1>2, SlicesApart DEF SliceInv
<1>4. s < t => Before(u, v)
  BY SlicesFollow
<1>5. t < s => Before(v, u)
  BY SlicesFollow
<1>6. /\ Ts(u) = geo.toTs[toAddrInRs(u)] /\ Ts(v) = geo.toTs[toAddrInRs(v)]
      /\ UnitOf(u).flags = FlagsOf(u)
  BY DEF Ts, UnitOf, FlagsOf
<1>7. ~(Before(u, v) /\ Before(v, u))
  BY <1>1, <1>2
<1>8. isSaoAvailable(u, v) <=>
        /\ ~ /\ s # t
             /\ (~su /\ Before(v, u)) \/ (~sv /\ Before(u, v))
        /\ tiles
  BY <1>1, <1>2, <1>3, <1>6, Zenon DEF isSaoAvailable
<1>9. ~isBdry(u, v) <=> ~(~su /\ s # t) /\ tiles
  BY <1>1, <1>2, <1>3, Zenon DEF isBdry, isTileBdry, isSliceBdry
<1>10. Open(u, v) <=> /\ s = t \/ (s > t /\ su) \/ (~(s > t) /\ sv)
                      /\ tiles
  BY OpenIs
<1> HIDE DEF s, t, su, sv, tiles
<1>11. (s < t \/ s = t \/ t < s) /\ (s > t <=> t < s) /\ ~(s < t /\ t < s)
       /\ ~(s < t /\ s = t) /\ ~(t < s /\ s = t)
  BY <1>1, <1>2
<1> HIDE DEF Before
<1>12. isSaoAvailable(u, v) <=> Open(u, v)
  BY <1>4, <1>5, <1>7, <1>8, <1>10, <1>11, Zenon
<1>13. Before(v, u) => (~isBdry(u, v) <=> Open(u, v))
  BY <1>4, <1>5, <1>7, <1>9, <1>10, <1>11, Zenon
<1> QED
  BY <1>1, <1>6, <1>12, <1>13 DEF Before

(* What was filtered was parsed, and so were the units around it.          *)
LEMMA FilteredParsed ==
    ASSUME ScheduleInv
    PROVE  /\ Completed <= Len(coded) /\ (pc = "filter" => Ts(current) < Len(coded))
           /\ \A u \in vertical : u \in Coord /\ IsParsed(u)
           /\ \A u \in horizontal : u \in Coord /\ IsParsed(u)
<1>0. ScanTables(geo) /\ Len(coded) = Len(ctus) /\ Len(ctus) \in Nat
  BY TablesGood, LenType DEF ScheduleInv, UnitsInv
<1>1. Completed <= Len(coded) /\ Completed \in Int /\ (pc = "filter" => Ts(current) < Len(coded))
  BY <1>0, FilteringType DEF Completed
<1>2. ASSUME NEW u \in vertical PROVE u \in Coord /\ IsParsed(u)
  <2>1. u \in Coord /\ (Ts(u) < Completed \/ (pc = "filter" /\ u = current))
    BY <1>2 DEF ScheduleInv, DeblockInv, Called
  <2>2. Ts(u) \in Int
    BY <1>0, <2>1, TsType, SizeType DEF Addr
  <2> QED
    BY <1>0, <1>1, <2>1, <2>2 DEF IsParsed
<1>3. ASSUME NEW u \in horizontal PROVE u \in Coord /\ IsParsed(u)
  <2> DEFINE h == HorizontalAt(u)
  <2>1. u \in Coord /\ (Ts(h) < Completed \/ (pc = "filter" /\ h = current))
    BY <1>3 DEF ScheduleInv, DeblockInv, Called
  <2>2. h \in Coord /\ u[1] <= h[1] /\ u[2] <= h[2]
    <3>1. h \in Coord
      BY <2>1, AtType
    <3> QED
      BY <2>1, <3>1, CoordIsPair, SizeType DEF HorizontalAt, Within
  <2>3. Ts(u) <= Ts(h) /\ Ts(u) \in Int /\ Ts(h) \in Int
    BY <1>0, <2>1, <2>2, Dominated, TsType, SizeType DEF Addr
  <2>4. Ts(h) < Len(coded)
    BY <1>0, <1>1, <2>1, <2>3
  <2> QED
    BY <1>0, <2>1, <2>3, <2>4 DEF IsParsed
<1> QED
  BY <1>1, <1>2, <1>3

LEMMA NeighbourParsed ==
    ASSUME ScheduleInv, NEW u \in Coord, IsParsed(u), NEW v \in At(u, -1, 0) \cup At(u, 0, -1)
    PROVE  v \in Coord /\ IsParsed(v) /\ Ts(v) < Ts(u)
<1>0. ScanTables(geo) /\ Len(coded) \in Nat
  BY TablesGood, LenType DEF ScheduleInv, UnitsInv
<1>1. v \in Coord /\ v[1] <= u[1] /\ v[2] <= u[2] /\ (v[1] # u[1] \/ v[2] # u[2])
  <2>1. CASE v \in At(u, -1, 0)
    <3>1. 0 \in Int /\ -1 \in Int
      OBVIOUS
    <3>2. v \in Coord /\ v[1] = u[1] + (-1) /\ v[2] = u[2] + 0
      BY <2>1, <3>1, AtIs
    <3> QED
      BY <3>2, CoordIsPair
  <2>2. CASE v \in At(u, 0, -1)
    <3>1. 0 \in Int /\ -1 \in Int
      OBVIOUS
    <3>2. v \in Coord /\ v[1] = u[1] + 0 /\ v[2] = u[2] + (-1)
      BY <2>2, <3>1, AtIs
    <3> QED
      BY <3>2, CoordIsPair
  <2> QED
    BY <2>1, <2>2
<1>2. Ts(v) < Ts(u) /\ Ts(u) \in Int /\ Ts(v) \in Int
  BY <1>0, <1>1, Dominated, TsType, SizeType DEF Addr
<1> QED
  BY <1>0, <1>1, <1>2 DEF IsParsed

LEMMA AroundParsed ==
    ASSUME ScheduleInv, pc = "filter", NEW k \in 4 .. 9, Calls[k].due,
           NEW v \in Around(Calls[k].at) \cap Coord
    PROVE  IsParsed(v) /\ Calls[k].at \in Coord /\ IsParsed(Calls[k].at)
<1> DEFINE x == current[1]
           y == current[2]
           u == Calls[k].at
<1>0. /\ ScanTables(geo) /\ current \in Coord /\ Ts(current) < Len(coded)
      /\ Len(coded) \in Nat
  BY FilteringType, FilteredParsed, LenType DEF ScheduleInv, UnitsInv
<1>1. current = <<x, y>> /\ x \in Int /\ y \in Int
  BY <1>0, CoordIsPair
<1>2. CallTable(x, y)
  BY <1>1, CallsAre
<1>3. u \in Coord /\ u[1] <= x /\ u[2] <= y
  BY <1>0, CallsFor
<1>4. u[1] + 1 <= x \/ x = Width - 1
  <2>1. u = <<u[1], u[2]>> /\ u[1] \in Int
    BY <1>3, CoordIsPair
  <2>2. k \in {4, 5, 6, 7, 8, 9}
    OBVIOUS
  <2>3. x = Width - 1 \/ u[1] = x - 2 \/ u[1] = x - 1
    BY <1>1, <1>2, <2>2 DEF CallTable
  <2> QED
    BY <1>1, <2>1, <2>3
<1>5. u[2] + 1 <= y \/ y = Height - 1
  <2>1. u = <<u[1], u[2]>> /\ u[2] \in Int
    BY <1>3, CoordIsPair
  <2>2. k \in {4, 5, 6, 7, 8, 9}
    OBVIOUS
  <2>3. y = Height - 1 \/ u[2] = y - 1
    BY <1>1, <1>2, <2>2 DEF CallTable
  <2> QED
    BY <1>1, <2>1, <2>3
<1>6. v \in Coord /\ v[1] <= u[1] + 1 /\ v[2] <= u[2] + 1
  BY <1>3, CoordIsPair DEF Around
<1> HIDE DEF u, x, y
<1>7. v[1] <= x /\ v[2] <= y
  BY <1>1, <1>3, <1>4, <1>5, <1>6, CoordIsPair
<1>8. Ts(v) <= Ts(current) /\ Ts(v) \in Int /\ Ts(current) \in Int
  BY <1>0, <1>6, <1>7, Dominated, TsType, SizeType DEF Addr, x, y
<1>9. Ts(u) <= Ts(current) /\ Ts(u) \in Int
  BY <1>0, <1>3, Dominated, TsType, SizeType DEF Addr, x, y
<1> QED
  BY <1>0, <1>3, <1>8, <1>9 DEF IsParsed, u

(* Parsing another unit changes nothing between the units parsed before.   *)
LEMMA OpenKept ==
    ASSUME UNCHANGED pps, NEW u, NEW v, UnitOf(u)' = UnitOf(u), UnitOf(v)' = UnitOf(v)
    PROVE  (Open(u, v)' <=> Open(u, v)) /\ FlagsOf(u)' = FlagsOf(u)
<1>1. tileId(u)' = tileId(u) /\ tileId(v)' = tileId(v) /\ Ts(u)' = Ts(u)
  BY TablesSame DEF tileId
<1>2. FlagsOf(u) = UnitOf(u).flags /\ FlagsOf(u)' = UnitOf(u)'.flags
  BY DEF FlagsOf, UnitOf, Ts
<1>3. UnitOf(u) = Of(geo.toTs[toAddrInRs(u)]) /\ UnitOf(v) = Of(geo.toTs[toAddrInRs(v)])
  BY DEF UnitOf, Ts
<1>4. UnitOf(u)' = Of(geo.toTs[toAddrInRs(u)])' /\ UnitOf(v)' = Of(geo.toTs[toAddrInRs(v)])'
  BY DEF UnitOf, Ts
<1> QED
  BY <1>1, <1>2, <1>3, <1>4, Zenon DEF Open

LEMMA UnitsKept ==
    ASSUME ScheduleInv, SliceInv, [Next]_vars
    PROVE  /\ UNCHANGED pps /\ Len(coded) <= Len(coded')
           /\ \A u \in Coord : IsParsed(u) => IsParsed(u)' /\ UnitOf(u)' = UnitOf(u)
<1>1. ScanTables(geo) /\ Len(coded) \in Nat
  BY TablesGood, LenType DEF ScheduleInv, UnitsInv
<1>2. UNCHANGED pps /\ Len(coded) <= Len(coded') /\ \A ts \in Parsed : Of(ts)' = Of(ts)
  <2>1. CASE CodingTreeUnit
    <3>1. UNCHANGED pps
      BY <2>1 DEF CodingTreeUnit
    <3>2. Len(coded)' = Len(coded) + 1 /\ \A ts \in Parsed : Of(ts)' = Of(ts)
      BY <2>1, TypesCtu DEF SliceInv
    <3> QED
      BY <1>1, <3>1, <3>2
  <2>2. CASE Quiet
    <3>1. UNCHANGED <<pps, coded>>
      BY <2>2, QuietKeeps DEF SliceInv
    <3> QED
      BY <1>1, <3>1 DEF Of
  <2>3. CASE IndependentSegment
    BY <1>1, <2>3 DEF IndependentSegment, Of
  <2> QED
    BY <2>1, <2>2, <2>3, StepSplit
<1>3. Len(coded') \in Int
  <2>1. Len(coded)' \in Nat
    BY SliceStep DEF SliceInv, SliceTypes
  <2> QED
    BY <2>1
<1>4. ASSUME NEW u \in Coord, IsParsed(u) PROVE IsParsed(u)' /\ UnitOf(u)' = UnitOf(u)
  <2>1. Ts(u)' = Ts(u) /\ Ts(u) \in Int /\ Ts(u) \in Parsed
    BY <1>2, <1>4, TablesSame, ParsedUnit
  <2> QED
    BY <1>1, <1>2, <1>3, <1>4, <2>1 DEF IsParsed, UnitOf
<1> QED
  BY <1>2, <1>4

LEMMA EdgesKept ==
    ASSUME ScheduleInv, SliceInv, [Next]_vars,
           NEW u \in Coord, NEW v \in Coord, IsParsed(u), IsParsed(v)
    PROVE  (Open(u, v)' <=> Open(u, v)) /\ FlagsOf(u)' = FlagsOf(u)
BY UnitsKept, OpenKept

LEMMA CrossedFrame ==
    ASSUME ScheduleInv, SliceInv, CrossedInv, [Next]_vars,
           UNCHANGED <<crossed, vertical, horizontal, offset>>
    PROVE  CrossedInv'
<1>1. /\ UNCHANGED pps /\ Len(coded) <= Len(coded')
      /\ \A u \in Coord : IsParsed(u) => IsParsed(u)' /\ UnitOf(u)' = UnitOf(u)
  BY UnitsKept
<1>2. \A u, v : (SaoCrossed(u, v)' <=> SaoCrossed(u, v)) /\ (DeblockCrossed(u, v)' <=> DeblockCrossed(u, v))
  BY DEF SaoCrossed, DeblockCrossed
<1>3. ASSUME NEW u \in Coord, offset[u] # {}, NEW adj \in Around(u) \cap Coord
      PROVE  /\ IsParsed(u)' /\ IsParsed(adj)'
             /\ SaoCrossed(u, adj)' <=> FlagsOf(u)'.sao /\ Open(u, adj)'
  <2>1. IsParsed(u) /\ IsParsed(adj) /\ (SaoCrossed(u, adj) <=> FlagsOf(u).sao /\ Open(u, adj))
    BY <1>3 DEF CrossedInv, IsParsed
  <2> QED
    BY <1>1, <1>2, <2>1, EdgesKept
<1>4. ASSUME NEW u \in vertical, NEW left \in At(u, -1, 0)
      PROVE  DeblockCrossed(u, left)' <=> FlagsOf(u)'.deblock /\ Open(u, left)'
  <2>1. u \in Coord /\ left \in Coord /\ IsParsed(u) /\ IsParsed(left)
    BY FilteredParsed, NeighbourParsed
  <2>2. DeblockCrossed(u, left) <=> FlagsOf(u).deblock /\ Open(u, left)
    BY DEF CrossedInv
  <2> QED
    BY <1>2, <2>1, <2>2, EdgesKept
<1>5. ASSUME NEW u \in horizontal, NEW above \in At(u, 0, -1)
      PROVE  DeblockCrossed(u, above)' <=> FlagsOf(u)'.deblock /\ Open(u, above)'
  <2>1. u \in Coord /\ above \in Coord /\ IsParsed(u) /\ IsParsed(above)
    BY FilteredParsed, NeighbourParsed
  <2>2. DeblockCrossed(u, above) <=> FlagsOf(u).deblock /\ Open(u, above)
    BY DEF CrossedInv
  <2> QED
    BY <1>2, <2>1, <2>2, EdgesKept
<1>6. \A u, v \in Coord : /\ SaoCrossed(u, v) => offset[u] # {}
                          /\ DeblockCrossed(u, v) => \/ v \in At(u, -1, 0) /\ u \in vertical
                                                     \/ v \in At(u, 0, -1) /\ u \in horizontal
  BY DEF CrossedInv
<1> QED
  BY <1>2, <1>3, <1>4, <1>5, <1>6 DEF CrossedInv, IsParsed

(* The three kinds of filter calls, and the edges they cross.              *)
LEMMA FilterCrosses ==
    ASSUME ScheduleInv, Filter
    PROVE  /\ pc = "filter" /\ call \in 1 .. 9 /\ current \in Coord
           /\ UNCHANGED <<pps, coded>>
           /\ \/ call = 1 /\ DeblockV(current)
              \/ call \in {2, 3} /\ Calls[call].due /\ DeblockH(Calls[call].at)
              \/ call \in 4 .. 9 /\ Calls[call].due /\ SampleAdaptiveOffset(Calls[call].at)
              \/ UNCHANGED <<vertical, horizontal, offset, crossed>>
<1>1. /\ pc = "filter" /\ call \in 1 .. 9 /\ UNCHANGED <<pps, coded>>
  BY FilterCalls
<1>2. current \in Coord
  BY <1>1, FilteringType
<1> DEFINE w == ctuAt(Calls[call].at)
<1>3. Calls[call].due => w = Calls[call].at
  BY <1>1, <1>2, CallsFor, CtuAt
<1>4. CASE Calls[call].due /\ Calls[call].op = "V" /\ DeblockV(w)
  <2>1. call = 1 /\ Calls[1].at = current
    BY <1>4, <1>2, <1>1, CallsFor
  <2> QED
    BY <1>1, <1>2, <1>3, <1>4, <2>1
<1>5. CASE Calls[call].due /\ Calls[call].op = "H" /\ DeblockH(w)
  <2>1. call \in {2, 3}
    BY <1>5, <1>2, <1>1, CallsFor
  <2> QED
    BY <1>1, <1>2, <1>3, <1>5, <2>1
<1>6. CASE Calls[call].due /\ Calls[call].op = "SAO" /\ SampleAdaptiveOffset(w)
  <2>1. call \in 4 .. 9
    BY <1>6, <1>2, <1>1, CallsFor
  <2> QED
    BY <1>1, <1>2, <1>3, <1>6, <2>1
<1>7. CASE UNCHANGED <<vertical, horizontal, offset, crossed>>
  BY <1>1, <1>2, <1>7
<1> QED
  BY <1>4, <1>5, <1>6, <1>7, Zenon DEF Filter

LEMMA FilterEdges ==
    ASSUME UNCHANGED <<pps, coded>>
    PROVE  \A u, v : /\ (Open(u, v)' <=> Open(u, v)) /\ FlagsOf(u)' = FlagsOf(u)
                     /\ IsParsed(u)' <=> IsParsed(u)
<1> SUFFICES ASSUME NEW u, NEW v
             PROVE  /\ (Open(u, v)' <=> Open(u, v)) /\ FlagsOf(u)' = FlagsOf(u)
                    /\ IsParsed(u)' <=> IsParsed(u)
  OBVIOUS
<1>1. UnitOf(u)' = UnitOf(u) /\ UnitOf(v)' = UnitOf(v) /\ (IsParsed(u)' <=> IsParsed(u))
  BY TablesSame DEF UnitOf, Of, IsParsed
<1> QED
  BY <1>1, OpenKept

LEMMA EdgeCrossed ==
    ASSUME ScheduleInv, SliceInv, NEW u \in Coord, IsParsed(u),
           NEW n, n \in {<<u[1] - 1, u[2]>>, <<u[1], u[2] - 1>>}, DeblockEdge(u, n)
    PROVE  /\ \A a, b \in Coord :
                DeblockCrossed(a, b)' <=> \/ DeblockCrossed(a, b)
                                          \/ a = u /\ b = n /\ FlagsOf(u).deblock /\ Open(u, n)
           /\ \A a, b : SaoCrossed(a, b)' <=> SaoCrossed(a, b)
<1> DEFINE added == headerAt(u).flags.deblock /\ ~isBdry(u, n)
<1>1. crossed' = IF added THEN crossed \cup {<<"deblock", u, n>>} ELSE crossed
  BY DEF DeblockEdge
<1>2. n \in Coord => (added <=> FlagsOf(u).deblock /\ Open(u, n))
  <2> SUFFICES ASSUME n \in Coord PROVE added <=> FlagsOf(u).deblock /\ Open(u, n)
    OBVIOUS
  <2>1. n \in At(u, -1, 0) \cup At(u, 0, -1)
    <3>1. u[1] \in Int /\ u[2] \in Int
      BY CoordIsPair
    <3>2. <<u[1] - 1, u[2]>> = <<u[1] + (-1), u[2] + 0>> /\ <<u[1], u[2] - 1>> = <<u[1] + 0, u[2] + (-1)>>
      BY <3>1
    <3> QED
      BY <3>2 DEF At
  <2>2. IsParsed(n) /\ Ts(n) < Ts(u)
    BY <2>1, NeighbourParsed
  <2> QED
    BY <2>2, MayCross
<1> HIDE DEF added
<1>3. ASSUME NEW a \in Coord, NEW b \in Coord
      PROVE  DeblockCrossed(a, b)' <=> \/ DeblockCrossed(a, b)
                                       \/ a = u /\ b = n /\ FlagsOf(u).deblock /\ Open(u, n)
  <2>1. <<"deblock", a, b>> = <<"deblock", u, n>> <=> a = u /\ b = n
    OBVIOUS
  <2> QED
    BY <1>1, <1>2, <2>1 DEF DeblockCrossed
<1>4. ASSUME NEW a, NEW b PROVE SaoCrossed(a, b)' <=> SaoCrossed(a, b)
  <2>1. <<"sao", a, b>> # <<"deblock", u, n>>
    OBVIOUS
  <2> QED
    BY <1>1, <2>1 DEF SaoCrossed
<1> QED
  BY <1>3, <1>4

LEMMA SidesDiffer ==
    ASSUME NEW u \in Coord
    PROVE  /\ \A b \in At(u, -1, 0) : b = <<u[1] - 1, u[2]>>
           /\ \A b \in At(u, 0, -1) : b = <<u[1], u[2] - 1>>
           /\ <<u[1] - 1, u[2]>> # <<u[1], u[2] - 1>>
           /\ \A b \in Coord : b = <<u[1] - 1, u[2]>> => b \in At(u, -1, 0)
           /\ \A b \in Coord : b = <<u[1], u[2] - 1>> => b \in At(u, 0, -1)
<1>1. u[1] \in Int /\ u[2] \in Int
  BY CoordIsPair
<1>2. <<u[1] - 1, u[2]>> = <<u[1] + (-1), u[2] + 0>> /\ <<u[1], u[2] - 1>> = <<u[1] + 0, u[2] + (-1)>>
  BY <1>1
<1>3. <<u[1] - 1, u[2]>> # <<u[1], u[2] - 1>>
  BY <1>1
<1> QED
  BY <1>2, <1>3, Zenon DEF At

LEMMA CrossV ==
    ASSUME ScheduleInv, SliceInv, CrossedInv, UNCHANGED <<pps, coded>>,
           NEW u \in Coord, IsParsed(u), DeblockV(u)
    PROVE  CrossedInv'
<1> DEFINE n == <<u[1] - 1, u[2]>>
           F == FlagsOf(u).deblock /\ Open(u, n)
<1>1. vertical' = vertical \cup {u} /\ DeblockEdge(u, n) /\ UNCHANGED <<horizontal, offset>>
  BY DEF DeblockV
<1>2. /\ \A a, b \in Coord : DeblockCrossed(a, b)' <=> DeblockCrossed(a, b) \/ (a = u /\ b = n /\ F)
      /\ \A a, b : SaoCrossed(a, b)' <=> SaoCrossed(a, b)
  BY <1>1, EdgeCrossed
<1>3. \A a, b : /\ (Open(a, b)' <=> Open(a, b)) /\ FlagsOf(a)' = FlagsOf(a)
                /\ IsParsed(a)' <=> IsParsed(a)
  BY FilterEdges
<1> HIDE DEF n, F
<1>4. ASSUME NEW a \in vertical', NEW b \in At(a, -1, 0)
      PROVE  DeblockCrossed(a, b)' <=> FlagsOf(a).deblock /\ Open(a, b)
  <2>1. a \in Coord /\ b \in Coord /\ b = <<a[1] - 1, a[2]>>
    BY <1>1, FilteredParsed, SidesDiffer DEF At
  <2>2. CASE a \in vertical
    <3>1. DeblockCrossed(a, b) <=> FlagsOf(a).deblock /\ Open(a, b)
      BY <2>2 DEF CrossedInv
    <3> QED
      BY <1>2, <2>1, <3>1 DEF F, n
  <2>3. CASE a \notin vertical
    <3>1. a = u /\ b = n
      BY <1>1, <2>1, <2>3 DEF n
    <3>2. ~DeblockCrossed(a, b)
      <4>1. b \notin At(a, 0, -1)
        BY <2>1, SidesDiffer
      <4> QED
        BY <2>1, <2>3, <4>1 DEF CrossedInv
    <3> QED
      BY <1>2, <2>1, <3>1, <3>2 DEF F, n
  <2> QED
    BY <2>2, <2>3
<1>5. ASSUME NEW a \in horizontal, NEW b \in At(a, 0, -1)
      PROVE  DeblockCrossed(a, b)' <=> FlagsOf(a).deblock /\ Open(a, b)
  <2>1. a \in Coord /\ b \in Coord /\ b = <<a[1], a[2] - 1>> /\ b # <<a[1] - 1, a[2]>>
    BY FilteredParsed, SidesDiffer DEF At
  <2>2. ~(a = u /\ b = n)
    BY <2>1 DEF n
  <2> QED
    BY <1>2, <2>1, <2>2 DEF CrossedInv
<1>6. ASSUME NEW a \in Coord, NEW b \in Coord, DeblockCrossed(a, b)'
      PROVE  \/ b \in At(a, -1, 0) /\ a \in vertical'
             \/ b \in At(a, 0, -1) /\ a \in horizontal
  <2>1. CASE DeblockCrossed(a, b)
    BY <1>1, <2>1 DEF CrossedInv
  <2>2. CASE a = u /\ b = n
    BY <1>1, <2>2, SidesDiffer DEF n
  <2> QED
    BY <1>2, <1>6, <2>1, <2>2
<1>7. ASSUME NEW a \in Coord, offset[a] # {}, NEW b \in Around(a) \cap Coord
      PROVE  /\ IsParsed(a) /\ IsParsed(b)
             /\ SaoCrossed(a, b)' <=> FlagsOf(a).sao /\ Open(a, b)
  BY <1>2, <1>7 DEF CrossedInv, IsParsed
<1>8. \A a, b \in Coord : SaoCrossed(a, b)' => offset[a] # {}
  BY <1>2 DEF CrossedInv
<1> QED
  BY <1>1, <1>3, <1>4, <1>5, <1>6, <1>7, <1>8 DEF CrossedInv, IsParsed

LEMMA CrossH ==
    ASSUME ScheduleInv, SliceInv, CrossedInv, UNCHANGED <<pps, coded>>,
           NEW u \in Coord, IsParsed(u), DeblockH(u)
    PROVE  CrossedInv'
<1> DEFINE n == <<u[1], u[2] - 1>>
           F == FlagsOf(u).deblock /\ Open(u, n)
<1>1. horizontal' = horizontal \cup {u} /\ DeblockEdge(u, n) /\ UNCHANGED <<vertical, offset>>
  BY DEF DeblockH
<1>2. /\ \A a, b \in Coord : DeblockCrossed(a, b)' <=> DeblockCrossed(a, b) \/ (a = u /\ b = n /\ F)
      /\ \A a, b : SaoCrossed(a, b)' <=> SaoCrossed(a, b)
  BY <1>1, EdgeCrossed
<1>3. \A a, b : /\ (Open(a, b)' <=> Open(a, b)) /\ FlagsOf(a)' = FlagsOf(a)
                /\ IsParsed(a)' <=> IsParsed(a)
  BY FilterEdges
<1> HIDE DEF n, F
<1>4. ASSUME NEW a \in horizontal', NEW b \in At(a, 0, -1)
      PROVE  DeblockCrossed(a, b)' <=> FlagsOf(a).deblock /\ Open(a, b)
  <2>1. a \in Coord /\ b \in Coord /\ b = <<a[1], a[2] - 1>>
    BY <1>1, FilteredParsed, SidesDiffer DEF At
  <2>2. CASE a \in horizontal
    <3>1. DeblockCrossed(a, b) <=> FlagsOf(a).deblock /\ Open(a, b)
      BY <2>2 DEF CrossedInv
    <3> QED
      BY <1>2, <2>1, <3>1 DEF F, n
  <2>3. CASE a \notin horizontal
    <3>1. a = u /\ b = n
      BY <1>1, <2>1, <2>3 DEF n
    <3>2. ~DeblockCrossed(a, b)
      <4>1. b \notin At(a, -1, 0)
        BY <2>1, SidesDiffer
      <4> QED
        BY <2>1, <2>3, <4>1 DEF CrossedInv
    <3> QED
      BY <1>2, <2>1, <3>1, <3>2 DEF F, n
  <2> QED
    BY <2>2, <2>3
<1>5. ASSUME NEW a \in vertical, NEW b \in At(a, -1, 0)
      PROVE  DeblockCrossed(a, b)' <=> FlagsOf(a).deblock /\ Open(a, b)
  <2>1. a \in Coord /\ b \in Coord /\ b = <<a[1] - 1, a[2]>> /\ b # <<a[1], a[2] - 1>>
    BY FilteredParsed, SidesDiffer DEF At
  <2>2. ~(a = u /\ b = n)
    BY <2>1 DEF n
  <2> QED
    BY <1>2, <2>1, <2>2 DEF CrossedInv
<1>6. ASSUME NEW a \in Coord, NEW b \in Coord, DeblockCrossed(a, b)'
      PROVE  \/ b \in At(a, -1, 0) /\ a \in vertical
             \/ b \in At(a, 0, -1) /\ a \in horizontal'
  <2>1. CASE DeblockCrossed(a, b)
    BY <1>1, <2>1 DEF CrossedInv
  <2>2. CASE a = u /\ b = n
    BY <1>1, <2>2, SidesDiffer DEF n
  <2> QED
    BY <1>2, <1>6, <2>1, <2>2
<1>7. ASSUME NEW a \in Coord, offset[a] # {}, NEW b \in Around(a) \cap Coord
      PROVE  /\ IsParsed(a) /\ IsParsed(b)
             /\ SaoCrossed(a, b)' <=> FlagsOf(a).sao /\ Open(a, b)
  BY <1>2, <1>7 DEF CrossedInv, IsParsed
<1>8. \A a, b \in Coord : SaoCrossed(a, b)' => offset[a] # {}
  BY <1>2 DEF CrossedInv
<1> QED
  BY <1>1, <1>3, <1>4, <1>5, <1>6, <1>7, <1>8 DEF CrossedInv, IsParsed

LEMMA CrossSao ==
    ASSUME ScheduleInv, SliceInv, CrossedInv, UNCHANGED <<pps, coded>>, pc = "filter",
           call \in 4 .. 9, Calls[call].due, SampleAdaptiveOffset(Calls[call].at)
    PROVE  CrossedInv'
<1> DEFINE w == Calls[call].at
           S == {<<"sao", w, b>> : b \in {a \in Around(w) : headerAt(w).flags.sao /\ isSaoAvailable(w, a)}}
<1>1. /\ offset' = [offset EXCEPT ![w] = Deblocked] /\ crossed' = crossed \cup S
      /\ UNCHANGED <<vertical, horizontal>>
  BY DEF SampleAdaptiveOffset, Deblocked
<1>2. /\ current \in Coord /\ Called(1) /\ w \in Coord
  <2>1. current \in Coord /\ Called(1)
    BY FilteringType
  <2> QED
    BY <2>1, CallsFor
<1>3. Deblocked # {}
  <2>1. current \in vertical
    BY <1>2 DEF ScheduleInv, DeblockInv
  <2>2. <<"V", current>> \in Deblocked
    BY <2>1 DEF Deblocked
  <2> QED
    BY <2>2
<1>4. \A a, b : /\ (Open(a, b)' <=> Open(a, b)) /\ FlagsOf(a)' = FlagsOf(a)
                /\ IsParsed(a)' <=> IsParsed(a)
  BY FilterEdges
<1>5. \A b \in Around(w) \cap Coord : IsParsed(b) /\ IsParsed(w)
  BY AroundParsed
<1>6. \A b \in Around(w) \cap Coord :
        headerAt(w).flags.sao /\ isSaoAvailable(w, b) <=> FlagsOf(w).sao /\ Open(w, b)
  BY <1>2, <1>5, MayCross
<1>7. \A b : b \in Around(w) /\ isSaoAvailable(w, b) => b \in Around(w) \cap Coord
  BY DEF isSaoAvailable
<1>8. offset \in [Coord -> SUBSET ({"V", "H"} \X Coord)]
  BY DEF ScheduleInv, OffsetInv
<1>9. \A a \in Coord : offset'[a] = IF a = w THEN Deblocked ELSE offset[a]
  <2> HIDE DEF w
  <2> QED
    BY <1>1, <1>2, <1>8
<1>10. \A a, b : SaoCrossed(a, b)' <=>
          \/ SaoCrossed(a, b)
          \/ a = w /\ b \in Around(w) /\ headerAt(w).flags.sao /\ isSaoAvailable(w, b)
  <2> SUFFICES ASSUME NEW a, NEW b
               PROVE  SaoCrossed(a, b)' <=>
                        \/ SaoCrossed(a, b)
                        \/ a = w /\ b \in Around(w) /\ headerAt(w).flags.sao /\ isSaoAvailable(w, b)
    OBVIOUS
  <2>1. \A c : <<"sao", a, b>> = <<"sao", w, c>> <=> a = w /\ b = c
    OBVIOUS
  <2> HIDE DEF w
  <2>2. <<"sao", a, b>> \in S <=>
          a = w /\ b \in Around(w) /\ headerAt(w).flags.sao /\ isSaoAvailable(w, b)
    BY <2>1, Zenon
  <2> QED
    BY <1>1, <2>2, Zenon DEF SaoCrossed
<1>11. \A a, b : DeblockCrossed(a, b)' <=> DeblockCrossed(a, b)
  <2> SUFFICES ASSUME NEW a, NEW b PROVE <<"deblock", a, b>> \notin S
    BY <1>1 DEF DeblockCrossed
  <2> QED
    OBVIOUS
<1> HIDE DEF w, S
<1>12. ASSUME NEW a \in Coord, NEW b \in Coord, SaoCrossed(a, b)' PROVE offset'[a] # {}
  <2>1. CASE a = w
    BY <1>3, <1>9, <2>1
  <2>2. CASE a # w
    BY <1>9, <1>10, <1>12, <2>2 DEF CrossedInv
  <2> QED
    BY <2>1, <2>2
<1>13. ASSUME NEW a \in Coord, offset'[a] # {}, NEW b \in Around(a) \cap Coord
       PROVE  /\ IsParsed(a) /\ IsParsed(b)
              /\ SaoCrossed(a, b)' <=> FlagsOf(a).sao /\ Open(a, b)
  <2>1. CASE offset[a] # {}
    <3>1. IsParsed(a) /\ IsParsed(b) /\ (SaoCrossed(a, b) <=> FlagsOf(a).sao /\ Open(a, b))
      BY <2>1 DEF CrossedInv, IsParsed
    <3> QED
      BY <1>6, <1>10, <3>1
  <2>2. CASE offset[a] = {}
    <3>1. a = w
      BY <1>9, <1>13, <2>2
    <3>2. ~SaoCrossed(a, b)
      BY <2>2 DEF CrossedInv
    <3> QED
      BY <1>5, <1>6, <1>10, <3>1, <3>2
  <2> QED
    BY <2>1, <2>2
<1> QED
  BY <1>1, <1>4, <1>11, <1>12, <1>13 DEF CrossedInv, IsParsed

LEMMA CrossedStep ==
    ASSUME ScheduleInv, SliceInv, CrossedInv, [Next]_vars
    PROVE  CrossedInv'
<1>1. CASE Filter
  <2>1. /\ pc = "filter" /\ call \in 1 .. 9 /\ current \in Coord /\ UNCHANGED <<pps, coded>>
    BY <1>1, FilterCrosses
  <2>2. IsParsed(current)
    BY <2>1, FilteredParsed DEF IsParsed
  <2>3. CASE call = 1 /\ DeblockV(current)
    BY <2>1, <2>2, <2>3, CrossV
  <2>4. CASE call \in {2, 3} /\ Calls[call].due /\ DeblockH(Calls[call].at)
    <3> DEFINE u == Calls[call].at
    <3>1. u \in Coord /\ u[1] <= current[1] /\ u[2] <= current[2]
      BY <2>1, <2>4, CallsFor
    <3>2. ScanTables(geo) /\ Len(coded) \in Nat /\ Ts(current) < Len(coded)
      BY <2>1, FilteringType, FilteredParsed, LenType DEF ScheduleInv, UnitsInv
    <3> HIDE DEF u
    <3>3. Ts(u) <= Ts(current) /\ Ts(u) \in Int /\ Ts(current) \in Int
      BY <2>1, <3>1, <3>2, Dominated, TsType, SizeType DEF Addr
    <3>4. IsParsed(u)
      BY <3>2, <3>3 DEF IsParsed
    <3>5. DeblockH(u)
      BY <2>4 DEF u
    <3> QED
      BY <2>1, <3>1, <3>4, <3>5, CrossH
  <2>5. CASE call \in 4 .. 9 /\ Calls[call].due /\ SampleAdaptiveOffset(Calls[call].at)
    BY <2>1, <2>5, CrossSao
  <2>6. CASE UNCHANGED <<vertical, horizontal, offset, crossed>>
    BY <2>6, CrossedFrame
  <2> QED
    BY <1>1, <2>3, <2>4, <2>5, <2>6, FilterCrosses
<1>2. CASE ~Filter
  <2>1. UNCHANGED <<crossed, vertical, horizontal, offset>>
    BY <1>2 DEF Next, Parse, Done, StartFilters, FiltersDone, filterVars, vars
  <2> QED
    BY <2>1, CrossedFrame
<1> QED
  BY <1>1, <1>2

LEMMA CrossedInit ==
    ASSUME Init
    PROVE  CrossedInv
BY DEF Init, CrossedInv, SaoCrossed, DeblockCrossed

(* FiltersAgree: on every edge between two units, deblocking and sample    *)
(* adaptive offset follow the flag of the slice decoded later and the      *)
(* tiles' flag, however late or early the unit is filtered                 *)
(* (DeblockEdges.cpp, SampleAdaptiveOffset.cpp).                           *)
THEOREM FiltersAlwaysAgree == Spec => []FiltersAgree
<1>1. Init => ScheduleInv /\ SliceInv /\ CrossedInv
  BY ScheduleInit, SliceInit, CrossedInit
<1>2. ScheduleInv /\ SliceInv /\ CrossedInv /\ [Next]_vars => ScheduleInv' /\ SliceInv' /\ CrossedInv'
  BY ScheduleStep, SliceStep, CrossedStep
<1>3. CrossedInv => FiltersAgree
  <2> SUFFICES ASSUME CrossedInv PROVE FiltersAgree
    OBVIOUS
  <2>1. ASSUME NEW u \in Final PROVE u \in Coord /\ offset[u] # {}
    <3>1. u \in Coord /\ {"V"} \X VerticalReach(u) \subseteq offset[u]
      BY DEF Final
    <3>2. u \in VerticalReach(u)
      <4>1. u = <<u[1] + 0, u[2] + 0>>
        BY <3>1, CoordIsPair
      <4>2. u \in At(u, 0, 0)
        BY <3>1, <4>1 DEF At
      <4> QED
        BY <4>2 DEF VerticalReach
    <3>3. <<"V", u>> \in offset[u]
      BY <3>1, <3>2
    <3> QED
      BY <3>1, <3>3
  <2> QED
    BY <2>1 DEF CrossedInv, FiltersAgree, SaoCrossed, DeblockCrossed
<1> QED
  BY <1>1, <1>2, <1>3, PTL DEF Spec
================================================================================

------------------------------- MODULE CodingTree -------------------------------
(***************************************************************************)
(* The coding quad trees of a picture and its quantization parameters      *)
(* (Syntax/CodingQuadTree.cpp, CodingUnit.cpp, TransformUnit.cpp,          *)
(* Decoder/Processes/QuantizationParameters.cpp, the hooks of              *)
(* Decoder/State.cpp).  Positions and sizes are counted in coding blocks   *)
(* of the smallest size.  A coding unit is its place in the tree and its   *)
(* quantization parameters; of its transform units, those with a residual  *)
(* are kept, and of a chroma QP the offset it is derived from.             *)
(***************************************************************************)
EXTENDS PictureScan, QuadTree

CONSTANTS
    WidthInMinCbs, HeightInMinCbs,  \* the picture
    CtbDepth,       \* log2 of a coding tree unit's side
    QpBdOffset,     \* QpBdOffsetY
    Layouts,        \* bound: tiles, slices and flags of the picture
    Qps,            \* bound: the luma QPs the encoder codes
    Offsets,        \* bound: the chroma offsets the encoder codes
    MaxTus          \* bound: transform units with a residual in a coding unit

Levels == CtbDepth + 1

sizeAt(depth) == side(Levels, depth)

CtbSize == sizeAt(0)

ASSUME BlocksAssumption ==
    /\ WidthInMinCbs \in Nat \ {0} /\ HeightInMinCbs \in Nat \ {0} /\ CtbDepth \in Nat
    /\ Width = (WidthInMinCbs + CtbSize - 1) \div CtbSize
    /\ Height = (HeightInMinCbs + CtbSize - 1) \div CtbSize
    /\ \A l \in Layouts :
        /\ ProperSpacing(Width, l.columns) /\ ProperSpacing(Height, l.rows)
        /\ l.groupDepth \in 0 .. CtbDepth /\ l.offsetDepth \in 0 .. CtbDepth

QpRange == -QpBdOffset .. 51

(* QpBdOffsetY is six for each bit of depth above eight; a slice's QP is   *)
(* in range; wavefronts come without tiles (SliceSegmentData.cpp 91).      *)
ASSUME QpsAssumption ==
    /\ QpBdOffset \in Nat /\ QpBdOffset % 6 = 0 /\ MaxTus \in Nat
    /\ Qps \subseteq QpRange /\ Offsets \subseteq Int
    /\ \A l \in Layouts :
        /\ l.starts \subseteq 0 .. Width * Height - 1 /\ 0 \in l.starts
        /\ \A ts \in l.starts : l.qp[ts] \in QpRange
        /\ {l.sync, l.delta, l.offsets, l.bypass} \subseteq BOOLEAN
        /\ l.sync => l.columns.n = 1

VARIABLES
    layout,         \* the picture's parameter sets and slices
    ctus,           \* Picture::m_ctu: the coding quad tree of each unit
    pending,        \* the recursion of CodingQuadTree::onParse: what it parses next
    cu,             \* the coding unit being parsed
    qpStatus,       \* State::qpStatus
    enc,            \* the encoder: its predictor, choices and coding units
    elements        \* the last QP elements sent and parsed, or split context

vars == <<layout, ctus, pending, cu, qpStatus, enc, elements>>

Geometries == [l \in Layouts |-> Geometry(l.columns, l.rows)]

geo == Geometries[layout]

Block == (0 .. WidthInMinCbs - 1) \X (0 .. HeightInMinCbs - 1)

toCtb(at) == <<at[1] \div CtbSize, at[2] \div CtbSize>>

toBlock(ctb) == <<ctb[1] * CtbSize, ctb[2] * CtbSize>>

offsetInCtb(at) == <<at[1] % CtbSize, at[2] % CtbSize>>

addrInTs(at) == geo.toTs[toAddrInRs(toCtb(at))]

tileId(at) == geo.tile[toCtb(at)]

(* The slice of a block, by the address where it begins.                   *)
sliceAddr(at) == Max({ts \in layout.starts : ts <= addrInTs(at)})

SliceQpY(at) == layout.qp[sliceAddr(at)]

-------------------------------------------------------------------------------
(* Picture::getCodingQuadTree and getCodingUnit.                           *)
getCodingQuadTree(at) ==
    LET tree == ctus[addrInTs(at) + 1]
    IN  tree[toIndex(Levels, tree, offsetInCtb(at))]

(* A quantization parameter is a set: empty until it is constructed.       *)
The(constructed) == CHOOSE value \in constructed : TRUE

QpYAt(at) == The(getCodingQuadTree(at).qpY)

toAddrInScanZ(at) ==
    addrInTs(at) * (CtbSize * CtbSize) + toAddrScanZ(Levels, offsetInCtb(at))

(* isAvailableInScanZ.                                                     *)
isAvailable(curr, adj) ==
    /\ adj \in Block
    /\ toAddrInScanZ(adj) <= toAddrInScanZ(curr)
    /\ sliceAddr(adj) = sliceAddr(curr)
    /\ tileId(adj) = tileId(curr)

-------------------------------------------------------------------------------
(* The prediction of a luma QP (QuantizationParameters.cpp); curr is the   *)
(* corner of a quantization group and of a coding unit.                    *)
GroupDepth == layout.groupDepth     \* diff_cu_qp_delta_depth

OffsetDepth == layout.offsetDepth   \* diff_cu_chroma_qp_offset_depth

GroupSize == sizeAt(GroupDepth)

toGroup(at) == <<at[1] \div GroupSize, at[2] \div GroupSize>>

isFirstInSlice(curr) == curr = toBlock(toCoord(geo.toRs[sliceAddr(curr)]))

isFirstInTile(curr) ==
    LET first == Min({geo.toTs[toAddrInRs(u)] :
                        u \in {v \in Coord : geo.tile[v] = tileId(curr)}})
    IN  curr = toBlock(toCoord(geo.toRs[first]))

isFirstInWpp(curr) == layout.sync /\ curr[1] = 0 /\ curr[2] % CtbSize = 0

limitToPictureBoundaries(at) ==
    <<Min({WidthInMinCbs - 1, at[1]}), Min({HeightInMinCbs - 1, at[2]})>>

(* The last block of a square, as far as the picture reaches.              *)
LastBlock(corner, size) ==
    limitToPictureBoundaries(<<corner[1] + size - 1, corner[2] + size - 1>>)

(* The corner of the group before curr's in its unit's z-scan, leaving out *)
(* those outside the picture.                                              *)
Groups == area(GroupDepth + 1, 0)

prevGroup(curr) ==
    LET offset == offsetInCtb(curr)
        addr == toAddrScanZ(GroupDepth + 1, toGroup(offset))
        corner(back) ==
            LET at == toCoordScanZ(GroupDepth + 1, (addr + Groups - back) % Groups)
            IN  <<curr[1] - offset[1] + at[1] * GroupSize,
                  curr[2] - offset[2] + at[2] * GroupSize>>
    IN  corner(Min({back \in 1 .. Groups : corner(back) \in Block}))

deriveQpYprev(curr) ==
    IF isFirstInSlice(curr) \/ isFirstInTile(curr) \/ isFirstInWpp(curr)
    THEN SliceQpY(curr)
    ELSE IF offsetInCtb(curr) = <<0, 0>>
    THEN QpYAt(LastBlock(toBlock(toCoord(geo.toRs[addrInTs(curr) - 1])), CtbSize))
    ELSE QpYAt(LastBlock(prevGroup(curr), GroupSize))

(* Mutant of deriveQpYn: a neighbour in another coding tree unit counts.   *)
deriveQpYnAcross(curr, adj) ==
    IF isAvailable(curr, adj) THEN QpYAt(adj) ELSE deriveQpYprev(curr)

deriveQpYn(curr, adj) ==
    IF isAvailable(curr, adj) /\ addrInTs(adj) = addrInTs(curr)
    THEN QpYAt(adj) ELSE deriveQpYprev(curr)

deriveQpYpred(curr) ==
    (deriveQpYn(curr, <<curr[1] - 1, curr[2]>>)
     + deriveQpYn(curr, <<curr[1], curr[2] - 1>>) + 1) \div 2

(* The remainder of C++, which has the sign of the dividend.               *)
Rem(a, b) == IF a >= 0 THEN a % b ELSE -((-a) % b)

(* Mutant of deriveQpY: the sum is not raised by the range of the QPs.     *)
deriveQpYUnraised(status) ==
    Rem(status.qpYpred + status.cuQpDeltaVal + QpBdOffset, 52 + QpBdOffset) - QpBdOffset

deriveQpY(status) ==
    Rem(status.qpYpred + status.cuQpDeltaVal + 52 + 2 * QpBdOffset, 52 + QpBdOffset)
    - QpBdOffset

-------------------------------------------------------------------------------
(* The encoder.  It knows its coding units in coding order and groups them *)
(* by their position; a QP is predicted from the unit coded before the     *)
(* group and from those to the left and above in the same coding tree      *)
(* unit.                                                                   *)
SameGroup(size, c, d) ==
    <<c.at[1] \div size, c.at[2] \div size>> = <<d.at[1] \div size, d.at[2] \div size>>

LastCu == enc.cus[Len(enc.cus)]

Begins(c, size) == enc.cus = <<>> \/ ~SameGroup(size, LastCu, c)

Covers(c, at) ==
    \A i \in 1 .. 2 : at[i] \in c.at[i] .. c.at[i] + sizeAt(c.depth) - 1

CodedAt(at) == {i \in DOMAIN enc.cus : Covers(enc.cus[i], at)}

EncPrev(at) ==
    IF \/ enc.cus = <<>>
       \/ sliceAddr(LastCu.at) # sliceAddr(at)
       \/ tileId(LastCu.at) # tileId(at)
       \/ layout.sync /\ toCtb(LastCu.at)[2] # toCtb(at)[2]
    THEN SliceQpY(at) ELSE LastCu.qpY

EncNeighbour(at, adj) ==
    LET found == {i \in CodedAt(adj) : toCtb(enc.cus[i].at) = toCtb(at)}
    IN  IF found = {} THEN EncPrev(at) ELSE enc.cus[Max(found)].qpY

EncPred(at) ==
    (EncNeighbour(at, <<at[1] - 1, at[2]>>) + EncNeighbour(at, <<at[1], at[2] - 1>>) + 1) \div 2

(* The difference the encoder sends for a QP, in the range of CuQpDeltaVal.*)
EncDelta ==
    LET half == 26 + QpBdOffset \div 2
    IN  ((enc.target - enc.pred + half) % (52 + QpBdOffset)) - half

EncQpY == IF enc.sentDelta THEN enc.target ELSE enc.pred

(* How many of the neighbours in the same slice and tile are split deeper. *)
EncSplitContext(n) ==
    Cardinality({adj \in {<<n.at[1] - 1, n.at[2]>>, <<n.at[1], n.at[2] - 1>>} :
        \E i \in CodedAt(adj) :
            /\ sliceAddr(enc.cus[i].at) = sliceAddr(n.at)
            /\ tileId(enc.cus[i].at) = tileId(n.at)
            /\ enc.cus[i].depth > n.depth})

-------------------------------------------------------------------------------
(* The coding quad tree.  A node of the recursion is its corner and depth. *)
NoCu == [at |-> <<0, 0>>, depth |-> 0, bypass |-> FALSE, tus |-> 0, open |-> FALSE]

Node(at, depth) == [at |-> at, depth |-> depth]

CurrTree == ctus[Len(ctus)]

(* CodingTreeUnit::onParse.                                                *)
CodingTreeUnit ==
    LET ts == Len(ctus)
    IN  /\ pending = <<>> /\ ~cu.open /\ ts < Width * Height
        /\ ctus' = Append(ctus, EmptyTree)
        /\ pending' = <<Node(toBlock(toCoord(geo.toRs[ts])), 0)>>
        /\ UNCHANGED <<layout, cu, qpStatus, enc, elements>>

splitFlagParsed(n) ==
    /\ n.at[1] + sizeAt(n.depth) <= WidthInMinCbs
    /\ n.at[2] + sizeAt(n.depth) <= HeightInMinCbs
    /\ n.depth < CtbDepth

(* split_cu_flag, sent or inferred.                                        *)
SplitCuFlag(n) == IF splitFlagParsed(n) THEN BOOLEAN ELSE {n.depth < CtbDepth}

splitContext(n) ==
    Cardinality({adj \in {<<n.at[1] - 1, n.at[2]>>, <<n.at[1], n.at[2] - 1>>} :
        isAvailable(n.at, adj) /\ getCodingQuadTree(adj).depth > n.depth})

(* Mutant of GroupReset: every coding quad tree begins a group.            *)
GroupResetAlways(depth, status) ==
    [status EXCEPT !.isCuQpDeltaCoded = FALSE, !.cuQpDeltaVal = 0,
                   !.isCuQpOffsetCoded = FALSE, !.cuQpOffset = 0]

(* The quantization groups begin at tree nodes of their size or larger.    *)
GroupReset(depth, status) ==
    LET delta == ~layout.delta \/ depth <= GroupDepth
        offsets == ~layout.offsets \/ depth <= OffsetDepth
    IN  [status EXCEPT
            !.isCuQpDeltaCoded = IF delta THEN FALSE ELSE @,
            !.cuQpDeltaVal = IF delta THEN 0 ELSE @,
            !.isCuQpOffsetCoded = IF offsets THEN FALSE ELSE @,
            !.cuQpOffset = IF offsets THEN 0 ELSE @]

(* Mutant of Quarters: only those that lie inside with all their blocks.   *)
QuartersWhole(n) ==
    LET s == sizeAt(n.depth + 1)
        Coded(dx, dy) ==
            IF n.at[1] + dx + s <= WidthInMinCbs /\ n.at[2] + dy + s <= HeightInMinCbs
            THEN <<Node(<<n.at[1] + dx, n.at[2] + dy>>, n.depth + 1)>> ELSE <<>>
    IN  Coded(0, 0) \o Coded(s, 0) \o Coded(0, s) \o Coded(s, s)

(* The quarters in z-scan; those outside the picture are not coded.        *)
Quarters(n) ==
    LET s == sizeAt(n.depth + 1)
        Coded(dx, dy) ==
            IF n.at[1] + dx < WidthInMinCbs /\ n.at[2] + dy < HeightInMinCbs
            THEN <<Node(<<n.at[1] + dx, n.at[2] + dy>>, n.depth + 1)>> ELSE <<>>
    IN  Coded(0, 0) \o Coded(s, 0) \o Coded(0, s) \o Coded(s, s)

AppendNode(n, split) ==
    ctus' = [ctus EXCEPT ![Len(ctus)] =
                Appended(Levels, @, offsetInCtb(n.at),
                         [depth |-> n.depth, split |-> split, qpY |-> {}, offset |-> {}])]

SplitContexts(n) ==
    IF splitFlagParsed(n) THEN [sent |-> {EncSplitContext(n)}, parsed |-> {splitContext(n)}]
                          ELSE [sent |-> {}, parsed |-> {}]

Split ==
    LET n == Head(pending)
    IN  /\ pending # <<>> /\ ~cu.open
        /\ TRUE \in SplitCuFlag(n)
        /\ elements' = SplitContexts(n)
        /\ AppendNode(n, TRUE)
        /\ qpStatus' = GroupReset(n.depth, qpStatus)
        /\ pending' = Quarters(n) \o Tail(pending)
        /\ UNCHANGED <<layout, cu, enc>>

(* State::onStart(CodingUnit): the prediction is made once in a group.     *)
OnStartCu(at, status) ==
    IF at[1] % GroupSize = 0 /\ at[2] % GroupSize = 0
    THEN [status EXCEPT !.qpYpred = deriveQpYpred(at)] ELSE status

EncStartCu(n) ==
    LET begins == Begins(n, GroupSize)
        beginsOffset == Begins(n, sizeAt(OffsetDepth))
    IN  \E target \in IF begins THEN Qps ELSE {enc.target} :
            enc' = [enc EXCEPT
                !.pred = IF begins THEN EncPred(n.at) ELSE @,
                !.target = target,
                !.sentDelta = IF begins THEN FALSE ELSE @,
                !.sentOffset = IF beginsOffset THEN FALSE ELSE @,
                !.offset = IF beginsOffset THEN 0 ELSE @]

(* A leaf of the tree, as far as the coding unit's residual.               *)
CodingUnit ==
    LET n == Head(pending)
    IN  /\ pending # <<>> /\ ~cu.open
        /\ FALSE \in SplitCuFlag(n)
        /\ elements' = SplitContexts(n)
        /\ AppendNode(n, FALSE)
        /\ qpStatus' = OnStartCu(n.at, GroupReset(n.depth, qpStatus))
        /\ \E bypass \in {FALSE, layout.bypass} :
            cu' = [at |-> n.at, depth |-> n.depth, bypass |-> bypass, tus |-> 0, open |-> TRUE]
        /\ EncStartCu(n)
        /\ pending' = Tail(pending)
        /\ UNCHANGED layout

-------------------------------------------------------------------------------
(* TransformUnit::onParse for a unit with a residual: cbfC, and whether    *)
(* the chroma residual is coded with it or with a later unit.              *)
WithDelta(status) ==
    IF layout.delta /\ ~status.isCuQpDeltaCoded
    THEN [status EXCEPT !.isCuQpDeltaCoded = TRUE, !.cuQpDeltaVal = EncDelta]
    ELSE status

offsetParsed(cbfC) == layout.offsets /\ cbfC /\ ~cu.bypass /\ ~qpStatus.isCuQpOffsetCoded

WithOffset(status, cbfC, value) ==
    IF offsetParsed(cbfC)
    THEN [status EXCEPT !.isCuQpOffsetCoded = TRUE, !.cuQpOffset = value]
    ELSE status

OffsetSent(cbfC) == layout.offsets /\ cbfC /\ ~cu.bypass /\ ~enc.sentOffset

(* The QPs are constructed with the first residual that needs them, the    *)
(* luma one by the first of any plane (State::onStart(ResidualCoding)).    *)
CuIndex == toIndex(Levels, CurrTree, offsetInCtb(cu.at))

Constructed(node, luma, chroma, status) ==
    [node EXCEPT !.qpY = IF luma /\ @ = {} THEN {deriveQpY(status)} ELSE @,
                 !.offset = IF chroma /\ @ = {} THEN {status.cuQpOffset} ELSE @]

ConstructQps(luma, chroma, status) ==
    ctus' = [ctus EXCEPT ![Len(ctus)][CuIndex] = Constructed(@, luma, chroma, status)]

TransformUnit(cbfY, cbfC, later) ==
    /\ cu.open /\ cu.tus < MaxTus
    /\ cbfY \/ cbfC
    /\ later => cbfC
    /\ \E value \in IF OffsetSent(cbfC) THEN Offsets ELSE {enc.offset} :
        LET status == WithOffset(WithDelta(qpStatus), cbfC, value)
        IN  /\ qpStatus' = status
            /\ ConstructQps(cbfY \/ (cbfC /\ ~later), cbfC /\ ~later, status)
            /\ enc' = [enc EXCEPT !.sentDelta = @ \/ layout.delta,
                                  !.sentOffset = @ \/ OffsetSent(cbfC),
                                  !.offset = value]
    /\ elements' =
        [sent |-> {e \in {"delta", "offset"} :
                     IF e = "delta" THEN layout.delta /\ ~enc.sentDelta ELSE OffsetSent(cbfC)},
         parsed |-> {e \in {"delta", "offset"} :
                       IF e = "delta" THEN layout.delta /\ ~qpStatus.isCuQpDeltaCoded
                                      ELSE offsetParsed(cbfC)}]
    /\ cu' = [cu EXCEPT !.tus = @ + 1]
    /\ UNCHANGED <<layout, pending>>

(* State::onFinish(CodingUnit).                                            *)
FinishCodingUnit ==
    /\ cu.open
    /\ ConstructQps(TRUE, TRUE, qpStatus)
    /\ enc' = [enc EXCEPT !.cus = Append(@, [at |-> cu.at, depth |-> cu.depth,
                                             qpY |-> EncQpY, offset |-> enc.offset])]
    /\ cu' = NoCu
    /\ UNCHANGED <<layout, pending, qpStatus, elements>>

-------------------------------------------------------------------------------
Init ==
    /\ layout \in Layouts
    /\ ctus = <<>> /\ pending = <<>> /\ cu = NoCu
    /\ qpStatus = [qpYpred |-> 0, isCuQpDeltaCoded |-> FALSE, cuQpDeltaVal |-> 0,
                   isCuQpOffsetCoded |-> FALSE, cuQpOffset |-> 0]
    /\ enc = [pred |-> 0, target |-> 0, sentDelta |-> FALSE, sentOffset |-> FALSE,
              offset |-> 0, cus |-> <<>>]
    /\ elements = [sent |-> {}, parsed |-> {}]

PictureDone == Len(ctus) = Width * Height /\ pending = <<>> /\ ~cu.open

Done == PictureDone /\ UNCHANGED vars

Next ==
    \/ CodingTreeUnit
    \/ Split
    \/ CodingUnit
    \/ \E cbfY, cbfC, later \in BOOLEAN : TransformUnit(cbfY, cbfC, later)
    \/ FinishCodingUnit
    \/ Done

Spec == Init /\ [][Next]_vars

-------------------------------------------------------------------------------
(* Every variable has its type, and every constructed QP is in range: the  *)
(* C++ remainder of deriveQpY never sees a negative sum.                   *)
TypeOK ==
    /\ layout \in Layouts
    /\ Len(ctus) <= Width * Height
    /\ \A t \in DOMAIN ctus : \A i \in DOMAIN ctus[t] :
        /\ ctus[t][i].depth \in 0 .. CtbDepth /\ ctus[t][i].split \in BOOLEAN
        /\ ctus[t][i].qpY \subseteq QpRange /\ ctus[t][i].offset \subseteq Offsets \cup {0}
    /\ \A i \in DOMAIN pending : pending[i].at \in Block /\ pending[i].depth \in 0 .. CtbDepth
    /\ cu.at \in Block /\ cu.tus \in 0 .. MaxTus
    /\ qpStatus.cuQpDeltaVal \in -(26 + QpBdOffset \div 2) .. 25 + QpBdOffset \div 2

(* Every coding unit, whenever it is looked up later and at any of its     *)
(* blocks, has the QP and the chroma offset the encoder coded it with:     *)
(* differences and offsets are parsed in the units that carry them, units  *)
(* without a residual get the group's, and every prediction made from the  *)
(* tree is the one made from the coding order.                             *)
QpsAgree ==
    \A i \in DOMAIN enc.cus :
        LET c == enc.cus[i]
        IN  \A at \in {b \in Block : Covers(c, b)} :
            /\ getCodingQuadTree(at).qpY = {c.qpY}
            /\ getCodingQuadTree(at).offset = {c.offset}

(* The decoder parses cu_qp_delta_abs and cu_chroma_qp_offset_flag where   *)
(* the encoder sent them, and split_cu_flag in the context it was sent in; *)
(* otherwise the arithmetic decoder is lost (TransformUnit.cpp,            *)
(* CodingQuadTree.cpp).                                                    *)
ElementsAgree == elements.sent = elements.parsed

(* When a picture is done, every block of it is in exactly one coding      *)
(* unit, no unit reaches outside, and the tree finds that unit from the    *)
(* block: no split at the picture's boundary loses or repeats a block.     *)
PictureCovered ==
    /\ \A i \in DOMAIN enc.cus : LET c == enc.cus[i] IN
        /\ c.at[1] + sizeAt(c.depth) <= WidthInMinCbs
        /\ c.at[2] + sizeAt(c.depth) <= HeightInMinCbs
    /\ PictureDone => \A b \in Block :
        /\ Cardinality(CodedAt(b)) = 1
        /\ ~getCodingQuadTree(b).split
        /\ \A i \in CodedAt(b) : getCodingQuadTree(b).depth = enc.cus[i].depth
===============================================================================

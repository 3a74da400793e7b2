----------------------------- MODULE SliceDecoding -----------------------------
(***************************************************************************)
(* The slices of a picture: slice segment headers and data                 *)
(* (Syntax/SliceSegmentHeader.cpp, SliceSegmentData.cpp), the picture's    *)
(* tiles, slices and coding tree units (Structure/Picture.h, Tile.h,       *)
(* Slice.h), and the synchronisation of the CABAC contexts.  A slice is    *)
(* its position in the picture's list.  The contexts are abstracted to the *)
(* slice they were initialised for and the units they have learned from.   *)
(***************************************************************************)
EXTENDS PictureScan

CONSTANTS
    PpsChoices,     \* bound: the picture parameter sets
    HeaderFlags,    \* bound: the loop filter flags of a slice header
    MaxSegments     \* bound: slice segments that end where they need not

(* What the standard demands of a parameter set, and the parser of its     *)
(* slices: more than one tile only with the flag, and not with wavefronts, *)
(* which it asserts (SliceSegmentData.cpp 91).                             *)
ASSUME PpsAssumption ==
    \A p \in PpsChoices :
        /\ ProperSpacing(Width, p.columns) /\ ProperSpacing(Height, p.rows)
        /\ {p.tiles, p.sync, p.acrossTiles} \subseteq BOOLEAN
        /\ ~p.tiles => p.columns.n = 1 /\ p.rows.n = 1
        /\ ~(p.tiles /\ p.sync)

VARIABLES
    pps,            \* the parameter set of the picture
    slices,         \* Picture::m_slice
    tileSlices,     \* Tile::m_slice of each tile
    ctus,           \* Picture::m_ctu, pushed in decoding order
    ssh,            \* the slice segment header parsed last
    ctbAddrInTs,    \* the unit being parsed
    firstInSegment, \* firstInSegmentCtbAddrInTs
    cabac,          \* Picture::m_activeCabadState
    saved,          \* Picture::m_cabadState
    engine,         \* "aligned": the next bit begins a sub-stream
    pc,             \* what is parsed next
    enc,            \* the encoder: slice, segment and where each began
    coded           \* history: slice, segment and contexts of each unit

sliceVars == <<pps, slices, tileSlices, ctus, ssh, ctbAddrInTs,
               firstInSegment, cabac, saved, engine, pc, enc, coded>>

Geometries == [p \in PpsChoices |-> Geometry(p.columns, p.rows)]

geo == Geometries[pps]       \* PictureProperties, fixed when the picture begins

tileId(u) == geo.tile[u]

NoFlags == [acrossSlices |-> TRUE, deblock |-> TRUE, sao |-> TRUE]

CoordInTs(ts) == toCoord(geo.toRs[ts])

-------------------------------------------------------------------------------
(* Mutant of findSlice: the tile's slice that was added last.              *)
findLastSlice(tile, ts) ==
    LET list == tileSlices[tile]
    IN  IF list = <<>> THEN 0 ELSE list[Len(list)]

(* Tile::findSlice: the last slice of the tile that begins at or before    *)
(* the unit, std::upper_bound - 1; 0 where the code would be out of range. *)
findSlice(tile, ts) ==
    LET list == tileSlices[tile]
        later == {i \in DOMAIN list : slices[list[i]].ts > ts}
        at == Min(later \cup {Len(list) + 1}) - 1
    IN  IF at = 0 THEN 0 ELSE list[at]

sliceAt(u) == findSlice(tileId(u), geo.toTs[toAddrInRs(u)])

(* Slice::header: the header of the slice's first segment.                 *)
headerAt(u) == slices[sliceAt(u)].segments[1]

(* isAvailableInScanZ for two units.                                       *)
isAvailable(curr, adj) ==
    /\ adj \in Coord
    /\ geo.toTs[toAddrInRs(adj)] <= geo.toTs[toAddrInRs(curr)]
    /\ slices[sliceAt(adj)].rs = slices[sliceAt(curr)].rs
    /\ tileId(adj) = tileId(curr)

-------------------------------------------------------------------------------
(* The encoder.  A slice, and a slice segment, holds whole tiles or lies   *)
(* within one; with wavefronts, one that begins inside a row ends in it.   *)
StartsTile(ts) ==
    ts # 0 => tileId(CoordInTs(ts)) # tileId(CoordInTs(ts - 1))

StartsRow(ts) == pps.sync /\ ts % Width = 0

MayExtend(first, next) ==
    /\ StartsTile(next) => StartsTile(first)
    /\ StartsRow(next) => StartsRow(first)

MayStop(first, next) ==
    StartsTile(next)
    \/ tileId(CoordInTs(first)) = tileId(CoordInTs(next - 1))

MayContinue(next) == MayExtend(enc.sliceStart, next) /\ MayExtend(enc.segmentStart, next)

MayEnd(next) ==
    /\ MayStop(enc.segmentStart, next)
    /\ enc.segment < MaxSegments \/ ~MayContinue(next)

-------------------------------------------------------------------------------
(* A slice segment header, up to State::onFinish(SliceSegmentHeader): the  *)
(* address of its slice, and a new slice unless it is dependent.           *)
(* Mutant of SegmentAddress: an address in tile scan.                      *)
SegmentAddressInTs == Len(coded)

SegmentAddress == geo.toRs[Len(coded)]

calcSliceAddrRs(dependent) ==
    IF dependent
    THEN slices[sliceAt(CoordInTs(geo.toTs[SegmentAddress] - 1))].rs
    ELSE SegmentAddress

Header(dependent, flags) ==
    [dependent |-> dependent, address |-> SegmentAddress,
     sliceAddr |-> calcSliceAddrRs(dependent), flags |-> flags]

AddSlice(rs) ==
    LET tile == tileId(toCoord(rs))
    IN  /\ slices' = Append(slices, [rs |-> rs, ts |-> geo.toTs[rs], segments |-> <<>>])
        /\ tileSlices' = [tileSlices EXCEPT ![tile] = Append(@, Len(slices) + 1)]

IndependentSegment ==
    /\ pc = "header"
    /\ coded # <<>> => MayStop(enc.sliceStart, Len(coded))
    /\ \E flags \in HeaderFlags :
        /\ ssh' = Header(FALSE, flags)
        /\ enc' = [slice |-> enc.slice + 1, segment |-> enc.segment + 1, flags |-> flags,
                   sliceStart |-> Len(coded), segmentStart |-> Len(coded)]
    /\ AddSlice(SegmentAddress)
    /\ pc' = "data"
    /\ UNCHANGED <<pps, ctus, ctbAddrInTs, firstInSegment, cabac, saved, engine, coded>>

DependentSegment ==
    /\ pc = "header"
    /\ coded # <<>> /\ MayExtend(enc.sliceStart, Len(coded))
    /\ ssh' = Header(TRUE, enc.flags)
    /\ enc' = [enc EXCEPT !.segment = @ + 1, !.segmentStart = Len(coded)]
    /\ pc' = "data"
    /\ UNCHANGED <<pps, slices, tileSlices, ctus, ctbAddrInTs, firstInSegment,
                   cabac, saved, engine, coded>>

(* State::onStart(SliceSegmentData): the segment joins the last slice.     *)
StartSliceSegmentData ==
    /\ pc = "data"
    /\ slices' = [slices EXCEPT ![Len(slices)].segments = Append(@, ssh)]
    /\ ctbAddrInTs' = geo.toTs[ssh.address]
    /\ firstInSegment' = geo.toTs[ssh.address]
    /\ engine' = "aligned"
    /\ pc' = "ctu"
    /\ UNCHANGED <<pps, tileSlices, ctus, ssh, cabac, saved, enc, coded>>

-------------------------------------------------------------------------------
(* The contexts with which a unit is parsed.                               *)
tileBoundary(ts) == pps.tiles /\ StartsTile(ts)

wppBoundary(ts) == pps.sync /\ ts % Width = 0

isFirstInSegment == ctbAddrInTs = firstInSegment

(* The unit above and to the right, where the wavefront's contexts are.    *)
availableNbT ==
    LET u == CoordInTs(ctbAddrInTs)
    IN  isAvailable(u, <<u[1] + 1, u[2] - 1>>)

initialized == [slice |-> sliceAt(toCoord(ssh.sliceAddr)), learned |-> {}]

(* Mutant of Point: a dependent segment restores the end of the previous   *)
(* segment even when it begins a row of a wavefront.                       *)
PointSegmentFirst ==
    IF tileBoundary(ctbAddrInTs) THEN "initialize"
    ELSE IF isFirstInSegment /\ ssh.dependent THEN "DSS"
    ELSE IF wppBoundary(ctbAddrInTs) THEN IF availableNbT THEN "WPP" ELSE "initialize"
    ELSE IF isFirstInSegment THEN "initialize" ELSE "continue"

Point ==
    IF tileBoundary(ctbAddrInTs) THEN "initialize"
    ELSE IF wppBoundary(ctbAddrInTs) THEN IF availableNbT THEN "WPP" ELSE "initialize"
    ELSE IF ~isFirstInSegment THEN "continue"
    ELSE IF ssh.dependent THEN "DSS" ELSE "initialize"

contexts ==
    CASE Point = "initialize" -> initialized
      [] Point = "continue"   -> cabac
      [] OTHER                -> saved[Point]

(* The parser's assertions in front of a unit.                             *)
syntaxChecks ==
    /\ ~(tileBoundary(ctbAddrInTs) /\ wppBoundary(ctbAddrInTs))
    /\ Point = "WPP" => ~(isFirstInSegment /\ ~ssh.dependent)

(* State::onStart(CodingTreeUnit): a tile in which no slice begins gets    *)
(* the slice it lies in.                                                   *)
AddCtu(u) ==
    LET tile == tileId(u)
    IN  /\ ctus' = Append(ctus, u)
        /\ tileSlices' = [tileSlices EXCEPT ![tile] = IF @ = <<>> THEN <<Len(slices)>> ELSE @]

CodingTreeUnit ==
    /\ pc = "ctu"
    /\ AddCtu(CoordInTs(ctbAddrInTs))
    /\ cabac' = [contexts EXCEPT !.learned = @ \cup {ctbAddrInTs}]
    /\ coded' = Append(coded, [slice |-> enc.slice, segment |-> enc.segment,
                               flags |-> enc.flags, contexts |-> contexts])
    /\ engine' = "running"
    /\ pc' = "filter"
    /\ UNCHANGED <<pps, slices, ssh, ctbAddrInTs, firstInSegment, saved, enc>>

-------------------------------------------------------------------------------
(* After a unit, contexts are kept for the next row; the sub-stream ends   *)
(* in front of the first unit of a tile or, with wavefronts, of a row.     *)
StoreWpp ==
    IF pps.sync /\ CoordInTs(ctbAddrInTs)[1] = 1 THEN [saved EXCEPT !["WPP"] = cabac]
                                                 ELSE saved

(* Mutant of EndsSubStream: wavefronts only.                               *)
EndsSubStreamInRow(next) == wppBoundary(next)

EndsSubStream(next) == tileBoundary(next) \/ wppBoundary(next)

NextUnit ==
    LET next == ctbAddrInTs + 1
    IN  /\ pc = "endFlag" /\ next \in Addr /\ MayContinue(next)
        /\ ctbAddrInTs' = next
        /\ engine' = IF EndsSubStream(next) THEN "aligned" ELSE engine
        /\ saved' = StoreWpp
        /\ pc' = "ctu"
        /\ UNCHANGED <<pps, slices, tileSlices, ctus, ssh, firstInSegment, cabac,
                       enc, coded>>

EndOfSliceSegment ==
    LET next == ctbAddrInTs + 1
    IN  /\ pc = "endFlag"
        /\ next \in Addr => MayEnd(next)
        /\ saved' = [StoreWpp EXCEPT !["DSS"] = cabac]
        /\ pc' = IF next \in Addr THEN "header" ELSE "done"
        /\ UNCHANGED <<pps, slices, tileSlices, ctus, ssh, ctbAddrInTs,
                       firstInSegment, cabac, engine, enc, coded>>
===============================================================================

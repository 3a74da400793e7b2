---------------------------- MODULE PictureDecoding ----------------------------
(***************************************************************************)
(* A picture decoded from its slice segments: the parser of slice data and *)
(* the in-loop filters, called as each coding tree unit is finished.       *)
(***************************************************************************)
EXTENDS LoopFilter

vars == <<sliceVars, filterVars>>

Init ==
    /\ pps \in PpsChoices
    /\ slices = <<>> /\ ctus = <<>> /\ coded = <<>>
    /\ tileSlices = [id \in 0 .. pps.columns.n * pps.rows.n - 1 |-> <<>>]
    /\ ssh = [dependent |-> FALSE, address |-> 0, sliceAddr |-> 0, flags |-> NoFlags]
    /\ ctbAddrInTs = 0 /\ firstInSegment = 0
    /\ cabac = [slice |-> 0, learned |-> {}]
    /\ saved = [point \in {"WPP", "DSS"} |-> cabac]
    /\ engine = "running" /\ pc = "header"
    /\ enc = [slice |-> 0, segment |-> 0, flags |-> NoFlags, sliceStart |-> 0,
              segmentStart |-> 0]
    /\ call = 1 /\ vertical = {} /\ horizontal = {} /\ crossed = {}
    /\ offset = [u \in Coord |-> {}]

Parse ==
    \/ IndependentSegment /\ UNCHANGED filterVars
    \/ DependentSegment /\ UNCHANGED filterVars
    \/ StartSliceSegmentData /\ UNCHANGED filterVars
    \/ CodingTreeUnit /\ StartFilters
    \/ NextUnit /\ UNCHANGED filterVars
    \/ EndOfSliceSegment /\ UNCHANGED filterVars

Done == pc = "done" /\ UNCHANGED vars

Next == Parse \/ Filter \/ FiltersDone \/ Done

Spec == Init /\ [][Next]_vars

-------------------------------------------------------------------------------
Parsed == 0 .. Len(coded) - 1

Of(ts) == coded[ts + 1]

(* Every variable has its type, and slices and units are listed in         *)
(* decoding order.                                                         *)
TypeOK ==
    /\ pps \in PpsChoices
    /\ \A i \in DOMAIN slices :
        /\ slices[i].rs \in Addr /\ slices[i].ts = geo.toTs[slices[i].rs]
        /\ i > 1 => slices[i - 1].ts < slices[i].ts
    /\ \A id \in DOMAIN tileSlices : \A i \in DOMAIN tileSlices[id] :
        tileSlices[id][i] \in DOMAIN slices
    /\ \A i \in DOMAIN ctus : ctus[i] = CoordInTs(i - 1)
    /\ ctbAddrInTs \in Addr /\ firstInSegment \in Addr
    /\ engine \in {"aligned", "running"}
    /\ pc \in {"header", "data", "ctu", "filter", "endFlag", "done"}
    /\ vertical \cup horizontal \subseteq Coord

(* The scan tables are inverse to each other and follow the tiles from     *)
(* left to right and top to bottom, and the rows within a tile; tiles      *)
(* cover the picture (PictureProperties.cpp).  They never change, so one   *)
(* look, before the first unit, is enough.                                 *)
ScanOrder ==
    LET Tile(rs) == <<SpanAt(geo.rowBd, toCoord(rs)[2]), SpanAt(geo.colBd, toCoord(rs)[1])>>
        Key(rs) == <<Tile(rs)[1], Tile(rs)[2], toCoord(rs)[2], toCoord(rs)[1]>>
        Precedes(k, l) ==
            \E i \in 1 .. 4 : k[i] < l[i] /\ \A j \in 1 .. i - 1 : k[j] = l[j]
    IN  coded = <<>> =>
        /\ geo.colBd[pps.columns.n] = Width /\ geo.rowBd[pps.rows.n] = Height
        /\ \A i \in 1 .. pps.columns.n : geo.colBd[i - 1] < geo.colBd[i]
        /\ \A i \in 1 .. pps.rows.n : geo.rowBd[i - 1] < geo.rowBd[i]
        /\ ScanTables(geo)
        /\ \A a, b \in Addr : geo.toTs[a] < geo.toTs[b] <=> Precedes(Key(a), Key(b))

(* Every look-up of a unit's slice, at any time after the unit was begun,  *)
(* names the slice the encoder put the unit in: with slices inside tiles,  *)
(* tiles inside slices and dependent segments (Tile::findSlice).           *)
SliceNamed ==
    pc # "filter" => \A ts \in Parsed : sliceAt(CoordInTs(ts)) = Of(ts).slice

(* The contexts of every unit are the encoder's: fresh at the first unit   *)
(* of a tile and of a slice, those of the unit above and to the right at   *)
(* the first unit of a wavefront's row if that unit is in the same slice,  *)
(* those at the end of the previous segment in a dependent segment, and    *)
(* those after the previous unit elsewhere (SliceSegmentData.cpp).         *)
ContextsSynchronised ==
    pc = "endFlag" => \A ts \in Parsed :
        LET u == CoordInTs(ts)
            fresh == [slice |-> Of(ts).slice, learned |-> {}]
            After(t) == [Of(t).contexts EXCEPT !.learned = @ \cup {t}]
            above == ts - Width + 1
        IN  Of(ts).contexts =
              IF StartsTile(ts) THEN fresh
              ELSE IF StartsRow(ts)
                   THEN IF above >= 0 /\ u[1] + 1 < Width /\ Of(above).slice = Of(ts).slice
                        THEN After(above) ELSE fresh
              ELSE IF Of(ts - 1).slice # Of(ts).slice THEN fresh
              ELSE After(ts - 1)

(* The arithmetic decoder is initialised where a sub-stream begins and     *)
(* nowhere else, and the parser's assertions hold there.                   *)
EngineInSync ==
    pc = "ctu" => /\ Point # "continue" <=> engine = "aligned"
                  /\ syntaxChecks

(* The units whose final samples were taken when every deblocking that     *)
(* changes them or the ring around them was done.  In the last row a unit  *)
(* is first filtered too early and then again (State.cpp 519-531): only    *)
(* the last time counts.                                                   *)
Final ==
    {u \in Coord : ({"V"} \X VerticalReach(u)) \cup ({"H"} \X HorizontalReach(u)) \subseteq offset[u]}

(* When the picture is complete every unit has been decoded and has passed *)
(* both deblocking steps and sample adaptive offset.                       *)
PictureComplete ==
    pc = "done" =>
        /\ Len(ctus) = Width * Height
        /\ vertical = Coord /\ horizontal = Coord /\ Final = Coord

(* Between two units the filters agree on crossing the edge: the slice     *)
(* decoded later decides, whichever of the two is filtered, and the tiles' *)
(* flag (DeblockEdges.cpp, SampleAdaptiveOffset.cpp).                      *)
Open(u, adj) ==
    LET s == Of(geo.toTs[toAddrInRs(u)])
        t == Of(geo.toTs[toAddrInRs(adj)])
        later == IF s.slice > t.slice THEN s ELSE t
    IN  /\ s.slice = t.slice \/ later.flags.acrossSlices
        /\ tileId(u) = tileId(adj) \/ pps.acrossTiles

FlagsOf(u) == Of(geo.toTs[toAddrInRs(u)]).flags

FiltersAgree ==
    pc = "endFlag" =>
        /\ \A u \in Final : \A adj \in Around(u) \cap Coord :
            <<"sao", u, adj>> \in crossed <=> FlagsOf(u).sao /\ Open(u, adj)
        /\ \A u \in vertical : \A left \in At(u, -1, 0) :
            <<"deblock", u, left>> \in crossed <=> FlagsOf(u).deblock /\ Open(u, left)
        /\ \A u \in horizontal : \A above \in At(u, 0, -1) :
            <<"deblock", u, above>> \in crossed <=> FlagsOf(u).deblock /\ Open(u, above)

(* The schedule keeps the order the samples require, with any slices and   *)
(* tiles: InLoopFilters.                                                   *)
Filters == INSTANCE InLoopFilters WITH decoded <- {ctus[i] : i \in DOMAIN ctus}, offset <- Final

KeepsFilterOrder == Filters!Spec
===============================================================================

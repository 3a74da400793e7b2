------------------------------ MODULE PictureScan ------------------------------
(***************************************************************************)
(* The geometry of a picture in coding tree units                          *)
(* (Structure/PictureProperties.cpp): the tile columns and rows, and the   *)
(* conversions between raster and tile scan.  An address in raster scan    *)
(* (Rs) or in tile scan (Ts) is a number from 0, a unit's coordinates are  *)
(* a pair.                                                                 *)
(***************************************************************************)
EXTENDS Integers, Sequences, FiniteSetsExt

CONSTANTS Width, Height      \* the picture, in coding tree units

ASSUME SizeAssumption == Width \in Nat \ {0} /\ Height \in Nat \ {0}

Addr == 0 .. Width * Height - 1

Coord == (0 .. Width - 1) \X (0 .. Height - 1)

toCoord(rs) == <<rs % Width, rs \div Width>>

toAddrInRs(u) == u[2] * Width + u[1]

(* The unit at a distance from u, if the picture has it.                   *)
At(u, dx, dy) == {<<u[1] + dx, u[2] + dy>>} \cap Coord

(* The units whose edges change samples of u or of the ring around it that *)
(* edge offset compares with: an edge reaches less than half a unit.       *)
VerticalReach(u) == UNION {At(u, dx, dy) : dx \in {-1, 0, 1}, dy \in {-1, 0, 1}}
HorizontalReach(u) == UNION {At(u, dx, dy) : dx \in {-1, 0, 1}, dy \in {0, 1}}

-------------------------------------------------------------------------------
(* colBd and rowBd: where span i begins, counted from 0, and the end.      *)
Boundaries(spans) ==
    LET bd[i \in 0 .. Len(spans)] == IF i = 0 THEN 0 ELSE bd[i - 1] + spans[i]
    IN  bd

(* colWidth and rowHeight: n spans of equal size, as near as whole units   *)
(* allow, or explicit ones of which the last takes what is left.           *)
UniformSpans(size, n) ==
    [i \in 1 .. n |-> (size * i) \div n - (size * (i - 1)) \div n]

ExplicitSpans(size, first) ==
    Append(first, size - Boundaries(first)[Len(first)])

Spans(size, spacing) ==
    IF spacing.uniform \/ spacing.n = 1 THEN UniformSpans(size, spacing.n)
                                        ELSE ExplicitSpans(size, spacing.first)

(* A spacing of the parameter set in which every span holds a unit, as the *)
(* ranges of num_tile_columns_minus1 and column_width_minus1 have it.      *)
ProperSpacing(size, spacing) ==
    /\ spacing.uniform \in BOOLEAN /\ spacing.n \in 1 .. size
    /\ ~(spacing.uniform \/ spacing.n = 1) =>
        /\ spacing.first \in Seq(Nat \ {0}) /\ Len(spacing.first) = spacing.n - 1
        /\ Boundaries(spacing.first)[spacing.n - 1] < size

(* The span, counted from 0, that holds position x: upper_bound - 1.       *)
SpanAt(bd, x) == Max({i \in DOMAIN bd : bd[i] <= x})

(* Mutant of AddrInTs: the tiles taken column by column.                   *)
AddrInTsByColumn(colBd, rowBd, u) ==
    LET i == SpanAt(colBd, u[1])
        j == SpanAt(rowBd, u[2])
    IN  Height * colBd[i]
        + (colBd[i + 1] - colBd[i]) * u[2]
        + u[1] - colBd[i]

(* The units of the tiles above, of the tiles to the left, of this tile's  *)
(* rows above, and of this row to the left.                                *)
AddrInTs(colBd, rowBd, u) ==
    LET i == SpanAt(colBd, u[1])
        j == SpanAt(rowBd, u[2])
    IN  Width * rowBd[j]
        + (rowBd[j + 1] - rowBd[j]) * colBd[i]
        + (u[2] - rowBd[j]) * (colBd[i + 1] - colBd[i])
        + u[1] - colBd[i]

(* The scan tables of a picture with these tile columns and rows, and the  *)
(* tile of each unit (tileId); an entry of toRs is written as the entry of *)
(* toTs it inverts is computed.                                            *)
Geometry(columns, rows) ==
    LET colBd == Boundaries(Spans(Width, columns))
        rowBd == Boundaries(Spans(Height, rows))
        toTs == [rs \in Addr |-> AddrInTs(colBd, rowBd, toCoord(rs))]
    IN  [colBd |-> colBd, rowBd |-> rowBd, toTs |-> toTs,
         tile |-> [u \in Coord |-> SpanAt(rowBd, u[2]) * columns.n + SpanAt(colBd, u[1])],
         toRs |-> [ts \in Addr |-> Max({-1} \cup {rs \in Addr : toTs[rs] = ts})]]

(* What the decoder of a picture relies on: the tables are inverse to each *)
(* other, and a unit follows all units that are neither below it nor to    *)
(* the right of it.                                                        *)
ScanTables(g) ==
    /\ g.toTs \in [Addr -> Addr] /\ g.toRs \in [Addr -> Addr]
    /\ \A a \in Addr : g.toRs[g.toTs[a]] = a /\ g.toTs[g.toRs[a]] = a
    /\ \A u, v \in Coord :
        u[1] <= v[1] /\ u[2] <= v[2] => g.toTs[toAddrInRs(u)] <= g.toTs[toAddrInRs(v)]
===============================================================================

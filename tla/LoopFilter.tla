------------------------------- MODULE LoopFilter ------------------------------
(***************************************************************************)
(* The in-loop filters of a picture: State::onFinish(CodingTreeUnit)       *)
(* schedules the deblocking filter (Processes/Deblock.cpp, DeblockEdges)   *)
(* and the sample adaptive offset filter of the units that have become     *)
(* ready, while the rest of the picture is not decoded yet.  Samples are   *)
(* left out; crossed records which edges between units a filter crossed.   *)
(***************************************************************************)
EXTENDS SliceDecoding

VARIABLES
    call,         \* the next filter call of onFinish(CodingTreeUnit)
    vertical,     \* units whose vertical edges were deblocked
    horizontal,   \* units whose horizontal edges were deblocked
    offset,       \* the deblocking a unit's final samples were taken after
    crossed       \* the filter, the unit, and the unit across the edge

filterVars == <<call, vertical, horizontal, offset, crossed>>

Call(due, op, x, y) == [due |-> due, op |-> op, at |-> <<x, y>>]

(* Mutant of Schedule: a unit is filtered as soon as it is decoded.        *)
ScheduleAtOnce(x, y) ==
    <<Call(TRUE, "V", x, y), Call(TRUE, "H", x, y), Call(TRUE, "SAO", x, y)>>

(* Mutant of Schedule: the picture's last row is not finished.             *)
ScheduleNoBottom(x, y) ==
    <<Call(TRUE, "V", x, y), Call(x # 0, "H", x - 1, y), Call(x = Width - 1, "H", x, y),
      Call(x > 1 /\ y # 0, "SAO", x - 2, y - 1),
      Call(x = Width - 1 /\ y # 0 /\ x # 0, "SAO", x - 1, y - 1),
      Call(x = Width - 1 /\ y # 0, "SAO", x, y - 1)>>

(* State::onFinish(CodingTreeUnit) for the unit at <<x, y>>: the calls in  *)
(* order, each made if its condition holds.                                *)
Schedule(x, y) ==
    LET lhs == x = 0
        llhs == x - 1 = 0
        rhs == x = Width - 1
        top == y = 0
        bottom == y = Height - 1
    IN  <<Call(TRUE, "V", x, y),
          Call(~lhs, "H", x - 1, y),
          Call(rhs, "H", x, y),
          Call(~llhs /\ ~lhs /\ ~top, "SAO", x - 2, y - 1),
          Call(rhs /\ ~top /\ ~lhs, "SAO", x - 1, y - 1),
          Call(rhs /\ ~top, "SAO", x, y - 1),
          Call(~lhs /\ bottom /\ ~llhs, "SAO", x - 2, y),
          Call(~lhs /\ bottom, "SAO", x - 1, y),
          Call(rhs /\ bottom, "SAO", x, y)>>

-------------------------------------------------------------------------------
isTileBdry(u, adj) == ~pps.acrossTiles /\ tileId(u) # tileId(adj)

isSliceBdry(u, adj) ==
    /\ ~headerAt(u).flags.acrossSlices
    /\ slices[sliceAt(u)].rs # slices[sliceAt(adj)].rs

(* isLeftBdry and isTopBdry: the edge of u shared with adj is left alone.  *)
isBdry(u, adj) == adj \notin Coord \/ isTileBdry(u, adj) \/ isSliceBdry(u, adj)

(* Mutant of isSaoAvailable: the flag of the unit's own slice decides.     *)
isSaoAvailableOwn(u, adj) ==
    /\ adj \in Coord
    /\ slices[sliceAt(u)].rs # slices[sliceAt(adj)].rs => headerAt(u).flags.acrossSlices
    /\ pps.acrossTiles \/ tileId(u) = tileId(adj)

(* SampleAdaptiveOffset's isAvailable for a sample in another unit.        *)
isSaoAvailable(u, adj) ==
    /\ adj \in Coord
    /\ ~ /\ slices[sliceAt(u)].rs # slices[sliceAt(adj)].rs
         /\ \/ /\ ~headerAt(u).flags.acrossSlices
               /\ geo.toTs[toAddrInRs(adj)] < geo.toTs[toAddrInRs(u)]
            \/ /\ ~headerAt(adj).flags.acrossSlices
               /\ geo.toTs[toAddrInRs(u)] < geo.toTs[toAddrInRs(adj)]
    /\ pps.acrossTiles \/ tileId(u) = tileId(adj)

Around(u) == (((u[1] - 1) .. (u[1] + 1)) \X ((u[2] - 1) .. (u[2] + 1))) \ {u}

-------------------------------------------------------------------------------
(* getCodingTreeUnit: the unit at a position of the list in tile scan.     *)
ctuAt(u) == ctus[geo.toTs[toAddrInRs(u)] + 1]

DeblockEdge(u, adj) ==
    crossed' = IF headerAt(u).flags.deblock /\ ~isBdry(u, adj)
               THEN crossed \cup {<<"deblock", u, adj>>} ELSE crossed

DeblockV(u) ==
    /\ vertical' = vertical \cup {u}
    /\ DeblockEdge(u, <<u[1] - 1, u[2]>>)
    /\ UNCHANGED <<horizontal, offset>>

DeblockH(u) ==
    /\ horizontal' = horizontal \cup {u}
    /\ DeblockEdge(u, <<u[1], u[2] - 1>>)
    /\ UNCHANGED <<vertical, offset>>

(* The unit's samples are copied and offset from the deblocked ones, anew  *)
(* each time.                                                              *)
SampleAdaptiveOffset(u) ==
    /\ offset' = [offset EXCEPT ![u] = ({"V"} \X vertical) \cup ({"H"} \X horizontal)]
    /\ crossed' = crossed \cup
                    {<<"sao", u, adj>> :
                        adj \in {a \in Around(u) : headerAt(u).flags.sao /\ isSaoAvailable(u, a)}}
    /\ UNCHANGED <<vertical, horizontal>>

StartFilters ==
    /\ call' = 1
    /\ UNCHANGED <<vertical, horizontal, offset, crossed>>

Calls == Schedule(CoordInTs(ctbAddrInTs)[1], CoordInTs(ctbAddrInTs)[2])

Filter ==
    /\ pc = "filter" /\ call \in DOMAIN Calls
    /\ LET c == Calls[call]
       IN  \/ c.due /\ c.op = "V" /\ DeblockV(ctuAt(c.at))
           \/ c.due /\ c.op = "H" /\ DeblockH(ctuAt(c.at))
           \/ c.due /\ c.op = "SAO" /\ SampleAdaptiveOffset(ctuAt(c.at))
           \/ ~c.due /\ UNCHANGED <<vertical, horizontal, offset, crossed>>
    /\ call' = call + 1
    /\ UNCHANGED sliceVars

FiltersDone ==
    /\ pc = "filter" /\ call \notin DOMAIN Calls
    /\ pc' = "endFlag"
    /\ UNCHANGED <<pps, slices, tileSlices, ctus, ssh, ctbAddrInTs, firstInSegment,
                   cabac, saved, engine, enc, coded>>
    /\ UNCHANGED filterVars
===============================================================================

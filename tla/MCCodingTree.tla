------------------------------ MODULE MCCodingTree ------------------------------
EXTENDS CodingTree

One == [uniform |-> TRUE, n |-> 1, first |-> <<>>]
Two == [uniform |-> TRUE, n |-> 2, first |-> <<>>]

(* A picture with cu_qp_delta alone, in groups of this depth.              *)
Deltas(columns, starts, sync, depth) ==
    [columns |-> columns, rows |-> One, starts |-> starts, sync |-> sync,
     groupDepth |-> depth, offsetDepth |-> 0,
     delta |-> TRUE, offsets |-> FALSE, bypass |-> FALSE,
     qp |-> [ts \in starts |-> 20 + 5 * ts]]

(* A picture with chroma offsets, in groups of this depth.                 *)
ChromaOffsets(depth) ==
    [Deltas(One, {0}, FALSE, 0) EXCEPT
        !.delta = FALSE, !.offsets = TRUE, !.bypass = TRUE, !.offsetDepth = depth]

(* A column of two units of sixteen blocks, cut in the middle and below:   *)
(* groups of four blocks, of a unit with wavefronts, and chroma offsets.   *)
MCColumn == {Deltas(One, {0}, FALSE, 1), Deltas(One, {0}, TRUE, 2), ChromaOffsets(1)}

(* Two rows of two units of four blocks, cut to the right and below: a     *)
(* slice that begins inside a row, wavefronts, and tiles.                  *)
MCRows ==
    {Deltas(One, {0, 1}, FALSE, 1), Deltas(One, {0}, TRUE, 1), Deltas(Two, {0}, FALSE, 0),
     [ChromaOffsets(0) EXCEPT !.delta = TRUE]}

MCQps == {-2, 51}
===============================================================================

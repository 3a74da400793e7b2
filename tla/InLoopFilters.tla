----------------------------- MODULE InLoopFilters -----------------------------
(***************************************************************************)
(* What the in-loop filters of a picture owe to its samples, whatever the  *)
(* order of the units: deblocking takes decoded samples, a vertical edge   *)
(* is filtered before any horizontal edge whose samples it changes, sample *)
(* adaptive offset takes samples no deblocking changes any more, and       *)
(* nothing is filtered twice.  An edge belongs to the unit right of it or  *)
(* below it and changes samples on both sides.                             *)
(***************************************************************************)
EXTENDS PictureScan

VARIABLES decoded, vertical, horizontal, offset

vars == <<decoded, vertical, horizontal, offset>>

(* The units whose vertical edges change samples that the horizontal edges *)
(* of u change as well: u, its right neighbour, and the two above them.    *)
Crossing(u) == UNION {At(u, dx, dy) : dx \in {0, 1}, dy \in {-1, 0}}

Init == decoded = {} /\ vertical = {} /\ horizontal = {} /\ offset = {}

Decode(u) ==
    /\ decoded' = decoded \cup {u}
    /\ UNCHANGED <<vertical, horizontal, offset>>

(* The samples of u are taken over before its right neighbour's edge       *)
(* changes them.                                                           *)
Vertical(u) ==
    /\ u \in decoded \ vertical
    /\ At(u, -1, 0) \subseteq vertical
    /\ vertical' = vertical \cup {u}
    /\ UNCHANGED <<decoded, horizontal, offset>>

Horizontal(u) ==
    /\ u \notin horizontal
    /\ Crossing(u) \subseteq vertical
    /\ horizontal' = horizontal \cup {u}
    /\ UNCHANGED <<decoded, vertical, offset>>

Offset(u) ==
    /\ u \notin offset
    /\ VerticalReach(u) \subseteq vertical
    /\ HorizontalReach(u) \subseteq horizontal
    /\ offset' = offset \cup {u}
    /\ UNCHANGED <<decoded, vertical, horizontal>>

Next == \E u \in Coord : Decode(u) \/ Vertical(u) \/ Horizontal(u) \/ Offset(u)

Spec == Init /\ [][Next]_vars
===============================================================================

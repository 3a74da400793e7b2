---------------------------------- MODULE DPB ----------------------------------
(***************************************************************************)
(* The decoded picture buffer (Structure/DPB.cpp).  A picture is named by  *)
(* its decoding number, the position of its access unit in the bitstream;  *)
(* the buffer's list is in that order, so a set of names stands for it.    *)
(* Each operation of the class is an action over the buffer's variables;   *)
(* the loops of the class are left to the caller, one Bump per iteration.  *)
(***************************************************************************)
EXTENDS NalUnitTypes, PictureOrderCount, FiniteSets

CONSTANT MaxAU               \* bound: access units in the bitstream

ASSUME MaxAUAssumption == MaxAU \in Nat

Picture == 0 .. MaxAU - 1

NotOutput == -1              \* outputNo of a picture not yet output

VARIABLES
    pic,          \* the pictures: type, temporal id, POC, marking, flags
    dpb,          \* the pictures in the buffer
    waiting,      \* those marked "needed for output"
    latency,      \* their picLatencyCount
    limits,       \* the bounds of the active sequence parameter set
    prevTid0,     \* POC of the previous sub-layer 0 picture
    outputNo,     \* the position of a picture in output order
    outputCntr    \* the number of pictures output

dpbVars == <<dpb, waiting, latency, limits, prevTid0, outputNo, outputCntr>>

RefPicType == {"Unused", "ShortTerm", "LongTerm"}

(* sps_max_num_reorder_pics, sps_max_latency_increase_plus1 and            *)
(* sps_max_dec_pic_buffering_minus1 + 1 of the highest sub-layer.          *)
Limits == [reorder : Nat, latencyPlus1 : Nat, capacity : Nat]

NoLimits == [reorder |-> 0, latencyPlus1 |-> 0, capacity |-> 0]

-------------------------------------------------------------------------------
(* Mutant of isTemporalId0: leading pictures count as well.                *)
AnyTemporalId0(p) == pic[p].tid = 0 /\ ~isRASL(pic[p].nut)

isTemporalId0(p) ==
    /\ pic[p].tid = 0
    /\ ~isRASL(pic[p].nut)
    /\ ~isRADL(pic[p].nut)
    /\ ~isSubLayerNonReference(pic[p].nut)

(* Mutant of reorderOverflow: one picture too early.                       *)
reorderReached == waiting # {} /\ Cardinality(waiting) >= limits.reorder

reorderOverflow == Cardinality(waiting) > limits.reorder

latencyOverflow ==
    /\ limits.latencyPlus1 # 0
    /\ \E p \in waiting : latency[p] >= limits.latencyPlus1

Overflow == reorderOverflow \/ latencyOverflow

(* std::find_if over the reversed list: the entry decoded last.            *)
Latest(S) == CHOOSE p \in S : \A q \in S : q <= p

(* Mutant of IsNextOutput: the oldest entry.                               *)
IsOldestWaiting(p) == p \in waiting /\ \A q \in waiting : p <= q

(* The picture bump() selects: the smallest POC, the oldest entry on a tie.*)
IsNextOutput(p) ==
    /\ p \in waiting
    /\ \A q \in waiting : \/ pic[p].poc < pic[q].poc
                          \/ pic[p].poc = pic[q].poc /\ p <= q

-------------------------------------------------------------------------------
Setup(sps) == limits' = sps

(* emplaceBack up to its bumping loop.                                     *)
EmplaceBack(p) ==
    /\ prevTid0' = IF isTemporalId0(p) THEN pic[p].poc ELSE prevTid0
    /\ latency' = [q \in Picture |-> IF q \in waiting THEN latency[q] + 1
                                     ELSE IF q = p THEN 0 ELSE latency[q]]
    /\ dpb' = dpb \cup {p}
    /\ waiting' = IF pic[p].out THEN waiting \cup {p} ELSE waiting
    /\ UNCHANGED <<limits, outputNo, outputCntr>>

(* Mutant of Bump: a picture that was output is still needed for output.   *)
BumpStillNeeded ==
    \E p \in waiting :
        /\ IsNextOutput(p)
        /\ waiting' = waiting
        /\ outputNo' = [outputNo EXCEPT ![p] = outputCntr]
        /\ outputCntr' = outputCntr + 1
        /\ UNCHANGED <<dpb, latency, limits, prevTid0>>

Bump ==
    \E p \in waiting :
        /\ IsNextOutput(p)
        /\ waiting' = waiting \ {p}
        /\ outputNo' = [outputNo EXCEPT ![p] = outputCntr]
        /\ outputCntr' = outputCntr + 1
        /\ dpb' = IF pic[p].ref = "Unused" THEN dpb \ {p} ELSE dpb
        /\ UNCHANGED <<latency, limits, prevTid0>>

(* Mutant of Clear: the pictures dropped still wait.                       *)
ClearEntriesOnly == dpb' = {} /\ waiting' = waiting

Clear == dpb' = {} /\ waiting' = {}

(* Mutants of EraseUnused: the scan stops at the first entry it erases, or *)
(* it tests the output flag only.                                          *)
EraseOldestUnused(ref) ==
    LET unused == {p \in dpb : p \notin waiting /\ ref[p] = "Unused"}
    IN  dpb' = {p \in dpb : p \notin unused \/ \E q \in unused : q < p}
EraseNotWaiting(ref) == dpb' = {p \in dpb : p \in waiting}

(* eraseUnused under the marking ref, a function of the pictures.          *)
EraseUnused(ref) == dpb' = {p \in dpb : p \in waiting \/ ref[p] # "Unused"}

(* Mutant of BumpGuard: room for a single bump.                            *)
BumpGuardOnce(lim) == 1

(* flush() and updateDPB() allow themselves that many bumps.               *)
BumpGuard(lim) == 10 * lim.capacity
===============================================================================

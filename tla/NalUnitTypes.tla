----------------------------- MODULE NalUnitTypes -----------------------------
(***************************************************************************)
(* The NAL unit types of Table 7-1 and the predicates the decoder applies  *)
(* to them.  A type is its number, as in the enumeration of the source,    *)
(* because the predicates are ranges of numbers.                           *)
(***************************************************************************)
EXTENDS Integers

TRAIL_N == 0
TRAIL_R == 1
RADL_N == 6
RADL_R == 7
RASL_N == 8
RASL_R == 9
BLA_W_LP == 16
BLA_W_RADL == 17
BLA_N_LP == 18
IDR_W_RADL == 19
IDR_N_LP == 20
CRA_NUT == 21
RSV_IRAP_VCL23 == 23
RSV_VCL31 == 31
AUD_NUT == 35

NalUnitType == 0..63

isVCL(t) == t <= RSV_VCL31
isRSV(t) == t \in 10 .. 15 \/ t \in 22 .. 31 \/ t \in 41 .. 47
isIRAP(t) == BLA_W_LP <= t /\ t <= RSV_IRAP_VCL23
isIDR(t) == t \in {IDR_W_RADL, IDR_N_LP}
isBLA(t) == BLA_W_LP <= t /\ t <= BLA_N_LP
isCRA(t) == t = CRA_NUT
isRASL(t) == t \in {RASL_N, RASL_R}
isRADL(t) == t \in {RADL_N, RADL_R}
isSubLayerNonReference(t) == t \in {0, 2, 4, 6, 8, 10, 12, 14}
===============================================================================

--------------------------- MODULE PictureOrderCount ---------------------------
(***************************************************************************)
(* The picture order count (POC) of a picture: the slice header codes only *)
(* its LSB, the decoder restores the MSB from the previous picture of      *)
(* temporal sub-layer 0 (Decoder/Processes/PictureOrderCount.cpp).         *)
(***************************************************************************)
EXTENDS Integers

CONSTANT MaxPicOrderCntLsb   \* 2^(log2_max_pic_order_cnt_lsb_minus4 + 4)

(* The standard has powers of two from 16 up; the derivation needs an even *)
(* modulus.                                                                *)
ASSUME MaxLsbAssumption ==
    MaxPicOrderCntLsb \in Nat /\ MaxPicOrderCntLsb >= 2 /\ MaxPicOrderCntLsb % 2 = 0

Lsb(poc) == poc % MaxPicOrderCntLsb
Msb(poc) == poc - Lsb(poc)

(* Mutant of DeriveMsb: a jump of exactly half the range does not wrap.    *)
DeriveMsbStrict(prev, lsb) ==
    IF lsb < Lsb(prev) /\ Lsb(prev) - lsb > MaxPicOrderCntLsb \div 2
      THEN Msb(prev) + MaxPicOrderCntLsb
    ELSE IF lsb > Lsb(prev) /\ lsb - Lsb(prev) > MaxPicOrderCntLsb \div 2
      THEN Msb(prev) - MaxPicOrderCntLsb
    ELSE Msb(prev)

(* The MSB of a picture with LSB lsb, prev being the POC of the previous   *)
(* picture of temporal sub-layer 0: the LSB wraps when it jumps by half of *)
(* its range or more.                                                      *)
DeriveMsb(prev, lsb) ==
    IF lsb < Lsb(prev) /\ Lsb(prev) - lsb >= MaxPicOrderCntLsb \div 2
      THEN Msb(prev) + MaxPicOrderCntLsb
    ELSE IF lsb > Lsb(prev) /\ lsb - Lsb(prev) > MaxPicOrderCntLsb \div 2
      THEN Msb(prev) - MaxPicOrderCntLsb
    ELSE Msb(prev)

DerivePoc(prev, lsb) == DeriveMsb(prev, lsb) + lsb

(* The differences of POC to the previous sub-layer 0 picture that the     *)
(* derivation can restore.                                                 *)
PocReach == 1 - MaxPicOrderCntLsb \div 2 .. MaxPicOrderCntLsb \div 2
===============================================================================

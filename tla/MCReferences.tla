---------------------------- MODULE MCReferences ----------------------------
(***************************************************************************)
(* Two sequence parameter sets, of two sets and of one, and three          *)
(* long-term pictures, two of them with the same LSB.                      *)
(***************************************************************************)
EXTENDS SliceReferences

CONSTANTS sps0, sps1
MCSpsIds == {sps0, sps1}
MCDistances == {-2, -1, 1, 2}
MCDeltaRps == {-1, 2}
MCLongTermPocs == {3, 19, 20}
Pictures(used, unused) == [d \in used \cup unused |-> d \in used]
MCUsualSets == sps0 :> <<Pictures({-1}, {}), Pictures({-2, 1}, {})>> @@ sps1 :> <<Pictures({1}, {})>>
LongTermLsb(lsb, used) == [lsb |-> lsb, used |-> used]
MCSpsLongTerm ==
    sps0 :> <<LongTermLsb(3, TRUE), LongTermLsb(4, FALSE)>> @@ sps1 :> <<LongTermLsb(4, TRUE)>>
=============================================================================

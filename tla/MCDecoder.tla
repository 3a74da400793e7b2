------------------------------- MODULE MCDecoder -------------------------------
EXTENDS Decoder

MCSps == {[reorder |-> 1, latencyPlus1 |-> 0, capacity |-> 3]}
MCFoll == {-1}
===============================================================================

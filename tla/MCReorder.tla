------------------------------- MODULE MCReorder -------------------------------
EXTENDS Decoder

MCSps == {[reorder |-> 2, latencyPlus1 |-> 0, capacity |-> 4]}
MCLatency == {[reorder |-> 2, latencyPlus1 |-> 1, capacity |-> 4]}
===============================================================================

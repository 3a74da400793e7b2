------------------------------- MODULE MCPicture -------------------------------
EXTENDS PictureDecoding

Uniform(n) == [uniform |-> TRUE, n |-> n, first |-> <<>>]
Explicit(first) == [uniform |-> FALSE, n |-> Len(first) + 1, first |-> first]

Tiled(columns, rows, across) ==
    [columns |-> columns, rows |-> rows, tiles |-> TRUE, sync |-> FALSE, acrossTiles |-> across]

Untiled(sync) ==
    [columns |-> Uniform(1), rows |-> Uniform(1), tiles |-> FALSE, sync |-> sync,
     acrossTiles |-> TRUE]

MCPps ==
    {Untiled(sync) : sync \in BOOLEAN}
    \cup {Tiled(Uniform(3), Explicit(<<2>>), TRUE), Tiled(Explicit(<<1>>), Uniform(2), FALSE)}

Flags(acrossSlices, deblock, sao) ==
    [acrossSlices |-> acrossSlices, deblock |-> deblock, sao |-> sao]

MCFlags == {Flags(TRUE, TRUE, TRUE), Flags(FALSE, TRUE, TRUE), Flags(FALSE, FALSE, FALSE)}
===============================================================================

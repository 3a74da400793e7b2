-------------------------------- MODULE QuadTree --------------------------------
(***************************************************************************)
(* The quad tree of a block (Syntax/QuadTree.h) and the z-scan of the      *)
(* blocks in it (HEVC.h).  The tree is the function of its occupied        *)
(* indices: the root has index 0, the sub-blocks of index i have 4i + 1 to *)
(* 4i + 4.  It has a number of levels; positions are counted in blocks of  *)
(* the lowest level, from the block's corner.                              *)
(***************************************************************************)
EXTENDS Integers, FiniteSetsExt

EmptyTree == [i \in {} |-> i]

Doubled(n) ==
    LET double[k \in 0 .. n] == IF k = 0 THEN 1 ELSE 2 * double[k - 1]
    IN  double[n]

side(levels, depth) == Doubled(levels - 1 - depth)

(* Which quarter of its parent holds a position: left, right above; left,  *)
(* right below.                                                            *)
Quarter(levels, depth, at) ==
    LET s == side(levels, depth)
    IN  ((at[1] \div s) % 2) + 2 * ((at[2] \div s) % 2)

(* The indices of the blocks that hold a position, from the root down.     *)
Path(levels, at) ==
    LET index[depth \in 0 .. levels - 1] ==
            IF depth = 0 THEN 0 ELSE 4 * index[depth - 1] + 1 + Quarter(levels, depth, at)
    IN  index

(* append: the first free index on the path, down the sub-blocks that have *)
(* begun.                                                                  *)
toEmptyIndex(levels, tree, at) ==
    LET path == Path(levels, at)
    IN  path[Min({depth \in DOMAIN path : path[depth] \notin DOMAIN tree})]

Appended(levels, tree, at, node) ==
    LET i == toEmptyIndex(levels, tree, at)
    IN  [j \in DOMAIN tree \cup {i} |-> IF j = i THEN node ELSE tree[j]]

isRoot(tree, i) == \E k \in 1 .. 4 : 4 * i + k \in DOMAIN tree

(* Mutant of toIndex: a search that stops above the lowest level.          *)
toUpperIndex(levels, tree, at) ==
    LET path == Path(levels, at)
    IN  path[Min({depth \in DOMAIN path : depth + 2 >= levels \/ ~isRoot(tree, path[depth])})]

(* The first block on the path without sub-blocks.                         *)
toIndex(levels, tree, at) ==
    LET path == Path(levels, at)
    IN  path[Min({depth \in DOMAIN path : ~isRoot(tree, path[depth])})]

-------------------------------------------------------------------------------
(* The address of a position in z-scan, and the position of an address,    *)
(* accumulated from the largest quarter to the smallest.                   *)
Summed(levels, terms) ==
    LET sum[depth \in 0 .. levels - 1] ==
            IF depth = 0 THEN 0 ELSE sum[depth - 1] + terms[depth]
    IN  sum[levels - 1]

area(levels, depth) == side(levels, depth) * side(levels, depth)

toAddrScanZ(levels, at) ==
    Summed(levels, [depth \in 1 .. levels - 1 |->
                       Quarter(levels, depth, at) * area(levels, depth)])

toCoordScanZ(levels, addr) ==
    LET quarter(depth) == (addr \div area(levels, depth)) % 4
    IN  <<Summed(levels, [d \in 1 .. levels - 1 |-> (quarter(d) % 2) * side(levels, d)]),
          Summed(levels, [d \in 1 .. levels - 1 |-> (quarter(d) \div 2) * side(levels, d)])>>
===============================================================================

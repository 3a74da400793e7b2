--------------------------- MODULE ReferenceSets ---------------------------
(***************************************************************************)
(* The parameters of reference picture sets (src/Structure/RPSP.cpp), the  *)
(* picture order counts they stand for                                     *)
(* (src/Decoder/Processes/ReferencePictureSet.cpp) and the reference       *)
(* picture lists (src/Decoder/Processes/ReferencePictureList.cpp), as      *)
(* functions of what was parsed.                                           *)
(*                                                                         *)
(* An entry of the table of sets is two lists of [delta, used], nearest    *)
(* picture first: s0 of the pictures that precede the current one in       *)
(* output order and s1 of those that follow it.                            *)
(***************************************************************************)
EXTENDS Integers, SequencesExt

Unset == [s0 |-> <<>>, s1 |-> <<>>]
numDeltaPocs(entry) == Len(entry.s0) + Len(entry.s1)

\* A finite set of numbers in rising order, and the elements of a list at
\* some of its positions.
Sorted(S) ==
    CHOOSE s \in [1 .. Cardinality(S) -> S] : \A i, j \in 1 .. Cardinality(S) : i < j => s[i] < s[j]
Selected(list, positions) ==
    [i \in 1 .. Cardinality(positions) |-> list[Sorted(positions)[i]]]

---------------------------------------------------------------------------
\* Parsing a set.

\* The flags of a predicted set: used_by_curr_pic_flag for every picture of
\* the other set and for that picture itself, each 0 followed by a
\* use_delta_flag, which is 1 when it is not sent.
ParseFlags(bits, last) ==
    LET Bit(at) == at \in DOMAIN bits /\ bits[at] = 1
        at[i \in 0 .. last + 1] ==
            IF i = 0 THEN 1 ELSE at[i - 1] + (IF Bit(at[i - 1]) THEN 1 ELSE 2)
    IN  [flags |-> [i \in 0 .. last |->
                       [used |-> Bit(at[i]), use |-> Bit(at[i]) \/ Bit(at[i] + 1)]],
         read |-> at[last + 1] - 1]

\* A parsed set; of a predicted one the table says how many flags it has.
ParseSet(idx, coded, table) ==
    IF ~coded.inter THEN [set |-> [inter |-> FALSE, idx |-> idx, s0 |-> coded.s0, s1 |-> coded.s1],
                              inSync |-> TRUE]
    ELSE LET RefRpsIdx == idx - (coded.deltaIdxMinus1 + 1)
             parsed == ParseFlags(coded.bits, numDeltaPocs(table[RefRpsIdx]))
         IN  [set |-> [inter |-> TRUE, idx |-> idx, RefRpsIdx |-> RefRpsIdx,
                       deltaRps |-> coded.deltaRps, flags |-> parsed.flags],
              inSync |-> parsed.read = Len(coded.bits)]

---------------------------------------------------------------------------
\* RPSP::derive of one set, and of the sets of a sequence parameter set.

\* The pictures of a list, deltaRps further, with the flags from `from` on.
Candidates(set, list, from) ==
    [i \in DOMAIN list |-> [delta |-> list[i].delta + set.deltaRps,
                            flag |-> set.flags[from + i - 1]]]

\* Those that keep a use_delta_flag and are before (-1) or after (1) the
\* current picture.
Kept(candidates, sign) ==
    LET kept == Selected(candidates, {i \in DOMAIN candidates :
                    sign * candidates[i].delta > 0 /\ candidates[i].flag.use})
    IN  [i \in DOMAIN kept |-> [delta |-> kept[i].delta, used |-> kept[i].flag.used]]

\* A set predicted from another: the other's pictures and that picture
\* itself, nearest first.
Predicted(set, src) ==
    LET below == Candidates(set, src.s0, 0)
        above == Candidates(set, src.s1, Len(src.s0))
        self == Candidates(set, <<[delta |-> 0]>>, numDeltaPocs(src))
    IN  [s0 |-> Kept(Reverse(above) \o self \o below, -1),
         s1 |-> Kept(Reverse(below) \o self \o above, 1)]

\* A set sent as the distances between its pictures.
Deltas(list, sign) ==
    LET delta[i \in 0 .. Len(list)] ==
            IF i = 0 THEN 0 ELSE delta[i - 1] + sign * (list[i].minus1 + 1)
    IN  [i \in DOMAIN list |-> [delta |-> delta[i], used |-> list[i].used]]
Explicit(set) == [s0 |-> Deltas(set.s0, -1), s1 |-> Deltas(set.s1, 1)]

deriveSet(table, set) ==
    [table EXCEPT ![set.idx] =
        IF set.inter THEN Predicted(set, table[set.RefRpsIdx]) ELSE Explicit(set)]
deriveSets(table, sets) ==
    LET derived[n \in 0 .. Len(sets)] ==
            IF n = 0 THEN table ELSE deriveSet(derived[n - 1], sets[n])
    IN  derived[Len(sets)]

---------------------------------------------------------------------------
\* RPSP::derive of a slice: its long-term pictures and the size of its lists.

(* Mutant of deltaPocMsbCycleLt: the sum runs on from the entries of the   *)
(* SPS to those of the slice.                                              *)
deltaPocMsbCycleLtRunsOn(numSps, cycles) ==
    LET sum[i \in 1 .. Len(cycles)] ==
            IF i = 1 THEN cycles[i] ELSE sum[i - 1] + cycles[i]
    IN  sum

\* The MSB cycles are sent as differences, anew for the slice's own entries.
deltaPocMsbCycleLt(numSps, cycles) ==
    LET sum[i \in 1 .. Len(cycles)] ==
            IF i = 1 \/ i = numSps + 1 THEN cycles[i] ELSE sum[i - 1] + cycles[i]
    IN  sum

\* Long-term pictures by index into the SPS, then by value.
deriveLongTerm(sps, slice) ==
    LET n == Len(slice.ltIdxSps)
        own == slice.lt
        cycle == deltaPocMsbCycleLt(n, slice.deltaPocMsbCycleLt)
        Entry(i) == IF i <= n THEN sps.lt[slice.ltIdxSps[i] + 1] ELSE own[i - n]
    IN  [i \in 1 .. n + Len(own) |-> [lsb |-> Entry(i).lsb, used |-> Entry(i).used,
                                      msb |-> slice.msb[i], cycle |-> cycle[i]]]

Used(list) == Selected(list, {i \in DOMAIN list : list[i].used})
NotUsed(list) == Selected(list, {i \in DOMAIN list : ~list[i].used})
NumPocTotalCurr(entry, lt) == Len(Used(entry.s0)) + Len(Used(entry.s1)) + Len(Used(lt))

---------------------------------------------------------------------------
\* The reference picture set of a picture (poc, lsb) and its pictures.

\* calcPOC of short-term pictures.
Pocs(poc, list) == [i \in DOMAIN list |-> poc + list[i].delta]

\* calcPOC and makeLongTerm: by its order count when the MSB is present, by
\* its LSB otherwise; the DPB is searched from its last picture.
LongTermPictures(poc, maxLsb, list, dpb) ==
    LET Value(p) == p.lsb + (poc - maxLsb * p.cycle) - (poc % maxLsb)
        Found(p) ==
            LET at == {i \in DOMAIN dpb : IF p.msb THEN dpb[i] = Value(p)
                                          ELSE dpb[i] % maxLsb = p.lsb}
            IN  IF at = {} THEN -1 ELSE dpb[CHOOSE i \in at : \A j \in at : j <= i]
    IN  [i \in DOMAIN list |-> Found(list[i])]

calcPOC(poc, maxLsb, entry, lt, dpb) ==
    [stCurrBefore |-> Pocs(poc, Used(entry.s0)),
     stCurrAfter |-> Pocs(poc, Used(entry.s1)),
     stFoll |-> Pocs(poc, NotUsed(entry.s0) \o NotUsed(entry.s1)),
     ltCurr |-> LongTermPictures(poc, maxLsb, Used(lt), dpb),
     ltFoll |-> LongTermPictures(poc, maxLsb, NotUsed(lt), dpb)]

---------------------------------------------------------------------------
\* Reference picture lists.

\* The three lists, again and again until the temporary list is full.
TempList(first, second, third, size) ==
    LET round == first \o second \o third
        fill[n \in 0 .. size] ==
            IF n = 0 THEN <<>> ELSE fill[n - 1] \o round
    IN  SubSeq(fill[size], 1, size)

\* A list: from the temporary list in order or by list_entry_lX.
RefList(temp, active, entries) ==
    [i \in 1 .. active |-> IF entries = <<>> THEN temp[i] ELSE temp[entries[i] + 1]]

\* list_entry_lX is sent, and looked at, when there are pictures to choose from.
listEntries(total, entries) == IF total > 1 THEN entries ELSE <<>>

Larger(a, b) == IF a > b THEN a ELSE b
RefPicList0(rps, total, active, entries) ==
    RefList(TempList(rps.stCurrBefore, rps.stCurrAfter, rps.ltCurr, Larger(active, total)),
            active, listEntries(total, entries))

(* Mutant of RefPicList1: its pictures come in the order of list 0.        *)
RefPicList1AsList0(rps, total, active, entries) == RefPicList0(rps, total, active, entries)

RefPicList1(rps, total, active, entries) ==
    RefList(TempList(rps.stCurrAfter, rps.stCurrBefore, rps.ltCurr, Larger(active, total)),
            active, listEntries(total, entries))
=============================================================================

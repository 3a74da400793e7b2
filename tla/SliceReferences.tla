-------------------------- MODULE SliceReferences --------------------------
(***************************************************************************)
(* The pictures a slice refers to: from the reference picture sets that    *)
(* sequence parameter sets and slice headers carry to the reference        *)
(* picture lists.                                                          *)
(*                                                                         *)
(* The decoder has one table of sets for all sequence parameter sets: any  *)
(* set that is parsed goes to the entry of its index, and the table is     *)
(* derived again when a picture starts.  The bitstream means its sets as   *)
(* functions from the distance of a picture to whether the current picture *)
(* uses it, and codes them in the ways of 7.3.7.                           *)
(***************************************************************************)
EXTENDS ReferenceSets, TLC

CONSTANTS
    SpsIds, MaxSets,     \* sequence parameter sets and the sets in one
    Distances, MaxSize,  \* the pictures of a set
    DeltaRps,            \* how far predicted sets are moved
    Poc, MaxLsb,         \* the current picture
    LongTermPocs,        \* the long-term pictures in the DPB
    SpsLongTerm,         \* those a sequence parameter set lists, by LSB
    MaxLongTerm,         \* the long-term pictures of a slice
    MaxActive,           \* the entries of a reference picture list
    UsualSets,           \* the sets of a sequence parameter set, usually
    MaxDeviations,       \* how often the bitstream does the unusual
    None                 \* no parameter set, no slice

Targets == UNION {[D -> BOOLEAN] : D \in {E \in SUBSET Distances : Cardinality(E) <= MaxSize}}

ASSUME SliceReferencesAssumption ==
    /\ MaxSets \in Nat \ {0} /\ MaxSize \in Nat /\ MaxActive \in Nat \ {0}
    /\ Distances \subseteq Int \ {0} /\ IsFiniteSet(Distances)
    /\ DeltaRps \subseteq Int \ {0}
    /\ Poc \in Int /\ MaxLsb \in Nat \ {0}
    /\ LongTermPocs \subseteq Int /\ IsFiniteSet(LongTermPocs)
    /\ \A id \in SpsIds : SpsLongTerm[id] \in Seq([lsb : 0 .. MaxLsb - 1, used : BOOLEAN])
    /\ \A id \in SpsIds : UsualSets[id] \in Seq(Targets) /\ Len(UsualSets[id]) <= MaxSets
    /\ MaxLongTerm \in Nat /\ MaxDeviations \in Nat

VARIABLES
    \* the bitstream
    meant,     \* the sets of the sequence parameter sets, as far as sent
    slice,     \* what the slices of the current picture mean and carry
    spent,     \* deviations so far
    \* the decoder
    stage,     \* the handler that comes next
    parsing,   \* the sequence parameter set being parsed
    context,   \* the sequence parameter sets, parsed
    active,    \* the one of the current picture, if any
    table,     \* RPSP: the sets
    currRpsIdx, longTerm, numPocTotalCurr, \* RPSP: those of the slice
    rps,       \* the reference picture set of the picture
    lists,     \* the reference picture lists of the slice
    inSync     \* every flag sent for a set was parsed

bitVars == <<meant, slice, spent>>
sliceVars == <<currRpsIdx, longTerm, numPocTotalCurr, rps, lists>>
vars == <<bitVars, stage, parsing, context, active, table, sliceVars, inSync>>

NoSlice == [meant |-> <<>>, lt |-> <<>>, header |-> None, lists |-> None]
NoRps == [stCurrBefore |-> <<>>, stCurrAfter |-> <<>>, stFoll |-> <<>>,
          ltCurr |-> <<>>, ltFoll |-> <<>>]
NoLists == [l0 |-> <<>>, l1 |-> <<>>]

---------------------------------------------------------------------------
\* How the bitstream codes a set (7.3.7, 7.4.8).

Above(target) == Sorted({d \in DOMAIN target : d > 0})
Below(target) == Reverse(Sorted({d \in DOMAIN target : d < 0}))

Magnitude(d) == IF d < 0 THEN -d ELSE d
Gaps(list, target) ==
    [i \in DOMAIN list |->
        [minus1 |-> Magnitude(IF i = 1 THEN list[1] ELSE list[i] - list[i - 1]) - 1,
         used |-> target[list[i]]]]
Explicitly(target) ==
    [inter |-> FALSE, s0 |-> Gaps(Below(target), target), s1 |-> Gaps(Above(target), target)]

\* The pictures that can be predicted from another set, in the order of the
\* flags.
Movable(from) == Below(from) \o Above(from) \o <<0>>
Predictable(from, deltaRps) ==
    {t \in Targets : DOMAIN t \subseteq {d + deltaRps : d \in ToSet(Movable(from))}}
Flag(target, d) ==
    CASE d \notin DOMAIN target -> <<0, 0>>
      [] d \in DOMAIN target /\ target[d] -> <<1>>
      [] OTHER -> <<0, 1>>
PredictedFrom(from, deltaIdxMinus1, deltaRps, target) ==
    [inter |-> TRUE, deltaIdxMinus1 |-> deltaIdxMinus1, deltaRps |-> deltaRps,
     bits |-> FlattenSeq([i \in DOMAIN Movable(from) |->
                             Flag(target, Movable(from)[i] + deltaRps)])]

\* The sets that can be sent after `before` and how: in a sequence parameter
\* set a set is predicted from the one before it.
SentExplicitly == {[meant |-> t, coded |-> Explicitly(t)] : t \in Targets}
Sendable(before, deltaIdxs) ==
    SentExplicitly
    \cup UNION {{[meant |-> t,
                  coded |-> PredictedFrom(before[Len(before) - i], i, d, t)] :
                   t \in Predictable(before[Len(before) - i], d)} :
                     i \in {j \in deltaIdxs : j < Len(before)}, d \in DeltaRps}

Spend(choice, usual) == spent' = spent + (IF choice = usual THEN 0 ELSE 1)
Affordable == spent' <= MaxDeviations

---------------------------------------------------------------------------
\* Parsing a sequence parameter set.

\* To send it again is a deviation.
StartSps(id) ==
    /\ stage = "nal"
    /\ Spend(context[id], None)
    /\ Affordable
    /\ parsing' = [id |-> id, sets |-> <<>>]
    /\ meant' = [meant EXCEPT ![id] = <<>>]
    /\ stage' = "sps"
    /\ UNCHANGED <<slice, context, active, table, sliceVars, inSync>>

\* A set of it, which goes to the table as soon as it is parsed.
ShortTermRefPicSet ==
    LET sent == meant[parsing.id]
        idx == Len(sent)
        usual == UsualSets[parsing.id]
    IN  /\ stage = "sps" /\ idx < MaxSets
        /\ \E s \in Sendable(sent, {0}) :
              /\ Spend(s, IF idx < Len(usual)
                            THEN [meant |-> usual[idx + 1], coded |-> Explicitly(usual[idx + 1])]
                            ELSE None)
              /\ Affordable
              /\ meant' = [meant EXCEPT ![parsing.id] = Append(@, s.meant)]
              /\ \E parsed \in {ParseSet(idx, s.coded, table)} :
                    /\ parsing' = [parsing EXCEPT !.sets = Append(@, parsed.set)]
                    /\ table' = deriveSet(table, parsed.set)
                    /\ inSync' = (inSync /\ parsed.inSync)
        /\ UNCHANGED <<slice, stage, context, active, sliceVars>>

\* Context::add: it takes the place of the one that had its number.
FinishSps ==
    LET id == parsing.id
    IN  /\ stage = "sps"
        /\ Spend(Len(meant[id]), Len(UsualSets[id]))
        /\ Affordable
        /\ context' = [context EXCEPT ![id] = [sets |-> parsing.sets, lt |-> SpsLongTerm[id]]]
        /\ parsing' = None
        /\ stage' = "nal"
        /\ UNCHANGED <<meant, slice, active, table, sliceVars, inSync>>

---------------------------------------------------------------------------
\* A picture and its slices.

(* Mutant of SlicePicParameterSetId: the table is as the sequence          *)
(* parameter sets left it.                                                 *)
SlicePicParameterSetIdAsParsed ==
    /\ stage = "nal"
    /\ \E id \in SpsIds :
          /\ context[id] # None
          /\ active' = id
    /\ stage' = "slice"
    /\ UNCHANGED <<table, bitVars, parsing, context, sliceVars, inSync>>

\* The first slice names the parameter sets of the picture: its sets go to
\* the table again.
SlicePicParameterSetId ==
    /\ stage = "nal"
    /\ \E id \in SpsIds :
          /\ context[id] # None
          /\ active' = id
          /\ table' = deriveSets(table, context[id].sets)
    /\ stage' = "slice"
    /\ UNCHANGED <<bitVars, parsing, context, sliceVars, inSync>>

\* The pictures in the DPB, as they were decoded.
DpbPictures ==
    Sorted(LongTermPocs) \o [i \in DOMAIN Sorted(Distances) |-> Poc + Sorted(Distances)[i]]

\* The long-term pictures of a slice: entries of the SPS, then its own.
\* Without its MSB a picture must be the only one with its LSB, and an MSB
\* cycle is not less than the one before it.
Cycle(poc) == (Poc - (Poc % MaxLsb) - (poc - (poc % MaxLsb))) \div MaxLsb
OnlyOne(poc) == \A other \in ToSet(DpbPictures) : other % MaxLsb = poc % MaxLsb => other = poc
CyclesBefore(pictures) ==
    LET sum[i \in 0 .. Len(pictures)] ==
            IF i = 0 THEN 0
            ELSE IF pictures[i].msb THEN Cycle(pictures[i].poc) ELSE sum[i - 1]
    IN  sum
CycleDifferences(pictures) ==
    [i \in DOMAIN pictures |->
        IF pictures[i].msb THEN Cycle(pictures[i].poc) - CyclesBefore(pictures)[i - 1] ELSE 0]
LongTermPictureSets ==
    UNION {{s \in [1 .. n -> [poc : LongTermPocs, used : BOOLEAN, msb : BOOLEAN]] :
              /\ \A i, j \in 1 .. n : s[i].poc = s[j].poc => i = j
              /\ \A i \in 1 .. n : s[i].msb \/ OnlyOne(s[i].poc)} : n \in 0 .. MaxLongTerm}
InOrder(pictures) == \A i \in DOMAIN pictures : CycleDifferences(pictures)[i] >= 0

\* How they are sent: the first n by their number in the SPS.
Listed(id, p) == {i \in DOMAIN SpsLongTerm[id] :
                    SpsLongTerm[id][i] = [lsb |-> p.poc % MaxLsb, used |-> p.used]}
HeaderOf(id, pictures, n) ==
    LET listed == SubSeq(pictures, 1, n)
        own == SubSeq(pictures, n + 1, Len(pictures))
    IN  [ltIdxSps |-> [i \in 1 .. n |-> (CHOOSE k \in Listed(id, pictures[i]) : TRUE) - 1],
         lt |-> [i \in DOMAIN own |-> [lsb |-> own[i].poc % MaxLsb, used |-> own[i].used]],
         msb |-> [i \in DOMAIN pictures |-> pictures[i].msb],
         deltaPocMsbCycleLt |-> CycleDifferences(listed) \o CycleDifferences(own)]
HeadersOf(id, pictures) ==
    {HeaderOf(id, pictures, n) : n \in {k \in 0 .. Len(pictures) :
        /\ \A i \in 1 .. k : Listed(id, pictures[i]) # {}
        /\ InOrder(SubSeq(pictures, 1, k))
        /\ InOrder(SubSeq(pictures, k + 1, Len(pictures)))}}
LongTermHeaders ==
    [id \in SpsIds |-> [pictures \in LongTermPictureSets |-> HeadersOf(id, pictures)]]

\* What a slice sends of its set: the number of one of the SPS, or its own.
SliceSets(sps) ==
    {[meant |-> sps[k], spsFlag |-> TRUE, coded |-> None, idx |-> k - 1] : k \in DOMAIN sps}
    \cup {[meant |-> s.meant, spsFlag |-> FALSE, coded |-> s.coded, idx |-> Len(sps)] :
             s \in Sendable(sps, 0 .. Len(sps) - 1)}

(* Mutant of CountReferences: the number is not reset.                     *)
CountReferencesOn ==
    numPocTotalCurr' = numPocTotalCurr + NumPocTotalCurr(table'[currRpsIdx'], longTerm')
CountReferences == numPocTotalCurr' = NumPocTotalCurr(table'[currRpsIdx'], longTerm')

\* The header of a slice, up to its long-term pictures: the slice's own set
\* goes to the entry after those of the SPS, and RPSP::derive follows.
ParseReferences(header) ==
    /\ IF header.spsFlag THEN UNCHANGED <<table, inSync>>
       ELSE \E parsed \in {ParseSet(header.idx, header.coded, table)} :
              /\ table' = deriveSet(table, parsed.set)
              /\ inSync' = (inSync /\ parsed.inSync)
    /\ currRpsIdx' = header.idx
    /\ longTerm' = deriveLongTerm(context[active], header.lt)
    /\ CountReferences
    /\ stage' = "header"
    /\ UNCHANGED <<meant, parsing, context, active, rps, lists>>

FirstSlice ==
    /\ stage = "slice" /\ slice.header = None
    /\ \E s \in SliceSets(meant[active]), lt \in LongTermPictureSets :
          /\ spent' = spent + (IF s.spsFlag THEN 0 ELSE 1)
                            + (IF lt = <<>> THEN 0 ELSE 1)
          /\ Affordable
          /\ \E h \in LongTermHeaders[active][lt] :
                LET header == [spsFlag |-> s.spsFlag, coded |-> s.coded, idx |-> s.idx,
                              lt |-> h]
                IN  /\ slice' = [meant |-> s.meant, lt |-> lt, header |-> header,
                                 lists |-> None]
                    /\ ParseReferences(header)

\* The other slices of a picture repeat the sets of the first.
OtherSlice ==
    /\ stage = "slice" /\ slice.header # None
    /\ ParseReferences(slice.header)
    /\ UNCHANGED <<slice, spent>>

---------------------------------------------------------------------------
\* The end of a slice header.

\* What the slice means to refer to (8.3.2).
UsedOf(list, target, used) == Selected(list, {i \in DOMAIN list : target[list[i]] = used})
Moved(list) == [i \in DOMAIN list |-> Poc + list[i]]
LongTermOf(pictures, used) ==
    LET list == Selected(pictures, {i \in DOMAIN pictures : pictures[i].used = used})
    IN  [i \in DOMAIN list |-> list[i].poc]
ReferencesMeant(target, pictures) ==
    LET below == Below(target)
        above == Above(target)
    IN  [stCurrBefore |-> Moved(UsedOf(below, target, TRUE)),
         stCurrAfter |-> Moved(UsedOf(above, target, TRUE)),
         stFoll |-> Moved(UsedOf(below, target, FALSE) \o UsedOf(above, target, FALSE)),
         ltCurr |-> LongTermOf(pictures, TRUE), ltFoll |-> LongTermOf(pictures, FALSE)]
TotalMeant(target, pictures) ==
    Cardinality({d \in DOMAIN target : target[d]}) + Len(LongTermOf(pictures, TRUE))

\* What a list is sent as: its size and, if it is modified, its entries: a
\* picture again and again, or all of them from the last to the first.
ListsSent(total) ==
    {[active |-> n, entries |-> <<>>] : n \in 1 .. MaxActive}
    \cup (IF total > 1
          THEN {[active |-> n, entries |-> [i \in 1 .. n |-> k]] :
                  n \in 1 .. MaxActive, k \in 0 .. total - 1}
               \cup {[active |-> n, entries |-> [i \in 1 .. n |-> (total - i) % total]] :
                      n \in 1 .. MaxActive}
          ELSE {})
NoList == [active |-> 0, entries |-> <<>>]
UsualLists == {NoList, [active |-> 1, entries |-> <<>>]}

\* The first slice determines the reference picture set; a P or B slice has
\* its lists built, modified when there are pictures to choose from.
SliceSegmentHeader ==
    /\ stage = "header"
    /\ rps' = IF slice.lists = None
                 THEN calcPOC(Poc, MaxLsb, table[currRpsIdx], longTerm, DpbPictures)
                 ELSE rps
    /\ LET total == TotalMeant(slice.meant, slice.lt)
           sent == IF total = 0 THEN {NoList} ELSE ListsSent(total)
       IN  \E l0 \in sent, l1 \in sent \cup {NoList} :
             /\ spent' = spent + (IF l0 \in UsualLists THEN 0 ELSE 1)
                               + (IF l1 \in UsualLists THEN 0 ELSE 1)
             /\ Affordable
             /\ slice' = [slice EXCEPT !.lists = [l0 |-> l0, l1 |-> l1]]
             /\ lists' = [l0 |-> RefPicList0(rps', numPocTotalCurr, l0.active, l0.entries),
                          l1 |-> RefPicList1(rps', numPocTotalCurr, l1.active, l1.entries)]
    /\ stage' = "slice"
    /\ UNCHANGED <<meant, parsing, context, active, table, currRpsIdx, longTerm,
                   numPocTotalCurr, inSync>>

\* The last slice was parsed; the table of sets stays.
FinishPicture ==
    /\ stage = "slice" /\ slice.header # None
    /\ slice' = NoSlice
    /\ active' = None
    /\ rps' = NoRps /\ lists' = NoLists /\ currRpsIdx' = 0
    /\ stage' = "nal"
    /\ UNCHANGED <<meant, spent, parsing, context, table, longTerm, numPocTotalCurr, inSync>>

---------------------------------------------------------------------------
Init ==
    /\ meant = [id \in SpsIds |-> <<>>]
    /\ slice = NoSlice /\ spent = 0
    /\ stage = "nal"
    /\ parsing = None
    /\ context = [id \in SpsIds |-> None]
    /\ active = None
    /\ table = [i \in 0 .. MaxSets |-> Unset]
    /\ currRpsIdx = 0 /\ longTerm = <<>> /\ numPocTotalCurr = 0
    /\ rps = NoRps /\ lists = NoLists
    /\ inSync = TRUE

Next ==
    \/ \E id \in SpsIds : StartSps(id)
    \/ ShortTermRefPicSet \/ FinishSps
    \/ SlicePicParameterSetId
    \/ FirstSlice \/ OtherSlice
    \/ SliceSegmentHeader \/ FinishPicture

Spec == Init /\ [][Next]_vars

---------------------------------------------------------------------------
TypeOK ==
    /\ stage \in {"nal", "sps", "slice", "header"}
    /\ spent \in 0 .. MaxDeviations
    /\ \A id \in SpsIds : Len(meant[id]) <= MaxSets
    /\ active \in SpsIds \cup {None}
    /\ DOMAIN table = 0 .. MaxSets
    /\ currRpsIdx \in 0 .. MaxSets
    /\ numPocTotalCurr \in 0 .. MaxSize + MaxLongTerm
    /\ inSync \in BOOLEAN

\* The table has the sets of the picture's sequence parameter set and of its
\* slice, whatever other sets were parsed before, and the parser has read
\* every flag of a predicted set and no more.
Side(list, target) == [i \in DOMAIN list |-> [delta |-> list[i], used |-> target[list[i]]]]
EntryOf(target) == [s0 |-> Side(Below(target), target), s1 |-> Side(Above(target), target)]
SetsAgree ==
    /\ inSync
    /\ active # None =>
          \A k \in DOMAIN meant[active] : table[k - 1] = EntryOf(meant[active][k])
    /\ stage = "header" => table[currRpsIdx] = EntryOf(slice.meant)

\* A picture refers to the pictures it means, by order count or by LSB, and
\* the parser knows how many they are when it reads the entries of a list.
ReferencesAgree ==
    /\ stage = "header" => numPocTotalCurr = TotalMeant(slice.meant, slice.lt)
    /\ slice.lists # None => rps = ReferencesMeant(slice.meant, slice.lt)

\* 8.3.4: a list repeats the pictures in its own order until it is full.
ListMeant(list, first, second, third) ==
    LET all == first \o second \o third
        At(i) == IF list.entries = <<>> THEN i - 1 ELSE list.entries[i]
    IN  [i \in 1 .. list.active |-> all[(At(i) % Len(all)) + 1]]
ListsAgree ==
    slice.lists # None /\ stage = "slice" =>
        LET r == ReferencesMeant(slice.meant, slice.lt)
        IN  lists = [l0 |-> ListMeant(slice.lists.l0, r.stCurrBefore, r.stCurrAfter, r.ltCurr),
                     l1 |-> ListMeant(slice.lists.l1, r.stCurrAfter, r.stCurrBefore, r.ltCurr)]
=============================================================================

----------------------------- MODULE DecoderProofs -----------------------------
(***************************************************************************)
(* Theorems about Decoder, for every number of access units, POC range,    *)
(* set of NAL unit types and set of sequence parameter sets.               *)
(***************************************************************************)
EXTENDS Decoder, FiniteSetTheorems, TLAPS

-------------------------------------------------------------------------------
(* The picture order count restored from an LSB is the one that was coded. *)
(* A POC splits into an MSB, a multiple of the modulus, and an LSB.        *)
LEMMA SplitPoc ==
    ASSUME NEW poc \in Int
    PROVE  \E k \in Int : /\ Msb(poc) = k * MaxPicOrderCntLsb
                          /\ Lsb(poc) \in 0 .. MaxPicOrderCntLsb - 1
                          /\ poc = k * MaxPicOrderCntLsb + Lsb(poc)
<1> DEFINE M == MaxPicOrderCntLsb
<1>1. M \in Nat /\ M > 0
  BY MaxLsbAssumption
<1>2. poc = M * (poc \div M) + (poc % M) /\ poc % M \in 0 .. M - 1 /\ poc \div M \in Int
  BY <1>1, SMT
<1>3. Msb(poc) = M * (poc \div M)
  BY <1>1, <1>2 DEF Msb, Lsb
<1> QED
  BY <1>1, <1>2, <1>3 DEF Lsb

(* DeriveMsb restores the POC of every picture whose POC differs from that *)
(* of the previous sub-layer 0 picture by an amount in PocReach, whatever  *)
(* the modulus and however often the LSB has wrapped                       *)
(* (PictureOrderCount.cpp:22-43).                                          *)
THEOREM PocIsRestored ==
    ASSUME NEW prev \in Int, NEW d \in PocReach
    PROVE  DerivePoc(prev, Lsb(prev + d)) = prev + d
<1> DEFINE M == MaxPicOrderCntLsb
           poc == prev + d
<1>1. M \in Nat /\ M >= 2 /\ M = 2 * (M \div 2) /\ M \div 2 \in Nat
  BY MaxLsbAssumption, SMT
<1>2. d \in Int /\ 1 - M \div 2 <= d /\ d <= M \div 2
  BY <1>1 DEF PocReach
<1>3. PICK k \in Int : /\ Msb(prev) = k * M
                       /\ Lsb(prev) \in 0 .. M - 1
                       /\ prev = k * M + Lsb(prev)
  BY SplitPoc
<1>4. PICK j \in Int : /\ Msb(poc) = j * M
                       /\ Lsb(poc) \in 0 .. M - 1
                       /\ poc = j * M + Lsb(poc)
  BY <1>2, SplitPoc
<1>5. d = (j - k) * M + (Lsb(poc) - Lsb(prev))
  <2>1. (j - k) * M = j * M - k * M
    BY <1>1, <1>3, <1>4
  <2>2. d = poc - prev
    BY <1>2
  <2>3. j * M \in Int /\ k * M \in Int /\ Lsb(poc) \in Int /\ Lsb(prev) \in Int
    BY <1>1, <1>3, <1>4
  <2>4. d = (j * M + Lsb(poc)) - (k * M + Lsb(prev))
    BY <2>2, <1>3, <1>4
  <2> HIDE DEF poc, M
  <2> QED
    BY <2>1, <2>3, <2>4
<1>6. j - k \in {-1, 0, 1}
  <2>1. j - k < 2
    <3> SUFFICES ASSUME j - k >= 2 PROVE FALSE
      BY <1>3, <1>4
    <3>1. (j - k) * M >= 2 * M
      BY <1>1
    <3> QED
      BY <3>1, <1>1, <1>2, <1>3, <1>4, <1>5
  <2>2. j - k > -2
    <3> SUFFICES ASSUME j - k <= -2 PROVE FALSE
      BY <1>3, <1>4
    <3>1. (j - k) * M <= (-2) * M
      BY <1>1
    <3> QED
      BY <3>1, <1>1, <1>2, <1>3, <1>4, <1>5
  <2> QED
    BY <2>1, <2>2
<1>7. CASE j - k = 0
  <2>1. d = Lsb(poc) - Lsb(prev) /\ Msb(poc) = Msb(prev)
    BY <1>5, <1>7, <1>3, <1>4, <1>1
  <2> QED
    BY <2>1, <1>1, <1>2, <1>3, <1>4 DEF DerivePoc, DeriveMsb
<1>8. CASE j - k = 1
  <2>1. d = M + Lsb(poc) - Lsb(prev) /\ Msb(poc) = Msb(prev) + M
    BY <1>5, <1>8, <1>3, <1>4, <1>1
  <2> QED
    BY <2>1, <1>1, <1>2, <1>3, <1>4 DEF DerivePoc, DeriveMsb
<1>9. CASE j - k = -1
  <2>1. d = Lsb(poc) - Lsb(prev) - M /\ Msb(poc) = Msb(prev) - M
    BY <1>5, <1>9, <1>3, <1>4, <1>1
  <2> QED
    BY <2>1, <1>1, <1>2, <1>3, <1>4 DEF DerivePoc, DeriveMsb
<1> QED
  BY <1>6, <1>7, <1>8, <1>9

-------------------------------------------------------------------------------
(* The types of the variables, and the decoder's control.                  *)

(* The access unit of the CPB: which labels find it in which state.        *)
AUInv ==
    /\ cpb # "empty" => au > 0
    /\ pc = "store" => cpb = "empty"
    /\ pc \in {"store", "au"} /\ nal # EndOfStream /\ cpb = "empty" => au < MaxAU
    /\ pc = "au" => nal # EndOfStream /\ cpb # "picture"
    /\ pc = "pps" => cpb = "opened"
    /\ pc \in {"output", "header"} => cpb = "picture"

LEMMA LsbType ==
    ASSUME NEW poc \in Int
    PROVE  /\ Lsb(poc) \in 0 .. MaxPicOrderCntLsb - 1
           /\ Lsb(poc) \in Int
           /\ Msb(poc) \in Int
<1>1. MaxPicOrderCntLsb \in Nat /\ MaxPicOrderCntLsb > 0
  BY MaxLsbAssumption
<1> QED
  BY <1>1, SMT DEF Lsb, Msb

LEMMA DeriveType ==
    ASSUME NEW prev \in Int, NEW lsb \in Int
    PROVE  DerivePoc(prev, lsb) \in Int
BY LsbType, MaxLsbAssumption DEF DerivePoc, DeriveMsb

LEMMA LtEntryType ==
    ASSUME TypeOK, NEW q \in Picture, NEW truth \in Int, NEW msb \in BOOLEAN
    PROVE  LtEntry(q, truth, msb) \in [lsb : Int, cycle : Int, msb : BOOLEAN]
<1>1. pic[q].truth \in Int
  BY DEF TypeOK, PictureType
<1>2. Lsb(pic[q].truth) \in Int /\ Msb(truth) \in Int /\ Msb(pic[q].truth) \in Int
  BY <1>1, LsbType
<1>3. (Msb(truth) - Msb(pic[q].truth)) \div MaxPicOrderCntLsb \in Int
  BY <1>2, MaxLsbAssumption, SMT
<1> QED
  BY <1>2, <1>3 DEF LtEntry

LEMMA TypeInit == Init => TypeOK /\ AUInv
<1> SUFFICES ASSUME Init PROVE TypeOK /\ AUInv
  OBVIOUS
<1> USE DEF Init
<1>1. pic \in [Picture -> PictureType]
  BY DEF NoPicture, PictureType, NalUnitType, RefPicType
<1>2. nal \in Coded
  BY DEF Coded, Aud, NonVcl, AUD_NUT, NalUnitType, Limits, NoLimits
<1>3. limits \in Limits
  BY DEF Limits, NoLimits
<1>4. latency \in [Picture -> Nat] /\ outputNo \in [Picture -> Nat \cup {NotOutput}]
  OBVIOUS
<1>5. au \in 0 .. MaxAU /\ events \in 0 .. MaxEvents
  BY MaxAUAssumption, BitstreamAssumption
<1>6. eos \in BOOLEAN /\ soCVS \in BOOLEAN
  OBVIOUS
<1>7. pc \in Label /\ cpb \in {"empty", "opened", "picture"} /\ guard \in Nat
  BY DEF Label
<1>8. dpb \subseteq Picture /\ waiting \subseteq dpb /\ refs \subseteq Picture
      /\ ltRefs \subseteq refs /\ prevTid0Set \subseteq Picture
  OBVIOUS
<1>9. prevTid0 \in Int /\ outputCntr \in Nat /\ cvs \in Nat /\ encTid0 \in Int
  OBVIOUS
<1>10. TypeOK
  BY <1>1, <1>2, <1>3, <1>4, <1>5, <1>6, <1>7, <1>8, <1>9
     DEF TypeOK, BufferTypeOK, EncoderTypeOK
<1>11. AUInv
  BY DEF AUInv
<1> QED
  BY <1>10, <1>11

-------------------------------------------------------------------------------
(* What the encoder sends is well typed.                                   *)
LEMMA CurrType ==
    ASSUME TypeOK, AUInv, cpb # "empty"
    PROVE  curr \in Picture
BY MaxAUAssumption DEF TypeOK, AUInv, Picture, curr

LEMMA NextNoType ==
    ASSUME TypeOK, AUInv, nextNo < MaxAU
    PROVE  nextNo \in Picture
BY MaxAUAssumption DEF TypeOK, AUInv, Picture, nextNo, curr

Sent == EncoderTypeOK' /\ nal' \in Coded /\ nal'.nut \in Nuts /\ nal'.tid \in Nat

LEMMA EventType ==
    ASSUME TypeOK, NEW f, Flagged(f)
    PROVE  events' \in 0 .. MaxEvents
BY BitstreamAssumption DEF TypeOK, EncoderTypeOK, Flagged, Event

LEMMA HeaderType ==
    ASSUME TypeOK, NEW nut \in Nuts, NEW tid \in Int, NEW truth \in Int, NEW sps \in Limits,
           NEW f \in OutFlags, NEW noPrior \in BOOLEAN, NEW st \in SUBSET Int,
           NEW lt \in SUBSET [lsb : Int, cycle : Int, msb : BOOLEAN], NEW used \in BOOLEAN
    PROVE  [nut |-> nut, tid |-> tid, truth |-> truth, sps |-> sps,
            outFlag |-> f, noPrior |-> noPrior, st |-> st, lt |-> lt,
            used |-> used, afterEos |-> eos] \in Coded
<1>1. nut \in NalUnitType /\ f \in {"absent", "yes", "no"}
  BY BitstreamAssumption DEF NalUnitType, RSV_VCL31
<1>2. eos \in BOOLEAN
  BY DEF TypeOK, EncoderTypeOK
<1> QED
  BY <1>1, <1>2 DEF Coded

LEMMA SendIrapType ==
    ASSUME TypeOK, AUInv, SendIrap, nextNo < MaxAU
    PROVE  Sent
<1>1. PICK nut \in {t \in Nuts : isIRAP(t)}, sps \in SpsChoices, f \in OutFlags :
      \E truth \in IrapTruths(nut), noPrior \in NoPriorFlags(nut), foll \in IrapSets(nut) :
          SendIrapAs(nut, sps, f, truth, noPrior, foll)
  BY Zenon DEF SendIrap
<1>2. PICK truth \in IrapTruths(nut), noPrior \in NoPriorFlags(nut), foll \in IrapSets(nut) :
          SendIrapAs(nut, sps, f, truth, noPrior, foll)
  BY <1>1, Zenon
<1>3. truth \in Int
  BY BitstreamAssumption, MaxLsbAssumption DEF IrapTruths
<1>4. foll \in SUBSET Int
  BY BitstreamAssumption DEF IrapSets
<1>5. noPrior \in BOOLEAN
  BY DEF NoPriorFlags
<1>6. sps \in Limits /\ nut \in Nuts
  BY BitstreamAssumption
<1>7. nal' \in Coded /\ nal'.nut \in Nuts /\ nal'.tid \in Nat
  <2>1. [nut |-> nut, tid |-> 0, truth |-> truth, sps |-> sps,
         outFlag |-> f, noPrior |-> noPrior, st |-> foll, lt |-> {},
         used |-> FALSE, afterEos |-> eos] \in Coded
    <3>1. 0 \in Int /\ FALSE \in BOOLEAN /\ {} \in SUBSET [lsb : Int, cycle : Int, msb : BOOLEAN]
      OBVIOUS
    <3> QED
      BY <3>1, <1>3, <1>4, <1>5, <1>6, HeaderType, Zenon
  <2>2. nal' = [nut |-> nut, tid |-> 0, truth |-> truth, sps |-> sps,
                outFlag |-> f, noPrior |-> noPrior, st |-> foll, lt |-> {},
                used |-> FALSE, afterEos |-> eos]
    BY <1>2, Zenon DEF SendIrapAs
  <2> QED
    BY <1>6, <2>1, <2>2
<1>8. events' \in 0 .. MaxEvents
  BY <1>2, EventType DEF SendIrapAs
<1>9. nextNo \in Picture
  BY NextNoType
<1> QED
  BY <1>2, <1>3, <1>7, <1>8, <1>9 DEF SendIrapAs, Sent, EncoderTypeOK

LEMMA SendRaslType ==
    ASSUME TypeOK, AUInv, SendRasl, nextNo < MaxAU
    PROVE  Sent
<1>1. PICK nut \in {t \in Nuts : isRASL(t)}, tid \in Tids, f \in OutFlags, d \in PocReach :
          SendRaslAs(nut, tid, f, encTid0 + d)
  BY Zenon DEF SendRasl
<1>2. encTid0 + d \in Int /\ tid \in Int
  BY BitstreamAssumption, MaxLsbAssumption DEF TypeOK, EncoderTypeOK, PocReach
<1>3. limits \in Limits /\ nut \in Nuts /\ tid \in Nat
  BY BitstreamAssumption DEF TypeOK, BufferTypeOK
<1>4. nal' \in Coded /\ nal'.nut \in Nuts /\ nal'.tid \in Nat
  BY <1>1, <1>2, <1>3, HeaderType DEF SendRaslAs
<1>5. events' \in 0 .. MaxEvents
  BY <1>1, EventType DEF SendRaslAs
<1>6. nextNo \in Picture
  BY NextNoType
<1> QED
  BY <1>1, <1>4, <1>5, <1>6 DEF SendRaslAs, Sent, TypeOK, EncoderTypeOK

LEMMA SendInterType ==
    ASSUME TypeOK, AUInv, SendInter, nextNo < MaxAU
    PROVE  Sent
<1>1. PICK nut \in {t \in Nuts : ~isIRAP(t) /\ ~isRASL(t)}, tid \in Tids, f \in OutFlags,
           d \in PocReach, kept \in SUBSET refs :
      \E long \in LongSets(kept) :
      \E byLsb \in SUBSET {q \in long : LsbNames(q)} :
          SendInterAs(nut, tid, f, encTid0 + d, kept, long, byLsb)
  BY Zenon DEF SendInter
<1>2. PICK long \in LongSets(kept) :
      \E byLsb \in SUBSET {q \in long : LsbNames(q)} :
          SendInterAs(nut, tid, f, encTid0 + d, kept, long, byLsb)
  BY <1>1, Zenon
<1>3. PICK byLsb \in SUBSET {q \in long : LsbNames(q)} :
          SendInterAs(nut, tid, f, encTid0 + d, kept, long, byLsb)
  BY <1>2, Zenon
<1> DEFINE truth == encTid0 + d
           st == {pic[q].truth - truth : q \in kept \ long}
           lt == {LtEntry(q, truth, q \notin byLsb) : q \in long}
           used == \A q \in kept : Usable(q, tid)
<1>4. truth \in Int /\ tid \in Int
  BY BitstreamAssumption, MaxLsbAssumption DEF TypeOK, EncoderTypeOK, PocReach
<1>5. limits \in Limits /\ nut \in Nuts /\ tid \in Nat
  BY BitstreamAssumption DEF TypeOK, BufferTypeOK
<1>6. kept \subseteq Picture /\ long \subseteq kept
  BY DEF TypeOK, EncoderTypeOK, LongSets
<1>7. st \in SUBSET Int
  <2>1. \A q \in Picture : pic[q].truth \in Int
    BY DEF TypeOK, PictureType
  <2> QED
    BY <1>4, <1>6, <2>1
<1>8. lt \in SUBSET [lsb : Int, cycle : Int, msb : BOOLEAN]
  <2>1. \A q \in long : LtEntry(q, truth, q \notin byLsb) \in [lsb : Int, cycle : Int, msb : BOOLEAN]
    BY <1>4, <1>6, LtEntryType
  <2> HIDE DEF truth
  <2> QED
    BY <2>1
<1>9. used \in BOOLEAN
  BY Zenon
<1>10. nal' = [nut |-> nut, tid |-> tid, truth |-> truth, sps |-> limits,
               outFlag |-> f, noPrior |-> FALSE, st |-> st, lt |-> lt,
               used |-> used, afterEos |-> eos]
  BY <1>3, Zenon DEF SendInterAs
<1>11. nal' \in Coded /\ nal'.nut \in Nuts /\ nal'.tid \in Nat
  <2> HIDE DEF truth, st, lt, used
  <2>1. [nut |-> nut, tid |-> tid, truth |-> truth, sps |-> limits,
               outFlag |-> f, noPrior |-> FALSE, st |-> st, lt |-> lt,
               used |-> used, afterEos |-> eos] \in Coded
    BY <1>4, <1>5, <1>7, <1>8, <1>9, HeaderType
  <2> QED
    BY <1>5, <1>10, <2>1
<1>12. events' \in 0 .. MaxEvents
  BY <1>3, EventType DEF SendInterAs
<1>13. nextNo \in Picture
  BY NextNoType
<1>14. refs' = kept \cup {nextNo} /\ ltRefs' = long /\ eos' = eos
  BY <1>3, Zenon DEF SendInterAs
<1>15. /\ encTid0' \in {truth, encTid0}
       /\ prevTid0Set' \in {kept \cup {nextNo}, prevTid0Set \cup {nextNo}}
  BY <1>3, Zenon DEF SendInterAs
<1> QED
  BY <1>4, <1>6, <1>11, <1>12, <1>13, <1>14, <1>15 DEF Sent, TypeOK, EncoderTypeOK

LEMMA SendPictureType ==
    ASSUME TypeOK, AUInv, SendPicture
    PROVE  Sent /\ nextNo < MaxAU
BY SendIrapType, SendRaslType, SendInterType, Zenon DEF SendPicture

-------------------------------------------------------------------------------
(* The operations of the buffer keep its type.                             *)
LEMMA IsTemporalId0Type ==
    ASSUME NEW p
    PROVE  isTemporalId0(p) \in BOOLEAN
BY Zenon DEF isTemporalId0

LEMMA EmplaceBackType ==
    ASSUME TypeOK, NEW p \in Picture, EmplaceBack(p)
    PROVE  BufferTypeOK'
<1>1. pic[p].poc \in Int
  BY DEF TypeOK, PictureType
<1>2. prevTid0' \in {pic[p].poc, prevTid0}
  BY Zenon DEF EmplaceBack
<1>3. latency' \in [Picture -> Nat]
  BY DEF EmplaceBack, TypeOK, BufferTypeOK
<1>4. dpb' \subseteq Picture
  BY DEF EmplaceBack, TypeOK, BufferTypeOK
<1>5. waiting' \subseteq dpb'
  <2>1. waiting' \in {waiting \cup {p}, waiting} /\ dpb' = dpb \cup {p}
    BY Zenon DEF EmplaceBack
  <2> QED
    BY <2>1 DEF TypeOK, BufferTypeOK
<1> QED
  BY <1>1, <1>2, <1>3, <1>4, <1>5 DEF EmplaceBack, TypeOK, BufferTypeOK

LEMMA BumpType ==
    ASSUME TypeOK, Bump
    PROVE  BufferTypeOK'
<1>1. PICK p \in waiting :
        /\ waiting' = waiting \ {p}
        /\ outputNo' = [outputNo EXCEPT ![p] = outputCntr]
        /\ outputCntr' = outputCntr + 1
        /\ dpb' = IF pic[p].ref = "Unused" THEN dpb \ {p} ELSE dpb
        /\ UNCHANGED <<latency, limits, prevTid0>>
  BY Zenon DEF Bump
<1>2. dpb' \subseteq Picture /\ waiting' \subseteq dpb'
  BY <1>1 DEF TypeOK, BufferTypeOK
<1>3. outputNo' \in [Picture -> Nat \cup {NotOutput}] /\ outputCntr' \in Nat
  BY <1>1 DEF TypeOK, BufferTypeOK
<1> QED
  BY <1>1, <1>2, <1>3 DEF TypeOK, BufferTypeOK

(* What is left when pictures leave the buffer without output.             *)
LEMMA EraseType ==
    ASSUME TypeOK, NEW ref, EraseUnused(ref),
           UNCHANGED <<waiting, latency, limits, prevTid0, outputNo, outputCntr>>
    PROVE  BufferTypeOK'
BY DEF TypeOK, BufferTypeOK, EraseUnused

LEMMA ClearType ==
    ASSUME TypeOK, Clear, UNCHANGED <<latency, limits, prevTid0, outputNo, outputCntr>>
    PROVE  BufferTypeOK'
BY DEF TypeOK, BufferTypeOK, Clear

LEMMA BufferUnchanged ==
    ASSUME TypeOK, UNCHANGED dpbVars
    PROVE  BufferTypeOK'
BY DEF TypeOK, BufferTypeOK, dpbVars

LEMMA EncoderUnchanged ==
    ASSUME TypeOK, UNCHANGED encVars
    PROVE  EncoderTypeOK'
BY DEF TypeOK, EncoderTypeOK, encVars

LEMMA BumpGuardType ==
    ASSUME TypeOK
    PROVE  BumpGuard(limits) \in Nat
BY DEF TypeOK, BufferTypeOK, Limits, BumpGuard

LEMMA CurrPocType ==
    ASSUME TypeOK
    PROVE  currPoc \in Int
<1>1. nal.truth \in Int /\ prevTid0 \in Int
  BY DEF TypeOK, BufferTypeOK, Coded
<1>2. Lsb(nal.truth) \in Int
  BY <1>1, LsbType
<1>3. DerivePoc(prevTid0, Lsb(nal.truth)) \in Int
  BY <1>1, <1>2, DeriveType
<1> QED
  BY <1>2, <1>3 DEF currPoc

LEMMA CloseAUType ==
    ASSUME TypeOK, AUInv, NEW tid, CloseAU(tid)
    PROVE  /\ BufferTypeOK'
           /\ cpb' \in {"empty", cpb}
           /\ pc' \in {"store", "au"}
           /\ pc' = "store" => cpb' = "empty"
           /\ cpb' # "picture"
           /\ cpb = "opened" /\ tid # -1 => cpb' = "opened"
<1>1. CASE cpb = "picture" /\ ~isRASL(pic[curr].nut) /\ EmplaceBack(curr)
           /\ cpb' = "empty" /\ pc' = "store"
  BY <1>1, CurrType, EmplaceBackType
<1>2. CASE cpb = "picture" /\ isRASL(pic[curr].nut)
           /\ cpb' = "empty" /\ pc' = "au" /\ UNCHANGED dpbVars
  BY <1>2, BufferUnchanged
<1>3. CASE cpb # "picture" /\ cpb' = (IF tid = -1 THEN "empty" ELSE cpb)
           /\ pc' = "au" /\ UNCHANGED dpbVars
  BY <1>3, BufferUnchanged DEF TypeOK
<1> QED
  BY <1>1, <1>2, <1>3, Zenon DEF CloseAU

-------------------------------------------------------------------------------
(* One lemma for each action.                                              *)
LEMMA FirstSliceSegmentType ==
    ASSUME TypeOK, AUInv, FirstSliceSegment
    PROVE  TypeOK' /\ AUInv'
<1>1. /\ pc = "nal" /\ SendPicture /\ CloseAU(nal'.tid)
      /\ UNCHANGED <<pic, cvs, au, soCVS, guard>>
  BY DEF FirstSliceSegment
<1>2. Sent /\ nextNo < MaxAU
  BY <1>1, SendPictureType
<1>3. nal'.tid # -1
  BY <1>2 DEF Sent
<1>4. /\ BufferTypeOK' /\ cpb' \in {"empty", cpb} /\ pc' \in {"store", "au"}
      /\ pc' = "store" => cpb' = "empty"
      /\ cpb' # "picture"
      /\ cpb = "opened" => cpb' = "opened"
  BY <1>1, <1>3, CloseAUType
<1>5. TypeOK'
  BY <1>1, <1>2, <1>4 DEF TypeOK, Sent, Label
<1>6. cpb' = "empty" => au < MaxAU
  BY <1>2, <1>4 DEF nextNo
<1>7. nal' # EndOfStream
  BY <1>2, BitstreamAssumption DEF Sent, EndOfStream, NonVcl, RSV_VCL31
<1>8. AUInv'
  BY <1>1, <1>4, <1>6, <1>7 DEF AUInv, TypeOK
<1> QED
  BY <1>5, <1>8

LEMMA AudType == Aud \in Coded /\ Aud # EndOfStream /\ EndOfStream \in Coded
BY DEF Coded, Aud, EndOfStream, NonVcl, AUD_NUT, NalUnitType, Limits, NoLimits

LEMMA AccessUnitDelimiterType ==
    ASSUME TypeOK, AUInv, AccessUnitDelimiter
    PROVE  TypeOK' /\ AUInv'
<1>1. /\ pc = "nal" /\ au < MaxAU /\ nal' = Aud /\ CloseAU(-1) /\ Event
      /\ UNCHANGED <<pic, cvs, au, refs, ltRefs, encTid0, prevTid0Set, eos, soCVS, guard>>
  BY DEF AccessUnitDelimiter
<1>2. /\ BufferTypeOK' /\ cpb' \in {"empty", cpb} /\ pc' \in {"store", "au"}
      /\ pc' = "store" => cpb' = "empty"
      /\ cpb' # "picture"
  BY <1>1, CloseAUType
<1>3. EncoderTypeOK'
  BY <1>1, BitstreamAssumption DEF TypeOK, EncoderTypeOK, Event
<1>4. TypeOK'
  BY <1>1, <1>2, <1>3, AudType DEF TypeOK, Label
<1>5. AUInv'
  BY <1>1, <1>2, AudType DEF AUInv, TypeOK
<1> QED
  BY <1>4, <1>5

LEMMA EndOfSequenceType ==
    ASSUME TypeOK, AUInv, EndOfSequence
    PROVE  TypeOK' /\ AUInv'
<1>1. EncoderTypeOK'
  BY BitstreamAssumption DEF EndOfSequence, TypeOK, EncoderTypeOK, Event
<1>2. BufferTypeOK'
  BY BufferUnchanged DEF EndOfSequence
<1> QED
  BY <1>1, <1>2 DEF EndOfSequence, TypeOK, AUInv

LEMMA StoreType ==
    ASSUME TypeOK, AUInv, StoreBump \/ StoreDone
    PROVE  TypeOK' /\ AUInv'
<1>1. CASE StoreBump
  BY <1>1, BumpType, EncoderUnchanged DEF StoreBump, TypeOK, AUInv
<1>2. CASE StoreDone
  BY <1>2, BufferUnchanged, EncoderUnchanged DEF StoreDone, TypeOK, AUInv, Label
<1> QED
  BY <1>1, <1>2

LEMMA OpenAUType ==
    ASSUME TypeOK, AUInv, OpenAU
    PROVE  TypeOK' /\ AUInv'
<1>1. au' \in 0 .. MaxAU /\ au' > 0
  BY MaxAUAssumption DEF OpenAU, TypeOK, AUInv
<1>2. cvs' \in Nat /\ cpb' = "opened" /\ pc' \in {"nal", "pps"}
  BY DEF OpenAU, TypeOK
<1>3. soCVS' \in BOOLEAN
  BY Zenon DEF OpenAU, TypeOK
<1>4. BufferTypeOK' /\ EncoderTypeOK'
  BY BufferUnchanged, EncoderUnchanged DEF OpenAU
<1> QED
  BY <1>1, <1>2, <1>3, <1>4 DEF OpenAU, TypeOK, AUInv, Label

LEMMA SlicePicParameterSetIdType ==
    ASSUME TypeOK, AUInv, SlicePicParameterSetId
    PROVE  TypeOK' /\ AUInv'
<1> USE DEF SlicePicParameterSetId
<1>1. curr \in Picture
  BY CurrType DEF AUInv
<1>2. NewPicture \in PictureType
  <2>1. nal.nut \in NalUnitType /\ nal.tid \in Int /\ nal.truth \in Int
    BY DEF TypeOK, Coded
  <2>2. soCVS \in BOOLEAN /\ cvs \in Nat
    BY DEF TypeOK
  <2>3. nal.noPrior \in BOOLEAN
    BY DEF TypeOK, Coded
  <2>4. 0 \in Int /\ TRUE \in BOOLEAN /\ "ShortTerm" \in RefPicType
    BY DEF RefPicType
  <2> QED
    BY <2>1, <2>2, <2>3, <2>4 DEF PictureType, NewPicture
<1>3. pic' = [pic EXCEPT ![curr] = NewPicture]
  BY Zenon
<1>4. pic' \in [Picture -> PictureType]
  BY <1>1, <1>2, <1>3 DEF TypeOK
<1>5. limits' \in {nal.sps, limits}
  BY Zenon DEF Setup
<1>6. BufferTypeOK'
  BY <1>5 DEF TypeOK, BufferTypeOK, Coded
<1>7. EncoderTypeOK'
  BY EncoderUnchanged
<1> QED
  BY <1>4, <1>6, <1>7 DEF TypeOK, AUInv, Label

LEMMA PicOutputFlagType ==
    ASSUME TypeOK, AUInv, PicOutputFlag
    PROVE  TypeOK' /\ AUInv'
<1>1. curr \in Picture
  BY CurrType DEF AUInv, PicOutputFlag
<1>2. pic' = pic \/ \E b \in BOOLEAN : pic' = [pic EXCEPT ![curr].out = b]
  BY Zenon DEF PicOutputFlag
<1>3. pic' \in [Picture -> PictureType]
  BY <1>1, <1>2 DEF TypeOK, PictureType
<1>4. pc' \in {"header", "aborted"}
  BY Zenon DEF PicOutputFlag
<1>5. BufferTypeOK' /\ EncoderTypeOK'
  BY BufferUnchanged, EncoderUnchanged DEF PicOutputFlag
<1> QED
  BY <1>3, <1>4, <1>5 DEF PicOutputFlag, TypeOK, AUInv, Label

LEMMA MarkingType ==
    ASSUME TypeOK
    PROVE  Marking \in [Picture -> RefPicType]
<1>1. \A p \in Picture : pic[p].ref \in RefPicType
  BY DEF TypeOK, PictureType
<1>2. {"Unused", "ShortTerm", "LongTerm"} = RefPicType
  BY DEF RefPicType
<1>3. \A p \in Picture : Marking[p] \in {pic[p].ref, "Unused", "ShortTerm", "LongTerm"}
  BY Zenon DEF Marking
<1> QED
  BY <1>1, <1>2, <1>3 DEF Marking

LEMMA SliceSegmentHeaderType ==
    ASSUME TypeOK, AUInv, SliceSegmentHeader
    PROVE  TypeOK' /\ AUInv'
<1>1. pic' \in [Picture -> PictureType]
  <2>1. pic' = [p \in Picture |-> IF p = curr THEN [pic[p] EXCEPT !.poc = currPoc]
                                 ELSE [pic[p] EXCEPT !.ref = Marking[p]]]
    BY Zenon DEF SliceSegmentHeader
  <2>2. \A p \in Picture : /\ [pic[p] EXCEPT !.poc = currPoc] \in PictureType
                           /\ [pic[p] EXCEPT !.ref = Marking[p]] \in PictureType
    BY CurrPocType, MarkingType DEF TypeOK, PictureType
  <2> QED
    BY <2>1, <2>2
<1>2. BufferTypeOK' /\ guard' \in Nat /\ pc' \in {"aborted", "flush", "update"}
  <2>1. /\ UNCHANGED <<latency, limits, prevTid0, outputNo, outputCntr>>
        /\ \/ pc' = "aborted" /\ UNCHANGED <<dpb, waiting, guard>>
           \/ pc' = "update" /\ Clear /\ guard' = BumpGuard(limits)
           \/ /\ pc' = (IF StartOfSequence /\ soCVS THEN "flush" ELSE "update")
              /\ EraseUnused(Marking) /\ waiting' = waiting
              /\ guard' = BumpGuard(limits)
    BY Zenon DEF SliceSegmentHeader
  <2>2. CASE pc' = "aborted" /\ UNCHANGED <<dpb, waiting, guard>>
    BY <2>1, <2>2, BufferUnchanged DEF dpbVars, TypeOK
  <2>3. CASE pc' = "update" /\ Clear /\ guard' = BumpGuard(limits)
    BY <2>1, <2>3, ClearType, BumpGuardType
  <2>4. CASE /\ pc' = (IF StartOfSequence /\ soCVS THEN "flush" ELSE "update")
             /\ EraseUnused(Marking) /\ waiting' = waiting
             /\ guard' = BumpGuard(limits)
    BY <2>1, <2>4, EraseType, BumpGuardType
  <2> QED
    BY <2>1, <2>2, <2>3, <2>4
<1>3. EncoderTypeOK'
  BY EncoderUnchanged DEF SliceSegmentHeader
<1> QED
  BY <1>1, <1>2, <1>3 DEF SliceSegmentHeader, TypeOK, AUInv, Label

LEMMA GuardedBumpType ==
    ASSUME TypeOK, GuardedBump
    PROVE  BufferTypeOK' /\ guard' \in Nat /\ pc' \in {pc, "aborted"}
BY BumpType, BufferUnchanged DEF GuardedBump, TypeOK

LEMMA UpdateDPBType ==
    ASSUME TypeOK, AUInv, FlushBump \/ Flushed \/ UpdateBump
    PROVE  TypeOK' /\ AUInv'
<1>1. ASSUME FlushBump \/ UpdateBump PROVE TypeOK' /\ AUInv'
  <2>1. EncoderTypeOK'
    BY <1>1, EncoderUnchanged DEF FlushBump, UpdateBump
  <2>2. BufferTypeOK' /\ guard' \in Nat /\ pc' \in {"flush", "update", "aborted", "ctus"}
    BY <1>1, GuardedBumpType, BufferUnchanged DEF FlushBump, UpdateBump, TypeOK
  <2> QED
    BY <1>1, <2>1, <2>2 DEF FlushBump, UpdateBump, TypeOK, AUInv, Label
<1>2. CASE Flushed
  BY <1>2, EraseType, EncoderUnchanged, BumpGuardType DEF Flushed, TypeOK, AUInv, Label
<1> QED
  BY <1>1, <1>2

LEMMA SliceDataType ==
    ASSUME TypeOK, AUInv, FinishPicture \/ LoseSlices
    PROVE  TypeOK' /\ AUInv'
<1>1. CASE FinishPicture
  BY <1>1, BufferUnchanged, EncoderUnchanged DEF FinishPicture, TypeOK, AUInv, Label
<1>2. CASE LoseSlices
  <2>1. EncoderTypeOK'
    BY <1>2, BitstreamAssumption DEF LoseSlices, TypeOK, EncoderTypeOK, Event
  <2> QED
    BY <1>2, <2>1, BufferUnchanged DEF LoseSlices, TypeOK, AUInv, Label
<1> QED
  BY <1>1, <1>2

LEMMA EndOfBitstreamType ==
    ASSUME TypeOK, AUInv, EndOfBitstream
    PROVE  TypeOK' /\ AUInv'
<1>1. EncoderTypeOK' /\ nal' \in Coded /\ nal' = EndOfStream
  BY EncoderUnchanged, AudType DEF EndOfBitstream
<1>2. CASE /\ cpb = "picture" /\ EmplaceBack(curr) /\ cpb' = "empty"
           /\ pc' = "store" /\ guard' = guard
  BY <1>1, <1>2, CurrType, EmplaceBackType DEF EndOfBitstream, TypeOK, AUInv, Label
<1>3. CASE /\ EraseUnused([p \in Picture |-> pic[p].ref])
           /\ cpb' = (IF cpb = "picture" THEN "empty" ELSE cpb)
           /\ pc' = "flush" /\ guard' = BumpGuard(limits)
           /\ UNCHANGED <<waiting, latency, limits, prevTid0, outputNo, outputCntr>>
  BY <1>1, <1>3, EraseType, BumpGuardType DEF EndOfBitstream, TypeOK, AUInv, Label
<1> QED
  BY <1>2, <1>3, Zenon DEF EndOfBitstream

LEMMA FinishType ==
    ASSUME TypeOK, AUInv, LastFlush \/ Finish
    PROVE  TypeOK' /\ AUInv'
<1>1. CASE LastFlush
  BY <1>1, EraseType, EncoderUnchanged, BumpGuardType DEF LastFlush, TypeOK, AUInv, Label
<1>2. CASE Finish
  BY <1>2, ClearType, EncoderUnchanged DEF Finish, TypeOK, AUInv, Label
<1> QED
  BY <1>1, <1>2

(* Every variable keeps its type, and only pictures of the buffer wait, in *)
(* every behaviour and for every value of the constants.                   *)
THEOREM TypeCorrect == Spec => [](TypeOK /\ AUInv)
<1>1. Init => TypeOK /\ AUInv
  BY TypeInit
<1>2. TypeOK /\ AUInv /\ [Next]_vars => TypeOK' /\ AUInv'
  <2> SUFFICES ASSUME TypeOK, AUInv, [Next]_vars
               PROVE  TypeOK' /\ AUInv'
    OBVIOUS
  <2>1. CASE UNCHANGED vars
    BY <2>1 DEF vars, TypeOK, BufferTypeOK, EncoderTypeOK, AUInv
  <2>2. CASE Terminated
    BY <2>1, <2>2 DEF Terminated
  <2> QED
    BY <2>1, <2>2, FirstSliceSegmentType, AccessUnitDelimiterType, EndOfSequenceType,
       StoreType, OpenAUType, SlicePicParameterSetIdType, PicOutputFlagType,
       SliceSegmentHeaderType, UpdateDPBType, SliceDataType, EndOfBitstreamType,
       FinishType, Zenon DEF Next
<1> QED
  BY <1>1, <1>2, PTL DEF Spec

-------------------------------------------------------------------------------
(* The decoder restores the POC of every picture.  The invariant says what *)
(* the decoder's prevTid0 is compared with the encoder's encTid0: the same *)
(* while a picture with its header parsed is not stored yet only up to     *)
(* that picture.                                                           *)
(* Labels between the NAL unit header and the creation of its picture.     *)
Opening == {"store", "au", "pps"}

(* Every picture has the POC it was coded with, those not created yet too. *)
AllRestored == \A p \in Picture : PocDerived(p) => pic[p].poc = pic[p].truth

(* The encoder's previous sub-layer 0 picture is the decoder's, unless it  *)
(* is the picture being opened or the one in the CPB.                      *)
Tid0Agrees ==
    encTid0 = IF pc \in Opening
                THEN IF IsTid0(nal) THEN nal.truth ELSE prevTid0
                ELSE IF cpb = "picture" /\ isTemporalId0(curr) THEN pic[curr].truth ELSE prevTid0

(* What the header being parsed says is what the derivation can restore.   *)
HeaderRestorable ==
    pc \in Opening \cup {"output", "header"} =>
        \/ nal \in {Aud, EndOfStream}
        \/ /\ nal.nut \in Nuts
           /\ IF isIRAP(nal.nut) THEN nal.truth \in 0 .. MaxPicOrderCntLsb - 1
                                 ELSE nal.truth - prevTid0 \in PocReach

(* The picture in the CPB is that of the header being parsed.              *)
HeaderAgrees ==
    /\ pc \in {"pps", "output", "header"} => nal.nut \in Nuts
    /\ pc = "pps" => (isIRAP(nal.nut) => soCVS)
    /\ pc \in {"output", "header"} =>
        /\ pic[curr].nut = nal.nut /\ pic[curr].tid = nal.tid /\ pic[curr].truth = nal.truth
        /\ isIRAP(nal.nut) => pic[curr].noRasl

PocInv == AllRestored /\ Tid0Agrees /\ HeaderRestorable /\ HeaderAgrees

pocVars == <<pic, prevTid0, nal, au, cpb, encTid0, soCVS>>

LEMMA PocInit == Init => PocInv
<1> SUFFICES ASSUME Init PROVE PocInv
  OBVIOUS
<1>1. AllRestored
  BY DEF Init, AllRestored, NoPicture
<1>2. Tid0Agrees /\ HeaderRestorable /\ HeaderAgrees
  BY DEF Init, Tid0Agrees, HeaderRestorable, HeaderAgrees, Opening
<1> QED
  BY <1>1, <1>2 DEF PocInv

(* A step that only moves between the labels after the header.             *)
LEMMA PocUnchanged ==
    ASSUME PocInv, UNCHANGED pocVars,
           \/ pc' = pc
           \/ pc \notin Opening \cup {"output", "header", "aborted"}
              /\ pc' \notin Opening \cup {"output", "header"}
    PROVE  PocInv'
<1> USE DEF pocVars
<1>1. AllRestored'
  BY DEF PocInv, AllRestored, PocDerived, curr, Opening
<1>2. Tid0Agrees'
  BY DEF PocInv, Tid0Agrees, IsTid0, isTemporalId0, curr
<1>3. HeaderRestorable' /\ HeaderAgrees'
  BY DEF PocInv, HeaderRestorable, HeaderAgrees, Opening, curr
<1> QED
  BY <1>1, <1>2, <1>3 DEF PocInv

-------------------------------------------------------------------------------
(* What the encoder sends can be restored from its previous sub-layer 0    *)
(* picture, which it replaces when the new picture is one.                 *)
SentRestorable ==
    /\ nal'.nut \in Nuts
    /\ encTid0' = IF IsTid0(nal)' THEN nal'.truth ELSE encTid0
    /\ IF isIRAP(nal'.nut) THEN nal'.truth \in 0 .. MaxPicOrderCntLsb - 1
                           ELSE nal'.truth - encTid0 \in PocReach

LEMMA SendRestorable ==
    ASSUME TypeOK, AUInv, SendPicture
    PROVE  SentRestorable
<1> USE DEF IsTid0, isIRAP, isRASL, isRADL, isSubLayerNonReference, BLA_W_LP, RSV_IRAP_VCL23,
            RASL_N, RASL_R, RADL_N, RADL_R
<1>0. encTid0 \in Int /\ \A d \in PocReach : d \in Int
  BY MaxLsbAssumption DEF TypeOK, EncoderTypeOK, PocReach
<1>1. CASE SendIrap
  <2>1. PICK nut \in {t \in Nuts : isIRAP(t)}, sps \in SpsChoices, f \in OutFlags :
      \E truth \in IrapTruths(nut), noPrior \in NoPriorFlags(nut), foll \in IrapSets(nut) :
          SendIrapAs(nut, sps, f, truth, noPrior, foll)
    BY <1>1, Zenon DEF SendIrap
  <2>2. PICK truth \in IrapTruths(nut), noPrior \in NoPriorFlags(nut), foll \in IrapSets(nut) :
          SendIrapAs(nut, sps, f, truth, noPrior, foll)
    BY <2>1, Zenon
  <2>3. truth \in 0 .. MaxPicOrderCntLsb - 1
    BY BitstreamAssumption, MaxLsbAssumption DEF IrapTruths
  <2>4. nal'.nut = nut /\ nal'.tid = 0 /\ nal'.truth = truth /\ encTid0' = truth
    BY <2>2 DEF SendIrapAs
  <2>5. nut \in Nuts /\ nut \in 16 .. 23
    BY BitstreamAssumption DEF RSV_VCL31
  <2> QED
    BY <2>3, <2>4, <2>5 DEF SentRestorable
<1>2. CASE SendRasl
  <2>1. PICK nut \in {t \in Nuts : isRASL(t)}, tid \in Tids, f \in OutFlags, d \in PocReach :
          SendRaslAs(nut, tid, f, encTid0 + d)
    BY <1>2, Zenon DEF SendRasl
  <2>2. nal'.nut = nut /\ nal'.truth = encTid0 + d /\ encTid0' = encTid0
    BY <2>1 DEF SendRaslAs
  <2>3. nal'.truth - encTid0 \in PocReach
    BY <1>0, <2>2
  <2> QED
    BY <2>2, <2>3 DEF SentRestorable
<1>3. CASE SendInter
  <2>1. PICK nut \in {t \in Nuts : ~isIRAP(t) /\ ~isRASL(t)}, tid \in Tids, f \in OutFlags,
           d \in PocReach, kept \in SUBSET refs :
      \E long \in LongSets(kept) :
      \E byLsb \in SUBSET {q \in long : LsbNames(q)} :
          SendInterAs(nut, tid, f, encTid0 + d, kept, long, byLsb)
    BY <1>3, Zenon DEF SendInter
  <2>2. PICK long \in LongSets(kept) :
      \E byLsb \in SUBSET {q \in long : LsbNames(q)} :
          SendInterAs(nut, tid, f, encTid0 + d, kept, long, byLsb)
    BY <2>1, Zenon
  <2>3. PICK byLsb \in SUBSET {q \in long : LsbNames(q)} :
          SendInterAs(nut, tid, f, encTid0 + d, kept, long, byLsb)
    BY <2>2, Zenon
  <2>4. nal'.nut = nut /\ nal'.truth = encTid0 + d
    BY <2>3 DEF SendInterAs
  <2>5. encTid0' = IF IsTid0(nal)' THEN encTid0 + d ELSE encTid0
    BY <2>3, Zenon DEF SendInterAs
  <2>6. nal'.truth - encTid0 \in PocReach
    BY <1>0, <2>4
  <2>7. ~isIRAP(nal'.nut) /\ nal'.nut \in Nuts
    BY <2>4
  <2> HIDE DEF IsTid0, isIRAP
  <2> QED
    BY <2>4, <2>5, <2>6, <2>7 DEF SentRestorable
<1> QED
  BY <1>1, <1>2, <1>3, Zenon DEF SendPicture

(* When an access unit is closed the decoder's previous sub-layer 0        *)
(* picture becomes the encoder's.                                          *)
LEMMA CloseRestores ==
    ASSUME TypeOK, AUInv, PocInv, pc = "nal", NEW tid, CloseAU(tid)
    PROVE  prevTid0' = encTid0
<1>1. CASE cpb = "picture" /\ ~isRASL(pic[curr].nut) /\ EmplaceBack(curr)
  <2>1. curr \in Picture
    BY <1>1, CurrType
  <2>2. pic[curr].poc = pic[curr].truth
    BY <2>1 DEF PocInv, AllRestored, PocDerived
  <2>3. prevTid0' = IF isTemporalId0(curr) THEN pic[curr].poc ELSE prevTid0
    BY <1>1, Zenon DEF EmplaceBack
  <2> QED
    BY <1>1, <2>2, <2>3, Zenon DEF PocInv, Tid0Agrees, Opening
<1>2. CASE cpb = "picture" /\ isRASL(pic[curr].nut) /\ UNCHANGED dpbVars
  BY <1>2, Zenon DEF PocInv, Tid0Agrees, Opening, isTemporalId0, dpbVars
<1>3. CASE cpb # "picture" /\ UNCHANGED dpbVars
  BY <1>3, Zenon DEF PocInv, Tid0Agrees, Opening, dpbVars
<1> QED
  BY <1>1, <1>2, <1>3, Zenon DEF CloseAU

-------------------------------------------------------------------------------
LEMMA PocSend ==
    ASSUME TypeOK, AUInv, PocInv, FirstSliceSegment
    PROVE  PocInv'
<1>1. /\ pc = "nal" /\ SendPicture /\ CloseAU(nal'.tid)
      /\ pic' = pic /\ au' = au
  BY DEF FirstSliceSegment
<1>2. SentRestorable /\ prevTid0' = encTid0 /\ pc' \in {"store", "au"}
  BY <1>1, SendRestorable, CloseRestores, CloseAUType
<1>3. AllRestored'
  BY <1>1 DEF PocInv, AllRestored, PocDerived
<1>4. Tid0Agrees'
  BY <1>2, Zenon DEF SentRestorable, Tid0Agrees, Opening
<1>5. HeaderRestorable'
  BY <1>2 DEF SentRestorable, HeaderRestorable, Opening
<1>6. HeaderAgrees'
  BY <1>2 DEF HeaderAgrees
<1> QED
  BY <1>3, <1>4, <1>5, <1>6 DEF PocInv

LEMMA NoTid0 == ~IsTid0(Aud) /\ ~IsTid0(EndOfStream)
BY DEF IsTid0, Aud, EndOfStream, NonVcl

LEMMA PocDelimiter ==
    ASSUME TypeOK, AUInv, PocInv, AccessUnitDelimiter
    PROVE  PocInv'
<1>1. /\ pc = "nal" /\ CloseAU(-1) /\ nal' = Aud
      /\ pic' = pic /\ au' = au /\ encTid0' = encTid0
  BY DEF AccessUnitDelimiter
<1>2. prevTid0' = encTid0 /\ pc' \in {"store", "au"}
  BY <1>1, CloseRestores, CloseAUType
<1>3. AllRestored'
  BY <1>1 DEF PocInv, AllRestored, PocDerived
<1>4. ~IsTid0(nal)'
  BY <1>1, NoTid0 DEF IsTid0
<1>5. Tid0Agrees'
  BY <1>1, <1>2, <1>4, Zenon DEF Tid0Agrees, Opening
<1>6. HeaderRestorable' /\ HeaderAgrees'
  BY <1>1, <1>2 DEF HeaderRestorable, HeaderAgrees
<1> QED
  BY <1>3, <1>5, <1>6 DEF PocInv

LEMMA PocOpen ==
    ASSUME TypeOK, AUInv, PocInv, StoreDone \/ OpenAU
    PROVE  PocInv'
<1>1. CASE StoreDone
  BY <1>1 DEF StoreDone, dpbVars, encVars, PocInv, AllRestored, PocDerived, Tid0Agrees,
              HeaderRestorable, HeaderAgrees, Opening, curr, IsTid0, isTemporalId0
<1>2. CASE OpenAU
  <2>1. /\ pc = "au" /\ pc' = (IF nal = Aud THEN "nal" ELSE "pps") /\ cpb' = "opened"
        /\ soCVS' = (soCVS \/ StartsCvs(nal.nut))
        /\ UNCHANGED <<pic, prevTid0, nal, encTid0>>
    BY <1>2, Zenon DEF OpenAU, dpbVars, encVars
  <2>2. AllRestored'
    BY <2>1 DEF PocInv, AllRestored, PocDerived
  <2>3. Tid0Agrees'
    BY <2>1, NoTid0, Zenon DEF PocInv, Tid0Agrees, Opening, IsTid0
  <2>4. HeaderRestorable'
    BY <2>1 DEF PocInv, HeaderRestorable, Opening
  <2>5. ASSUME nal # Aud PROVE nal.nut \in Nuts /\ (isIRAP(nal.nut) => StartsCvs(nal.nut))
    <3>1. nal.nut \in Nuts
      BY <2>1, <2>5 DEF PocInv, HeaderRestorable, Opening, AUInv
    <3>2. nal.nut \in 0 .. 31 /\ ~isRSV(nal.nut)
      BY <3>1, BitstreamAssumption DEF RSV_VCL31
    <3>3. isIRAP(nal.nut) => nal.nut \in 16 .. 21
      BY <3>2 DEF isIRAP, isRSV, BLA_W_LP, RSV_IRAP_VCL23
    <3> QED
      BY <3>1, <3>3 DEF StartsCvs, isIDR, isBLA, isCRA,
         BLA_W_LP, BLA_N_LP, IDR_W_RADL, IDR_N_LP, CRA_NUT
  <2>6. HeaderAgrees'
    BY <2>1, <2>5, Zenon DEF HeaderAgrees
  <2> QED
    BY <2>2, <2>3, <2>4, <2>6 DEF PocInv
<1> QED
  BY <1>1, <1>2

LEMMA PocCreate ==
    ASSUME TypeOK, AUInv, PocInv, SlicePicParameterSetId
    PROVE  PocInv'
<1>1. /\ pc = "pps" /\ pc' = "output" /\ cpb' = "picture"
      /\ pic' = [pic EXCEPT ![curr] = NewPicture]
      /\ UNCHANGED <<prevTid0, nal, au, encTid0, soCVS>>
  BY Zenon DEF SlicePicParameterSetId, encVars
<1>2. curr \in Picture /\ curr' = curr
  BY <1>1, CurrType DEF AUInv, curr
<1>3. pic'[curr] = NewPicture /\ \A p \in Picture \ {curr} : pic'[p] = pic[p]
  BY <1>1, <1>2 DEF TypeOK
<1>4. /\ NewPicture.nut = nal.nut /\ NewPicture.tid = nal.tid
      /\ NewPicture.truth = nal.truth /\ NewPicture.noRasl = soCVS
  BY DEF NewPicture
<1>5. AllRestored'
  BY <1>1, <1>2, <1>3 DEF PocInv, AllRestored, PocDerived
<1>6. isTemporalId0(curr)' <=> IsTid0(nal)
  BY <1>2, <1>3, <1>4, Zenon DEF isTemporalId0, IsTid0
<1>7. Tid0Agrees'
  BY <1>1, <1>2, <1>3, <1>4, <1>6, Zenon DEF PocInv, Tid0Agrees, Opening
<1>8. HeaderRestorable'
  BY <1>1 DEF PocInv, HeaderRestorable, Opening
<1>9. HeaderAgrees'
  BY <1>1, <1>2, <1>3, <1>4, Zenon DEF PocInv, HeaderAgrees
<1> QED
  BY <1>5, <1>7, <1>8, <1>9 DEF PocInv

(* The fields that do not change when a picture is flagged or marked.      *)
SamePictures == \A p \in Picture : /\ pic'[p].nut = pic[p].nut /\ pic'[p].tid = pic[p].tid
                                   /\ pic'[p].truth = pic[p].truth
                                   /\ pic'[p].noRasl = pic[p].noRasl

LEMMA PocOutputFlag ==
    ASSUME TypeOK, AUInv, PocInv, PicOutputFlag
    PROVE  PocInv'
<1>1. /\ pc = "output" /\ pc' \in {"header", "aborted"}
      /\ pic' = pic \/ \E b \in BOOLEAN : pic' = [pic EXCEPT ![curr].out = b]
      /\ UNCHANGED <<prevTid0, nal, au, cpb, encTid0, soCVS>>
  BY Zenon DEF PicOutputFlag, encVars, dpbVars
<1>2. curr \in Picture /\ curr' = curr
  BY <1>1, CurrType DEF AUInv, curr
<1>3. SamePictures /\ \A p \in Picture : pic'[p].poc = pic[p].poc
  BY <1>1, <1>2 DEF SamePictures, TypeOK, PictureType
<1>4. AllRestored'
  BY <1>1, <1>2, <1>3, Zenon DEF PocInv, AllRestored, PocDerived, SamePictures
<1>5. isTemporalId0(curr)' <=> isTemporalId0(curr)
  BY <1>2, <1>3, Zenon DEF isTemporalId0, SamePictures
<1>6. Tid0Agrees'
  BY <1>1, <1>2, <1>3, <1>5 DEF PocInv, Tid0Agrees, Opening, SamePictures
<1>7. HeaderRestorable'
  BY <1>1 DEF PocInv, HeaderRestorable, Opening
<1>8. HeaderAgrees'
  BY <1>1, <1>2, <1>3 DEF PocInv, HeaderAgrees, SamePictures
<1> QED
  BY <1>4, <1>6, <1>7, <1>8 DEF PocInv

(* The POC of the current picture is restored.                             *)
LEMMA CurrPocRestored ==
    ASSUME TypeOK, AUInv, PocInv, pc = "header"
    PROVE  currPoc = pic[curr].truth
<1>1. /\ nal.nut \in Nuts /\ pic[curr].truth = nal.truth
      /\ isIRAP(nal.nut) => pic[curr].noRasl
  BY DEF PocInv, HeaderAgrees
<1>2. nal.nut \in 0 .. 31
  BY <1>1, BitstreamAssumption DEF RSV_VCL31
<1>3. nal # Aud /\ nal # EndOfStream
  BY <1>2 DEF Aud, EndOfStream, NonVcl, AUD_NUT
<1>4. IF isIRAP(nal.nut) THEN nal.truth \in 0 .. MaxPicOrderCntLsb - 1
                         ELSE nal.truth - prevTid0 \in PocReach
  BY <1>3, Zenon DEF PocInv, HeaderRestorable
<1>5. CASE isIRAP(nal.nut)
  <2>1. Lsb(nal.truth) = nal.truth
    BY <1>4, <1>5, MaxLsbAssumption DEF Lsb
  <2> QED
    BY <1>1, <1>5, <2>1 DEF currPoc, StartOfSequence
<1>6. CASE ~isIRAP(nal.nut)
  <2>1. prevTid0 \in Int /\ nal.truth \in Int
    BY DEF TypeOK, BufferTypeOK, Coded
  <2>2. PICK d \in PocReach : d = nal.truth - prevTid0
    BY <1>4, <1>6
  <2>3. d \in Int /\ nal.truth = prevTid0 + d
    BY <2>1, <2>2
  <2>4. DerivePoc(prevTid0, Lsb(nal.truth)) = nal.truth
    BY <2>1, <2>3, PocIsRestored
  <2> QED
    BY <1>1, <1>6, <2>4 DEF currPoc, StartOfSequence
<1> QED
  BY <1>5, <1>6

LEMMA PocHeader ==
    ASSUME TypeOK, AUInv, PocInv, SliceSegmentHeader
    PROVE  PocInv'
<1>1. /\ pc = "header" /\ pc' \in {"aborted", "flush", "update"}
      /\ pic' = [p \in Picture |-> IF p = curr THEN [pic[p] EXCEPT !.poc = currPoc]
                                 ELSE [pic[p] EXCEPT !.ref = Marking[p]]]
      /\ UNCHANGED <<prevTid0, nal, au, cpb, encTid0, soCVS>>
  BY Zenon DEF SliceSegmentHeader, encVars
<1>2. curr \in Picture /\ curr' = curr
  BY <1>1, CurrType DEF AUInv, curr
<1>3. SamePictures
  BY <1>1 DEF SamePictures, TypeOK, PictureType
<1>4. pic'[curr].poc = currPoc /\ \A p \in Picture \ {curr} : pic'[p].poc = pic[p].poc
  BY <1>1, <1>2 DEF TypeOK, PictureType
<1>5. currPoc = pic[curr].truth
  BY <1>1, CurrPocRestored
<1>6. AllRestored'
  BY <1>1, <1>2, <1>3, <1>4, <1>5 DEF PocInv, AllRestored, PocDerived, SamePictures
<1>7. isTemporalId0(curr)' <=> isTemporalId0(curr)
  BY <1>2, <1>3, Zenon DEF isTemporalId0, SamePictures
<1>8. Tid0Agrees'
  BY <1>1, <1>2, <1>3, <1>7 DEF PocInv, Tid0Agrees, Opening, SamePictures
<1>9. HeaderRestorable' /\ HeaderAgrees'
  BY <1>1 DEF HeaderRestorable, HeaderAgrees, Opening
<1> QED
  BY <1>6, <1>8, <1>9 DEF PocInv

LEMMA PocEnd ==
    ASSUME TypeOK, AUInv, PocInv, EndOfBitstream \/ LastFlush
    PROVE  PocInv'
<1>1. CASE EndOfBitstream
  <2>1. /\ pc = "nal" /\ nal' = EndOfStream /\ pc' \in {"store", "flush"}
        /\ pic' = pic /\ au' = au /\ encTid0' = encTid0
    BY <1>1, Zenon DEF EndOfBitstream, encVars
  <2>2. AllRestored'
    BY <2>1 DEF PocInv, AllRestored, PocDerived
  <2>3. HeaderRestorable' /\ HeaderAgrees'
    BY <2>1 DEF HeaderRestorable, HeaderAgrees
  <2>4. ~IsTid0(nal)'
    BY <2>1, NoTid0 DEF IsTid0
  <2>5. CASE cpb = "picture" /\ ~isRASL(pic[curr].nut) /\ EmplaceBack(curr) /\ pc' = "store"
    <3>1. curr \in Picture
      BY <2>5, CurrType
    <3>2. pic[curr].poc = pic[curr].truth
      BY <2>1, <3>1 DEF PocInv, AllRestored, PocDerived
    <3>3. prevTid0' = IF isTemporalId0(curr) THEN pic[curr].poc ELSE prevTid0
      BY <2>5, Zenon DEF EmplaceBack
    <3>4. prevTid0' = encTid0
      BY <2>1, <2>5, <3>2, <3>3, Zenon DEF PocInv, Tid0Agrees, Opening
    <3>5. Tid0Agrees'
      BY <2>1, <2>4, <2>5, <3>4, Zenon DEF Tid0Agrees, Opening
    <3> QED
      BY <2>2, <2>3, <3>5 DEF PocInv
  <2>6. CASE /\ ~(cpb = "picture" /\ ~isRASL(pic[curr].nut))
             /\ cpb' = (IF cpb = "picture" THEN "empty" ELSE cpb)
             /\ pc' = "flush" /\ prevTid0' = prevTid0
    <3>1. prevTid0 = encTid0 /\ cpb' # "picture"
      BY <2>1, <2>6, Zenon DEF PocInv, Tid0Agrees, Opening, isTemporalId0
    <3>2. Tid0Agrees'
      BY <2>1, <2>6, <3>1, Zenon DEF Tid0Agrees, Opening
    <3> QED
      BY <2>2, <2>3, <3>2 DEF PocInv
  <2> QED
    BY <1>1, <2>5, <2>6, Zenon DEF EndOfBitstream
<1>2. CASE LastFlush
  <2>1. /\ pc = "store" /\ nal = EndOfStream /\ pc' = "flush" /\ cpb = "empty"
        /\ UNCHANGED <<pic, prevTid0, nal, au, cpb, encTid0>>
    BY <1>2 DEF LastFlush, encVars, AUInv
  <2>2. AllRestored'
    BY <2>1 DEF PocInv, AllRestored, PocDerived
  <2>3. HeaderRestorable' /\ HeaderAgrees'
    BY <2>1 DEF HeaderRestorable, HeaderAgrees, Opening
  <2>4. Tid0Agrees'
    BY <2>1, NoTid0, Zenon DEF PocInv, Tid0Agrees, Opening
  <2> QED
    BY <2>2, <2>3, <2>4 DEF PocInv
<1> QED
  BY <1>1, <1>2

LEMMA PocOther ==
    ASSUME TypeOK, AUInv, PocInv,
           \/ EndOfSequence \/ StoreBump \/ FlushBump \/ Flushed \/ UpdateBump
           \/ FinishPicture \/ LoseSlices \/ Finish \/ UNCHANGED vars
    PROVE  PocInv'
<1> USE DEF dpbVars, encVars, pocVars, Opening
<1>1. CASE EndOfSequence
  BY <1>1, PocUnchanged DEF EndOfSequence
<1>2. CASE StoreBump
  <2>1. UNCHANGED pocVars /\ pc' = pc
    BY <1>2, Zenon DEF StoreBump, Bump
  <2> QED
    BY <2>1, PocUnchanged
<1>3. CASE FlushBump \/ UpdateBump
  <2>1. pc \in {"flush", "update"} /\ pc' \in {pc, "aborted", "ctus"}
        /\ UNCHANGED <<pic, nal, cvs, au, cpb, encVars, soCVS>> /\ prevTid0' = prevTid0
    BY <1>3, Zenon DEF FlushBump, UpdateBump, GuardedBump, Bump
  <2> QED
    BY <2>1, PocUnchanged
<1>4. CASE Flushed
  BY <1>4, PocUnchanged DEF Flushed
<1>7. CASE UNCHANGED vars
  BY <1>7, PocUnchanged DEF vars
<1>8. CASE LoseSlices
  BY <1>8, PocUnchanged DEF LoseSlices
<1>9. CASE Finish
  BY <1>9, PocUnchanged DEF Finish
<1>10. CASE FinishPicture
  <2>1. /\ pc = "ctus" /\ pc' = "nal"
        /\ UNCHANGED <<pic, prevTid0, nal, au, cpb, encTid0>>
    BY <1>10 DEF FinishPicture
  <2>2. AllRestored'
    BY <2>1 DEF PocInv, AllRestored, PocDerived
  <2>3. Tid0Agrees'
    BY <2>1 DEF PocInv, Tid0Agrees, isTemporalId0, curr
  <2>4. HeaderRestorable' /\ HeaderAgrees'
    BY <2>1 DEF HeaderRestorable, HeaderAgrees
  <2> QED
    BY <2>2, <2>3, <2>4 DEF PocInv
<1> QED
  BY <1>1, <1>2, <1>3, <1>4, <1>7, <1>8, <1>9, <1>10

LEMMA PocStep == TypeOK /\ AUInv /\ PocInv /\ [Next]_vars => PocInv'
<1> SUFFICES ASSUME TypeOK, AUInv, PocInv, [Next]_vars
             PROVE  PocInv'
  OBVIOUS
<1>1. CASE Terminated
  BY <1>1, PocOther DEF Terminated
<1> QED
  BY <1>1, PocSend, PocDelimiter, PocOpen, PocCreate, PocOutputFlag, PocHeader, PocEnd,
     PocOther, Zenon DEF Next

(* The decoder restores the POC of every picture the encoder sends, for    *)
(* every POC range, number of access units and mix of NAL unit types, and  *)
(* wherever delimiters or lost slice data fall.                            *)
THEOREM PocCorrect == Spec => []PocRestored
<1>1. Init => PocInv
  BY PocInit
<1>2. TypeOK /\ AUInv /\ PocInv /\ [Next]_vars => PocInv'
  BY PocStep
<1>3. PocInv => PocRestored
  BY DEF PocInv, AllRestored, PocRestored, Created
<1> QED
  BY <1>1, <1>2, <1>3, TypeCorrect, PTL DEF Spec

-------------------------------------------------------------------------------
(* Pictures leave the decoder in output order, when no parameter set bounds*)
(* the latency.  The argument: a picture is only output when more than     *)
(* num_reorder pictures of its sequence that do not precede it have        *)
(* arrived; a picture still to come with a smaller POC would be preceded   *)
(* in decoding order by all of these, more than a conforming encoder may   *)
(* send.                                                                   *)
Shown == {p \in Picture : outputNo[p] # NotOutput}

(* The pictures of the current sequence that entered the output queue.     *)
Arrived == {p \in Picture : pic[p].cvs = cvs /\ p \in waiting \cup Shown}
Above(t) == {p \in Arrived : pic[p].truth > t}
AtLeast(t) == {p \in Arrived : pic[p].truth >= t}

Earlier(p, q) ==
    \/ pic[p].cvs < pic[q].cvs
    \/ pic[p].cvs = pic[q].cvs /\ pic[p].truth < pic[q].truth

(* The picture in the CPB is new, those that arrived are to be output.     *)
Numbering ==
    /\ \A p \in waiting \cup Shown : p < au /\ pic[p].out /\ ~isRASL(pic[p].nut)
    /\ waiting \cap Shown = {}
    /\ cpb # "empty" => curr \notin waiting \cup Shown
    /\ \A p \in Picture : pic[p].cvs <= cvs
    /\ \A p \in Shown : outputNo[p] < outputCntr

(* Between the header that begins a sequence and the end of the flush the  *)
(* pictures that wait are of the previous sequence, otherwise of this one. *)
Between ==
    \/ pc \in {"pps", "output", "header"} /\ StartsCvs(nal.nut)
    \/ pc = "flush" /\ nal # EndOfStream

SequenceInv ==
    /\ cpb = "picture" => pic[curr].cvs = cvs
    /\ \A p, q \in waiting : pic[p].cvs = pic[q].cvs
    /\ Between => \A p \in waiting \cup Shown : pic[p].cvs < cvs
    /\ ~Between /\ pc # "aborted" => \A p \in waiting : pic[p].cvs = cvs
    /\ pc \in {"pps", "output", "header"} /\ StartsCvs(nal.nut) => soCVS
    /\ nal = EndOfStream => pc \in {"store", "flush", "done", "aborted"}

LimitsInv ==
    /\ limits.latencyPlus1 = 0 /\ nal.sps.latencyPlus1 = 0
    /\ pc \in Opening => nal \in {Aud, EndOfStream} \/ StartsCvs(nal.nut) \/ nal.sps = limits

(* A picture shown is backed by more than num_reorder arrived pictures.    *)
ShownBacked ==
    nal # EndOfStream =>
        \A q \in Arrived \cap Shown : Cardinality(AtLeast(pic[q].truth)) > limits.reorder

(* A picture to come is preceded by num_reorder arrived ones at most.      *)
ToBeShown ==
    /\ nal \notin {Aud, EndOfStream} /\ ~isRASL(nal.nut) /\ nal.outFlag # "no"
    /\ pc \in {"pps", "output"} \/ (pc \in {"store", "au"} /\ ~StartsCvs(nal.nut))
CurrToBeShown ==
    cpb = "picture" /\ pc # "output" /\ pic[curr].out /\ ~isRASL(pic[curr].nut)
ComingConforms ==
    /\ ToBeShown => Cardinality(Above(nal.truth)) <= limits.reorder
    /\ CurrToBeShown => Cardinality(Above(pic[curr].truth)) <= limits.reorder

(* No picture waits that should have been shown before one that was.       *)
WaitingAfterShown == \A p \in waiting, q \in Shown : ~Earlier(p, q)
ShownInOrder == \A p, q \in Shown : Earlier(p, q) => outputNo[p] < outputNo[q]

OutputInv ==
    /\ Numbering /\ SequenceInv /\ LimitsInv
    /\ ShownBacked /\ ComingConforms
    /\ WaitingAfterShown /\ ShownInOrder

LEMMA OutputInit ==
    ASSUME Init, \A s \in SpsChoices : s.latencyPlus1 = 0
    PROVE  OutputInv
<1>1. Shown = {} /\ waiting = {}
  BY DEF Init, Shown
<1>2. Numbering
  BY <1>1 DEF Init, Numbering, NoPicture, Picture
<1>3. SequenceInv
  BY <1>1 DEF Init, SequenceInv, Between, Aud, EndOfStream, NonVcl, AUD_NUT
<1>4. LimitsInv
  BY DEF Init, LimitsInv, NoLimits, Aud, NonVcl, Opening
<1>5. ShownBacked /\ WaitingAfterShown /\ ShownInOrder
  BY <1>1 DEF ShownBacked, WaitingAfterShown, ShownInOrder
<1>6. ComingConforms
  BY DEF Init, ComingConforms, ToBeShown, CurrToBeShown
<1> QED
  BY <1>2, <1>3, <1>4, <1>5, <1>6 DEF OutputInv

-------------------------------------------------------------------------------
(* Finite sets of pictures.                                                *)
LEMMA PictureFinite == IsFiniteSet(Picture)
BY FS_Interval, MaxAUAssumption DEF Picture

LEMMA Counting ==
    ASSUME NEW S \in SUBSET Picture, NEW T \in SUBSET S
    PROVE  /\ Cardinality(T) <= Cardinality(S)
           /\ Cardinality(S) \in Nat /\ Cardinality(T) \in Nat
<1>1. IsFiniteSet(S)
  BY PictureFinite, FS_Subset
<1>2. IsFiniteSet(T) /\ Cardinality(T) <= Cardinality(S)
  BY <1>1, FS_Subset
<1> QED
  BY <1>1, <1>2, FS_CardinalityType

LEMMA Empty == Cardinality({}) = 0
BY FS_EmptySet

LEMMA ArrivedType == Arrived \subseteq Picture /\ Shown \subseteq Picture
BY DEF Arrived, Shown

(* What the invariant says of the current sequence depends on the pictures *)
(* that wait or were shown alone.                                          *)
SameQueue ==
    /\ waiting' = waiting /\ outputNo' = outputNo /\ cvs' = cvs
    /\ \A p \in waiting \cup Shown : pic'[p].cvs = pic[p].cvs /\ pic'[p].truth = pic[p].truth

LEMMA ArrivedSame ==
    ASSUME TypeOK, SameQueue
    PROVE  /\ Shown' = Shown /\ Arrived' = Arrived
           /\ \A t : {p \in Arrived' : pic'[p].truth > t} = Above(t)
           /\ \A q \in Shown : AtLeast(pic[q].truth)' = AtLeast(pic[q].truth)
<1>1. Shown' = Shown
  BY DEF SameQueue, Shown
<1>2. Arrived' = Arrived
  <2>1. waiting \subseteq Picture
    BY DEF TypeOK, BufferTypeOK
  <2> QED
    BY <1>1, <2>1 DEF SameQueue, Arrived, Shown
<1>3. \A p \in Arrived : pic'[p].truth = pic[p].truth
  BY DEF SameQueue, Arrived
<1>4. \A t : {p \in Arrived' : pic'[p].truth > t} = Above(t)
  BY <1>2, <1>3 DEF Above
<1>5. \A q \in Shown : AtLeast(pic[q].truth)' = AtLeast(pic[q].truth)
  BY <1>2, <1>3 DEF SameQueue, AtLeast
<1> QED
  BY <1>1, <1>2, <1>4, <1>5

(* A step that leaves the queue alone and moves between labels that the    *)
(* invariant does not tell apart.                                          *)
LEMMA Frame ==
    ASSUME OutputInv, pc # "output",
           UNCHANGED <<pic, waiting, limits, outputNo, outputCntr, nal, cvs, au, cpb>>,
           pc' \notin {"pps", "output", "header"},
           pc' \in Opening => pc \in {"store", "au"},
           nal = EndOfStream => pc' \in {"store", "flush", "done", "aborted"},
           Between' => Between, pc = "aborted" => pc' = "aborted",
           waiting = {} \/ pc' = "aborted" \/ (Between <=> Between')
    PROVE  OutputInv'
<1>1. Shown' = Shown /\ Arrived' = Arrived /\ curr' = curr
  BY DEF Shown, Arrived, curr
<1>2. Numbering'
  BY <1>1 DEF OutputInv, Numbering
<1>3. SequenceInv'
  BY <1>1 DEF OutputInv, SequenceInv, Between
<1>4. LimitsInv'
  BY DEF OutputInv, LimitsInv, Opening
<1>5. ShownBacked'
  BY <1>1 DEF OutputInv, ShownBacked, AtLeast
<1>6. ComingConforms'
  <2>1. ToBeShown' => ToBeShown
    BY DEF ToBeShown, Opening
  <2>2. CurrToBeShown' => CurrToBeShown
    BY <1>1 DEF CurrToBeShown
  <2> QED
    BY <1>1, <2>1, <2>2 DEF OutputInv, ComingConforms, Above
<1>7. WaitingAfterShown' /\ ShownInOrder'
  BY <1>1 DEF OutputInv, WaitingAfterShown, ShownInOrder, Earlier
<1> QED
  BY <1>2, <1>3, <1>4, <1>5, <1>6, <1>7 DEF OutputInv

-------------------------------------------------------------------------------
(* One iteration of a bumping loop.                                        *)
LEMMA BumpKeeps ==
    ASSUME TypeOK, PocInv, OutputInv, Bump,
           UNCHANGED <<pic, nal, cvs, au, cpb>>, pc' = pc,
           pc \in {"store", "flush", "update"},
           pc # "flush" => Cardinality(waiting) > limits.reorder
    PROVE  OutputInv'
<1>1. PICK p \in waiting :
        /\ IsNextOutput(p)
        /\ waiting' = waiting \ {p}
        /\ outputNo' = [outputNo EXCEPT ![p] = outputCntr]
        /\ outputCntr' = outputCntr + 1
        /\ UNCHANGED <<latency, limits, prevTid0>>
  BY Zenon DEF Bump
<1>2. /\ waiting \subseteq Picture /\ p \in Picture /\ outputCntr \in Nat
      /\ \A q \in Shown : outputNo[q] \in Nat /\ outputNo[q] < outputCntr
      /\ \A q \in Picture : pic[q].cvs \in Nat /\ pic[q].truth \in Int /\ pic[q].poc \in Int
      /\ cvs \in Nat
  BY DEF TypeOK, BufferTypeOK, PictureType, OutputInv, Numbering, Shown, NotOutput
<1>3. Shown' = Shown \cup {p} /\ \A q \in Shown \ {p} : outputNo'[q] = outputNo[q]
  BY <1>1, <1>2 DEF TypeOK, BufferTypeOK, Shown, NotOutput
<1>4. outputNo'[p] = outputCntr
  BY <1>1, <1>2 DEF TypeOK, BufferTypeOK
<1>5. waiting' \cup Shown' = waiting \cup Shown /\ curr' = curr
  BY <1>1, <1>3 DEF curr
<1>6. Arrived' = Arrived
  BY <1>5 DEF Arrived
<1>7. \A r \in waiting : pic[p].truth <= pic[r].truth
  <2>1. \A r \in waiting : pic[r].poc = pic[r].truth
    BY <1>2 DEF PocInv, AllRestored, PocDerived
  <2> QED
    BY <1>1, <1>2, <2>1 DEF IsNextOutput
<1>8. \A r \in waiting : ~Earlier(r, p)
  BY <1>2, <1>7 DEF OutputInv, SequenceInv, Earlier
<1>9. Numbering'
  BY <1>1, <1>2, <1>3, <1>4, <1>5 DEF OutputInv, Numbering
<1>10. SequenceInv'
  BY <1>1, <1>5 DEF OutputInv, SequenceInv, Between
<1>11. LimitsInv'
  BY <1>1 DEF OutputInv, LimitsInv
<1>12. ShownBacked'
  <2> SUFFICES ASSUME nal # EndOfStream, NEW q \in Arrived \cap Shown'
               PROVE  Cardinality(AtLeast(pic[q].truth)) > limits.reorder
    BY <1>1, <1>6 DEF ShownBacked, AtLeast
  <2>1. CASE q \in Shown
    BY <2>1 DEF OutputInv, ShownBacked
  <2>2. CASE q = p
    <3>1. ~Between /\ pc # "flush"
      BY <1>2, <2>2 DEF OutputInv, SequenceInv, Arrived, InCvs, Between
    <3>2. \A r \in waiting : pic[r].cvs = cvs
      BY <1>2, <2>2, <3>1 DEF OutputInv, SequenceInv, Arrived
    <3>3. waiting \subseteq AtLeast(pic[q].truth)
      BY <1>2, <1>7, <2>2, <3>2 DEF AtLeast, Arrived
    <3>4. AtLeast(pic[q].truth) \subseteq Picture
      BY ArrivedType DEF AtLeast
    <3>5. Cardinality(waiting) <= Cardinality(AtLeast(pic[q].truth))
          /\ Cardinality(waiting) \in Nat /\ Cardinality(AtLeast(pic[q].truth)) \in Nat
      BY <3>3, <3>4, Counting
    <3>6. limits.reorder \in Nat
      BY DEF TypeOK, BufferTypeOK, Limits
    <3> QED
      BY <3>1, <3>5, <3>6
  <2> QED
    BY <1>3, <2>1, <2>2
<1>13. ComingConforms'
  BY <1>1, <1>5, <1>6 DEF OutputInv, ComingConforms, ToBeShown, CurrToBeShown, Above
<1>14. WaitingAfterShown'
  BY <1>1, <1>3, <1>8 DEF OutputInv, WaitingAfterShown, Earlier
<1>15. ShownInOrder'
  <2> SUFFICES ASSUME NEW q \in Shown', NEW r \in Shown', Earlier(q, r)
               PROVE  outputNo'[q] < outputNo'[r]
    BY DEF ShownInOrder, Earlier
  <2>1. p \notin Shown
    BY <1>1 DEF OutputInv, Numbering
  <2>2. CASE q \in Shown /\ r \in Shown
    BY <1>3, <2>1, <2>2 DEF OutputInv, ShownInOrder
  <2>3. CASE q = p /\ r \in Shown
    BY <1>1, <2>3 DEF OutputInv, WaitingAfterShown
  <2>4. CASE q \in Shown /\ r = p
    BY <1>2, <1>3, <1>4, <2>1, <2>4
  <2>5. ~(q = p /\ r = p)
    BY <1>2 DEF Earlier
  <2> QED
    BY <1>3, <2>2, <2>3, <2>4, <2>5
<1> QED
  BY <1>9, <1>10, <1>11, <1>12, <1>13, <1>14, <1>15 DEF OutputInv

-------------------------------------------------------------------------------
(* Closing an access unit: the picture of the CPB joins the queue.         *)
Backed == \A q \in Arrived \cap Shown : Cardinality(AtLeast(pic[q].truth)) > limits.reorder

Closing ==
    \/ /\ UNCHANGED <<waiting, limits, outputNo, outputCntr>>
       /\ cpb' \in {"empty", cpb} /\ cpb' # "picture"
    \/ /\ cpb = "picture" /\ ~isRASL(pic[curr].nut)
       /\ EmplaceBack(curr) /\ cpb' = "empty"

LEMMA CloseKeeps ==
    ASSUME TypeOK, AUInv, OutputInv, pc = "nal", Closing,
           pic' = pic, cvs' = cvs, au' = au
    PROVE  /\ Numbering' /\ Backed' /\ WaitingAfterShown' /\ ShownInOrder'
           /\ \A p \in waiting' : pic[p].cvs = cvs
           /\ limits' = limits /\ Shown' = Shown /\ outputNo' = outputNo /\ cpb' # "picture"
<1>1. /\ \A p \in waiting : pic[p].cvs = cvs
      /\ waiting \subseteq Picture
      /\ Backed
  BY DEF OutputInv, SequenceInv, Between, TypeOK, BufferTypeOK, ShownBacked, Backed
<1>2. CASE UNCHANGED <<waiting, limits, outputNo, outputCntr>> /\ cpb' \in {"empty", cpb} /\ cpb' # "picture"
  <2>1. Shown' = Shown /\ Arrived' = Arrived /\ curr' = curr
    BY <1>2 DEF Shown, Arrived, curr
  <2>2. Numbering'
    BY <1>2, <2>1 DEF OutputInv, Numbering
  <2>3. Backed'
    BY <1>1, <1>2, <2>1 DEF Backed, AtLeast
  <2>4. WaitingAfterShown' /\ ShownInOrder'
    BY <1>2, <2>1 DEF OutputInv, WaitingAfterShown, ShownInOrder, Earlier
  <2> QED
    BY <1>1, <1>2, <2>1, <2>2, <2>3, <2>4
<1>3. CASE cpb = "picture" /\ ~isRASL(pic[curr].nut) /\ EmplaceBack(curr) /\ cpb' = "empty"
  <2>1. /\ waiting' = (IF pic[curr].out THEN waiting \cup {curr} ELSE waiting)
        /\ UNCHANGED <<limits, outputNo, outputCntr>>
    BY <1>3, Zenon DEF EmplaceBack
  <2>2. Shown' = Shown /\ curr' = curr
    BY <2>1 DEF Shown, curr
  <2>3. curr \in Picture /\ curr < au
    BY <1>3, CurrType, MaxAUAssumption DEF curr, TypeOK
  <2>4. pic[curr].cvs = cvs
    BY <1>3 DEF OutputInv, SequenceInv
  <2>5. \A p \in waiting' : p \in waiting \/ (p = curr /\ pic[curr].out)
    BY <2>1
  <2>6. Numbering'
    BY <1>3, <2>1, <2>2, <2>3, <2>5 DEF OutputInv, Numbering
  <2>7. Arrived \subseteq Arrived' /\ Arrived' \subseteq Picture
    BY <2>1, <2>2 DEF Arrived
  <2>8. Backed'
    <3> SUFFICES ASSUME NEW q \in Arrived' \cap Shown
                 PROVE  Cardinality(AtLeast(pic[q].truth)') > limits.reorder
      BY <2>1, <2>2 DEF Backed, AtLeast
    <3>1. q \in Arrived
      BY DEF Arrived
    <3>2. Cardinality(AtLeast(pic[q].truth)) > limits.reorder
      BY <1>1, <3>1 DEF Backed
    <3>3. AtLeast(pic[q].truth) \subseteq AtLeast(pic[q].truth)' /\ AtLeast(pic[q].truth)' \subseteq Picture
      BY <2>7 DEF AtLeast
    <3>4. Cardinality(AtLeast(pic[q].truth)) <= Cardinality(AtLeast(pic[q].truth)')
          /\ Cardinality(AtLeast(pic[q].truth)) \in Nat
          /\ Cardinality(AtLeast(pic[q].truth)') \in Nat
      BY <3>3, Counting
    <3>5. limits.reorder \in Nat
      BY DEF TypeOK, BufferTypeOK, Limits
    <3> QED
      BY <3>2, <3>4, <3>5
  <2>9. WaitingAfterShown'
    <3> SUFFICES ASSUME NEW q \in Shown, pic[curr].out, Earlier(curr, q)
                 PROVE  FALSE
      BY <2>2, <2>5 DEF OutputInv, WaitingAfterShown, Earlier
    <3>1. q \in Picture /\ pic[q].cvs <= cvs /\ pic[q].cvs \in Nat /\ cvs \in Nat
          /\ pic[q].truth \in Int /\ pic[curr].truth \in Int
      BY <2>3 DEF Shown, OutputInv, Numbering, TypeOK, PictureType
    <3>2. pic[q].cvs = cvs /\ pic[curr].truth < pic[q].truth
      BY <2>4, <3>1 DEF Earlier
    <3>3. q \in Arrived
      BY <3>1, <3>2 DEF Arrived
    <3>4. Cardinality(AtLeast(pic[q].truth)) > limits.reorder
      BY <1>1, <3>3 DEF Backed
    <3>5. Cardinality(Above(pic[curr].truth)) <= limits.reorder
      BY <1>3 DEF OutputInv, ComingConforms, CurrToBeShown
    <3>6. AtLeast(pic[q].truth) \subseteq Above(pic[curr].truth)
      <4>1. \A p \in Arrived : pic[p].truth \in Int
        BY DEF Arrived, TypeOK, PictureType
      <4> QED
        BY <3>1, <3>2, <4>1 DEF AtLeast, Above
    <3>7. Above(pic[curr].truth) \subseteq Picture
      BY DEF Above, Arrived
    <3>8. Cardinality(AtLeast(pic[q].truth)) <= Cardinality(Above(pic[curr].truth))
          /\ Cardinality(AtLeast(pic[q].truth)) \in Nat
          /\ Cardinality(Above(pic[curr].truth)) \in Nat
      BY <3>6, <3>7, Counting
    <3>9. limits.reorder \in Nat
      BY DEF TypeOK, BufferTypeOK, Limits
    <3> QED
      BY <3>4, <3>5, <3>8, <3>9
  <2>10. ShownInOrder'
    BY <2>1, <2>2 DEF OutputInv, ShownInOrder, Earlier
  <2> QED
    BY <1>1, <1>3, <2>1, <2>2, <2>4, <2>5, <2>6, <2>8, <2>9, <2>10
<1> QED
  BY <1>2, <1>3 DEF Closing

(* What the next header promises.                                          *)
Promised ==
    /\ nal'.nut \in Nuts /\ nal'.sps.latencyPlus1 = 0
    /\ StartsCvs(nal'.nut) \/ nal'.sps = limits
    /\ ~StartsCvs(nal'.nut) /\ ~isRASL(nal'.nut) /\ nal'.outFlag # "no"
         => cvs > 0 /\ WithinReorder(nal'.truth)

LEMMA StartsIffIRAP ==
    ASSUME NEW nut \in Nuts
    PROVE  StartsCvs(nut) <=> isIRAP(nut)
<1>1. nut \in 0 .. 31 /\ ~(nut \in 22 .. 31)
  BY BitstreamAssumption DEF isRSV, RSV_VCL31
<1> QED
  BY <1>1 DEF StartsCvs, isIDR, isBLA, isCRA, isIRAP, BLA_W_LP, BLA_N_LP, IDR_W_RADL,
              IDR_N_LP, CRA_NUT, RSV_IRAP_VCL23

LEMMA SendConforms ==
    ASSUME TypeOK, AUInv, SendPicture, limits.latencyPlus1 = 0,
           \A s \in SpsChoices : s.latencyPlus1 = 0
    PROVE  Promised
<1>1. nal'.nut \in Nuts
  BY SendPictureType DEF Sent
<1>2. CASE SendIrap
  <2>1. PICK nut \in {t \in Nuts : isIRAP(t)}, sps \in SpsChoices, f \in OutFlags :
          \E truth \in IrapTruths(nut), noPrior \in NoPriorFlags(nut), foll \in IrapSets(nut) :
              SendIrapAs(nut, sps, f, truth, noPrior, foll)
    BY <1>2, Zenon DEF SendIrap
  <2>2. nal'.nut = nut /\ nal'.sps = sps
    BY <2>1 DEF SendIrapAs
  <2>4. StartsCvs(nut)
    BY StartsIffIRAP
  <2> QED
    BY <1>1, <2>2, <2>4 DEF Promised
<1>3. CASE SendRasl
  <2>1. PICK nut \in {t \in Nuts : isRASL(t)}, tid \in Tids, f \in OutFlags, d \in PocReach :
          SendRaslAs(nut, tid, f, encTid0 + d)
    BY <1>3, Zenon DEF SendRasl
  <2>2. nal'.nut = nut /\ nal'.sps = limits /\ isRASL(nut)
    BY <2>1 DEF SendRaslAs
  <2> QED
    BY <1>1, <2>2 DEF Promised
<1>4. CASE SendInter
  <2>1. PICK nut \in {t \in Nuts : ~isIRAP(t) /\ ~isRASL(t)}, tid \in Tids, f \in OutFlags,
             d \in PocReach, kept \in SUBSET refs :
        \E long \in LongSets(kept) :
        \E byLsb \in SUBSET {q \in long : LsbNames(q)} :
            SendInterAs(nut, tid, f, encTid0 + d, kept, long, byLsb)
    BY <1>4, Zenon DEF SendInter
  <2>2. PICK long, byLsb : SendInterAs(nut, tid, f, encTid0 + d, kept, long, byLsb)
    BY <2>1, Zenon
  <2>3. nal'.sps = limits /\ nal'.outFlag = f /\ nal'.truth = encTid0 + d
    BY <2>2 DEF SendInterAs
  <2>4. cvs > 0 /\ (f # "no" => WithinReorder(encTid0 + d))
    BY <2>2, Zenon DEF SendInterAs, MayFollow
  <2>5. nal'.outFlag # "no" => cvs > 0 /\ WithinReorder(nal'.truth)
    BY <2>3, <2>4
  <2> QED
    BY <1>1, <2>3, <2>5 DEF Promised
<1> QED
  BY <1>2, <1>3, <1>4 DEF SendPicture

LEMMA CloseAUCloses ==
    ASSUME TypeOK, NEW tid, CloseAU(tid)
    PROVE  Closing /\ pc' \in {"store", "au"}
BY Zenon DEF CloseAU, Closing, dpbVars, TypeOK

LEMMA OutputSend ==
    ASSUME TypeOK, AUInv, OutputInv, FirstSliceSegment,
           \A s \in SpsChoices : s.latencyPlus1 = 0
    PROVE  OutputInv'
<1>1. /\ pc = "nal" /\ SendPicture /\ CloseAU(nal'.tid)
      /\ pic' = pic /\ cvs' = cvs /\ au' = au
  BY DEF FirstSliceSegment
<1>2. limits.latencyPlus1 = 0
  BY DEF OutputInv, LimitsInv
<1>3. Promised
  BY <1>1, <1>2, SendConforms
<1>4. Closing /\ pc' \in {"store", "au"}
  BY <1>1, CloseAUCloses
<1>5. /\ Numbering' /\ Backed' /\ WaitingAfterShown' /\ ShownInOrder'
      /\ \A p \in waiting' : pic[p].cvs = cvs
      /\ limits' = limits /\ cpb' # "picture"
  BY <1>1, <1>4, CloseKeeps
<1>6. nal' # Aud /\ nal' # EndOfStream
  BY <1>3, BitstreamAssumption DEF Promised, Aud, EndOfStream, NonVcl, AUD_NUT, RSV_VCL31
<1>7. SequenceInv'
  BY <1>1, <1>4, <1>5, <1>6 DEF SequenceInv, Between
<1>8. LimitsInv'
  BY <1>2, <1>3, <1>5 DEF LimitsInv, Promised
<1>9. ShownBacked'
  BY <1>5 DEF ShownBacked, Backed
<1>10. ComingConforms'
  <2> SUFFICES ASSUME ToBeShown'
               PROVE  Cardinality(Above(nal.truth)') <= limits.reorder
    BY <1>5 DEF ComingConforms, CurrToBeShown
  <2>1. cvs > 0 /\ WithinReorder(nal'.truth)
    BY <1>3, <1>4 DEF ToBeShown, Promised
  <2>2. Above(nal.truth)' \subseteq {q \in InOrder : pic[q].truth > nal'.truth}
    BY <1>1, <1>5, <2>1 DEF Above, Arrived, InOrder, InCvs, Created, Numbering
  <2>3. {q \in InOrder : pic[q].truth > nal'.truth} \subseteq Picture
    BY DEF InOrder, InCvs, Created
  <2>4. Cardinality(Above(nal.truth)') <= Cardinality({q \in InOrder : pic[q].truth > nal'.truth})
        /\ Cardinality({q \in InOrder : pic[q].truth > nal'.truth}) \in Nat
        /\ Cardinality(Above(nal.truth)') \in Nat
    BY <2>2, <2>3, Counting
  <2>5. Cardinality({q \in InOrder : pic[q].truth > nal'.truth}) <= limits.reorder
    BY <2>1 DEF WithinReorder
  <2>6. limits.reorder \in Nat
    BY DEF TypeOK, BufferTypeOK, Limits
  <2> QED
    BY <2>4, <2>5, <2>6
<1> QED
  BY <1>5, <1>7, <1>8, <1>9, <1>10 DEF OutputInv

(* A delimiter or the end of the bitstream closes the access unit as well. *)
LEMMA OutputClose ==
    ASSUME TypeOK, AUInv, OutputInv, AccessUnitDelimiter \/ EndOfBitstream
    PROVE  OutputInv'
<1>1. /\ pc = "nal" /\ Closing /\ pic' = pic /\ cvs' = cvs /\ au' = au
      /\ \/ nal' = Aud /\ pc' \in {"store", "au"}
         \/ nal' = EndOfStream /\ pc' \in {"store", "flush"}
  <2>1. CASE AccessUnitDelimiter
    BY <2>1, CloseAUCloses DEF AccessUnitDelimiter
  <2>2. CASE EndOfBitstream
    BY <2>2, Zenon DEF EndOfBitstream, Closing, TypeOK
  <2> QED
    BY <2>1, <2>2
<1>2. /\ Numbering' /\ Backed' /\ WaitingAfterShown' /\ ShownInOrder'
      /\ \A p \in waiting' : pic[p].cvs = cvs
      /\ limits' = limits /\ cpb' # "picture"
  BY <1>1, CloseKeeps
<1>3. Aud # EndOfStream /\ Aud.sps = NoLimits /\ EndOfStream.sps = NoLimits
  BY DEF Aud, EndOfStream, NonVcl, AUD_NUT
<1>4. SequenceInv'
  BY <1>1, <1>2, <1>3 DEF SequenceInv, Between
<1>5. LimitsInv'
  BY <1>1, <1>2, <1>3 DEF OutputInv, LimitsInv, NoLimits
<1>6. ShownBacked'
  BY <1>2 DEF ShownBacked, Backed
<1>7. ComingConforms'
  BY <1>1, <1>2 DEF ComingConforms, ToBeShown, CurrToBeShown
<1> QED
  BY <1>2, <1>4, <1>5, <1>6, <1>7 DEF OutputInv

-------------------------------------------------------------------------------
(* Opening an access unit; its first picture header.                       *)
LEMMA ArrivedNone ==
    ASSUME \A p \in waiting \cup Shown : pic[p].cvs < cvs, cvs \in Nat
    PROVE  Arrived = {}
BY DEF Arrived

LEMMA OutputOpen ==
    ASSUME TypeOK, AUInv, OutputInv, OpenAU
    PROVE  OutputInv'
<1>1. /\ pc = "au" /\ cpb \in {"empty", "opened"} /\ cpb' = "opened" /\ nal # EndOfStream
      /\ pc' = (IF nal = Aud THEN "nal" ELSE "pps")
      /\ cvs' = (IF StartsCvs(nal.nut) THEN cvs + 1 ELSE cvs)
      /\ au' = (IF cpb = "empty" THEN au + 1 ELSE au)
      /\ UNCHANGED <<pic, waiting, limits, outputNo, outputCntr, nal>>
      /\ StartsCvs(nal.nut) => soCVS'
  BY DEF OpenAU, AUInv, TypeOK, dpbVars
<1>2. Shown' = Shown /\ waiting \cup Shown \subseteq Picture
  BY <1>1 DEF Shown, TypeOK, BufferTypeOK
<1>3. au \in Nat /\ cvs \in Nat /\ \A p \in Picture : p \in Nat /\ pic[p].cvs \in Nat
  BY MaxAUAssumption DEF TypeOK, PictureType, Picture
<1>4. Numbering'
  BY <1>1, <1>2, <1>3 DEF OutputInv, Numbering, curr
<1>5. ~StartsCvs(Aud.nut)
  BY DEF Aud, NonVcl, AUD_NUT, StartsCvs, isIDR, isBLA, isCRA, BLA_W_LP, BLA_N_LP,
         IDR_W_RADL, IDR_N_LP, CRA_NUT
<1>6. \A p \in waiting : pic[p].cvs = cvs
  BY <1>1 DEF OutputInv, SequenceInv, Between
<1>7. StartsCvs(nal.nut) => \A p \in waiting \cup Shown : pic[p].cvs < cvs'
  BY <1>1, <1>2, <1>3 DEF OutputInv, Numbering
<1>8. SequenceInv'
  BY <1>1, <1>2, <1>5, <1>6, <1>7 DEF SequenceInv, Between
<1>9. LimitsInv'
  BY <1>1 DEF OutputInv, LimitsInv, Opening
<1>10. CASE StartsCvs(nal.nut)
  <2>1. Arrived' = {}
    BY <1>1, <1>2, <1>3, <1>7, <1>10 DEF Arrived
  <2>2. ShownBacked'
    BY <2>1 DEF ShownBacked
  <2>3. Above(nal.truth)' = {}
    BY <2>1 DEF Above
  <2>4. ComingConforms'
    BY <1>1, <2>3, Empty DEF ComingConforms, CurrToBeShown, TypeOK, BufferTypeOK, Limits
  <2> QED
    BY <1>1, <1>2, <1>4, <1>8, <1>9, <2>2, <2>4
       DEF OutputInv, WaitingAfterShown, ShownInOrder, Earlier
<1>11. CASE ~StartsCvs(nal.nut)
  <2>1. Arrived' = Arrived
    BY <1>1, <1>2, <1>11 DEF Arrived
  <2>2. ShownBacked'
    BY <1>1, <1>2, <2>1 DEF OutputInv, ShownBacked, AtLeast
  <2>3. ToBeShown' => ToBeShown
    BY <1>1, <1>11 DEF ToBeShown
  <2>4. ComingConforms'
    BY <1>1, <2>1, <2>3 DEF OutputInv, ComingConforms, CurrToBeShown, Above
  <2> QED
    BY <1>1, <1>2, <1>4, <1>8, <1>9, <2>2, <2>4
       DEF OutputInv, WaitingAfterShown, ShownInOrder, Earlier
<1> QED
  BY <1>10, <1>11

(* The three steps of a picture header find a NAL unit with a picture.     *)
LEMMA HeaderNal ==
    ASSUME TypeOK, PocInv, pc \in {"pps", "output", "header"}
    PROVE  /\ nal # Aud /\ nal # EndOfStream
           /\ nal.nut \in Nuts /\ (StartsCvs(nal.nut) <=> isIRAP(nal.nut))
<1>1. nal.nut \in Nuts
  BY DEF PocInv, HeaderAgrees
<1>2. nal.nut \in 0 .. 31
  BY <1>1, BitstreamAssumption DEF RSV_VCL31
<1>3. Aud.nut = 35 /\ EndOfStream.nut = 63
  BY DEF Aud, EndOfStream, NonVcl, AUD_NUT
<1> QED
  BY <1>1, <1>2, <1>3, StartsIffIRAP

LEMMA OutputCreate ==
    ASSUME TypeOK, AUInv, PocInv, OutputInv, SlicePicParameterSetId
    PROVE  OutputInv'
<1>1. /\ pc = "pps" /\ cpb = "opened" /\ cpb' = "picture" /\ pc' = "output"
      /\ pic' = [pic EXCEPT ![curr] = NewPicture]
      /\ limits' = (IF soCVS THEN nal.sps ELSE limits)
      /\ UNCHANGED <<waiting, outputNo, outputCntr, nal, cvs, au>> /\ soCVS' = soCVS
  BY Zenon DEF SlicePicParameterSetId, Setup, AUInv
<1>2. curr \in Picture /\ curr' = curr /\ curr \notin waiting \cup Shown
  BY <1>1, CurrType DEF OutputInv, Numbering, curr
<1>3. /\ \A p \in Picture : p # curr => pic'[p] = pic[p]
      /\ pic'[curr] = NewPicture
  BY <1>1, <1>2 DEF TypeOK
<1>4. NewPicture.cvs = cvs /\ cvs \in Nat
  BY DEF NewPicture, TypeOK
<1>5. waiting \cup Shown \subseteq Picture
  BY DEF TypeOK, BufferTypeOK, Shown
<1>6. SameQueue
  BY <1>1, <1>2, <1>3, <1>5 DEF SameQueue
<1>7. /\ Shown' = Shown /\ Arrived' = Arrived
      /\ \A t : {p \in Arrived' : pic'[p].truth > t} = Above(t)
      /\ \A q \in Shown : AtLeast(pic[q].truth)' = AtLeast(pic[q].truth)
  BY <1>6, ArrivedSame
<1>8. nal # Aud /\ nal # EndOfStream
  BY <1>1, HeaderNal
<1>9. Arrived = {} \/ limits' = limits
  <2>1. CASE StartsCvs(nal.nut)
    BY <1>1, <2>1, ArrivedNone, <1>4 DEF OutputInv, SequenceInv, Between
  <2>2. CASE ~StartsCvs(nal.nut)
    BY <1>1, <1>8, <2>2 DEF OutputInv, LimitsInv, Opening
  <2> QED
    BY <2>1, <2>2
<1>10. Numbering'
  BY <1>1, <1>2, <1>3, <1>4, <1>5, <1>7 DEF OutputInv, Numbering
<1>11. SequenceInv'
  BY <1>1, <1>2, <1>3, <1>4, <1>5, <1>7, <1>8 DEF OutputInv, SequenceInv, Between
<1>12. LimitsInv'
  BY <1>1 DEF OutputInv, LimitsInv, Opening
<1>13. ShownBacked'
  BY <1>1, <1>7, <1>8, <1>9 DEF OutputInv, ShownBacked
<1>14. ComingConforms'
  <2> SUFFICES ASSUME ToBeShown'
               PROVE  Cardinality(Above(nal.truth)') <= limits'.reorder
    BY <1>1 DEF ComingConforms, CurrToBeShown
  <2>1. ToBeShown
    BY <1>1 DEF ToBeShown
  <2>2. Above(nal.truth)' = Above(nal.truth)
    BY <1>1, <1>7 DEF Above
  <2>3. CASE limits' = limits
    BY <2>1, <2>2, <2>3 DEF OutputInv, ComingConforms
  <2>4. CASE Arrived = {}
    <3>1. Above(nal.truth) = {}
      BY <2>4 DEF Above
    <3>2. limits'.reorder \in Nat
      BY <1>1 DEF TypeOK, BufferTypeOK, Limits, Coded
    <3> QED
      BY <2>2, <3>1, <3>2, Empty
  <2> QED
    BY <1>9, <2>3, <2>4
<1>15. WaitingAfterShown' /\ ShownInOrder'
  BY <1>1, <1>2, <1>3, <1>5, <1>7 DEF OutputInv, WaitingAfterShown, ShownInOrder, Earlier
<1> QED
  BY <1>10, <1>11, <1>12, <1>13, <1>14, <1>15 DEF OutputInv

(* Rewriting fields of pictures that neither wait nor were shown.          *)
LEMMA OutputFlag ==
    ASSUME TypeOK, AUInv, PocInv, OutputInv, PicOutputFlag
    PROVE  OutputInv'
<1>1. /\ pc = "output" /\ cpb = "picture"
      /\ UNCHANGED <<waiting, limits, outputNo, outputCntr, nal, cvs, au, cpb, soCVS>>
      /\ \/ pc' \in {"header", "aborted"} /\ pic' = pic /\ (pc' = "header" => nal.outFlag # "no")
         \/ pc' = "header" /\ \E b \in BOOLEAN :
              /\ pic' = [pic EXCEPT ![curr].out = b]
              /\ ~isRASL(nal.nut) => (b <=> nal.outFlag = "yes")
      /\ pc' = "aborted" => isRASL(nal.nut)
  BY Zenon DEF PicOutputFlag, dpbVars, AUInv
<1>2. curr \in Picture /\ curr' = curr /\ curr \notin waiting \cup Shown
  BY <1>1, CurrType DEF OutputInv, Numbering, curr
<1>3. /\ \A p \in Picture : p # curr => pic'[p] = pic[p]
      /\ pic'[curr].cvs = pic[curr].cvs /\ pic'[curr].truth = pic[curr].truth
      /\ pic'[curr].nut = pic[curr].nut
  BY <1>1, <1>2 DEF TypeOK, PictureType
<1>4. pc' = "header" /\ pic'[curr].out /\ ~isRASL(nal.nut) => nal.outFlag # "no"
  BY <1>1, <1>2 DEF TypeOK, PictureType
<1>5. waiting \cup Shown \subseteq Picture
  BY DEF TypeOK, BufferTypeOK, Shown
<1>6. SameQueue
  BY <1>1, <1>2, <1>3, <1>5 DEF SameQueue
<1>7. /\ Shown' = Shown /\ Arrived' = Arrived
      /\ \A t : {p \in Arrived' : pic'[p].truth > t} = Above(t)
      /\ \A q \in Shown : AtLeast(pic[q].truth)' = AtLeast(pic[q].truth)
  BY <1>6, ArrivedSame
<1>8. nal # Aud /\ nal # EndOfStream
  BY <1>1, HeaderNal
<1>9. Numbering'
  BY <1>1, <1>2, <1>3, <1>5, <1>7 DEF OutputInv, Numbering
<1>10. SequenceInv'
  BY <1>1, <1>2, <1>3, <1>5, <1>7, <1>8 DEF OutputInv, SequenceInv, Between
<1>11. LimitsInv'
  BY <1>1 DEF OutputInv, LimitsInv, Opening
<1>12. ShownBacked'
  BY <1>1, <1>7 DEF OutputInv, ShownBacked
<1>13. ComingConforms'
  <2>1. pic[curr].truth = nal.truth /\ pic[curr].nut = nal.nut
    BY <1>1 DEF PocInv, HeaderAgrees
  <2>2. ~ToBeShown'
    BY <1>1 DEF ToBeShown
  <2>3. CurrToBeShown' => ToBeShown
    BY <1>1, <1>2, <1>3, <1>4, <1>8, <2>1 DEF CurrToBeShown, ToBeShown
  <2>4. Above(pic[curr].truth)' = Above(nal.truth)
    BY <1>2, <1>3, <1>7, <2>1 DEF Above
  <2> QED
    BY <1>1, <2>2, <2>3, <2>4 DEF OutputInv, ComingConforms
<1>14. WaitingAfterShown' /\ ShownInOrder'
  BY <1>1, <1>2, <1>3, <1>5, <1>7 DEF OutputInv, WaitingAfterShown, ShownInOrder, Earlier
<1> QED
  BY <1>9, <1>10, <1>11, <1>12, <1>13, <1>14 DEF OutputInv

LEMMA OutputHeader ==
    ASSUME TypeOK, AUInv, PocInv, OutputInv, SliceSegmentHeader
    PROVE  OutputInv'
<1>1. /\ pc = "header"
      /\ UNCHANGED <<limits, outputNo, outputCntr, nal, cvs, au, cpb, soCVS>>
      /\ pic' = [p \in Picture |-> IF p = curr THEN [pic[p] EXCEPT !.poc = currPoc]
                                   ELSE [pic[p] EXCEPT !.ref = Marking[p]]]
      /\ \/ pc' = "aborted" /\ waiting' = waiting
         \/ pc' = "update" /\ waiting' = {} /\ StartOfSequence /\ soCVS
         \/ /\ pc' = (IF StartOfSequence /\ soCVS THEN "flush" ELSE "update")
            /\ waiting' = waiting
  BY Zenon DEF SliceSegmentHeader, Clear, encVars
<1>2. nal # Aud /\ nal # EndOfStream /\ (StartsCvs(nal.nut) <=> isIRAP(nal.nut))
  BY <1>1, HeaderNal
<1>3. StartsCvs(nal.nut) <=> StartOfSequence /\ soCVS
  BY <1>1, <1>2 DEF OutputInv, SequenceInv, Between, PocInv, HeaderAgrees, StartOfSequence
<1>4. \A p \in Picture : /\ pic'[p].cvs = pic[p].cvs /\ pic'[p].truth = pic[p].truth
                         /\ pic'[p].out = pic[p].out /\ pic'[p].nut = pic[p].nut
  BY <1>1 DEF TypeOK, PictureType
<1>5. /\ waiting' \subseteq waiting /\ Shown' = Shown /\ curr' = curr
      /\ waiting \cup Shown \subseteq Picture
  BY <1>1 DEF TypeOK, BufferTypeOK, Shown, curr
<1>6. cpb = "picture" /\ curr \in Picture
  BY <1>1, CurrType DEF AUInv
<1>7. Arrived' \subseteq Arrived
  BY <1>1, <1>4, <1>5 DEF Arrived
<1>8. StartsCvs(nal.nut) => Arrived = {}
  BY <1>1, ArrivedNone DEF OutputInv, SequenceInv, Between, TypeOK
<1>9. ~StartsCvs(nal.nut) => Arrived' = Arrived
  BY <1>1, <1>3, <1>4, <1>5 DEF Arrived
<1>10. Arrived' = Arrived
  BY <1>7, <1>8, <1>9
<1>11. Numbering'
  BY <1>1, <1>4, <1>5 DEF OutputInv, Numbering
<1>12. SequenceInv'
  <2>1. Between' => StartsCvs(nal.nut)
    BY <1>1, <1>3 DEF Between
  <2>2. ~Between' /\ pc' # "aborted" => ~StartsCvs(nal.nut) \/ waiting' = {}
    BY <1>1, <1>2, <1>3 DEF Between
  <2>3. pic[curr].cvs = cvs /\ \A p, q \in waiting : pic[p].cvs = pic[q].cvs
    BY <1>6 DEF OutputInv, SequenceInv
  <2>4. StartsCvs(nal.nut) => \A p \in waiting \cup Shown : pic[p].cvs < cvs
    BY <1>1 DEF OutputInv, SequenceInv, Between
  <2>5. ~StartsCvs(nal.nut) => \A p \in waiting : pic[p].cvs = cvs
    BY <1>1 DEF OutputInv, SequenceInv, Between
  <2>6. /\ Between' => \A p \in waiting' \cup Shown' : pic'[p].cvs < cvs
        /\ ~Between' /\ pc' # "aborted" => \A p \in waiting' : pic'[p].cvs = cvs
        /\ \A p, q \in waiting' : pic'[p].cvs = pic'[q].cvs
    BY <1>4, <1>5, <2>1, <2>2, <2>3, <2>4, <2>5
  <2>7. pic'[curr].cvs = cvs /\ pc' \notin {"pps", "output", "header"}
    BY <1>1, <1>4, <1>6, <2>3
  <2> QED
    BY <1>1, <1>2, <1>5, <2>6, <2>7 DEF SequenceInv
<1>13. LimitsInv'
  BY <1>1 DEF OutputInv, LimitsInv, Opening
<1>14. ShownBacked'
  <2>1. \A q \in Arrived \cap Shown : AtLeast(pic[q].truth)' = AtLeast(pic[q].truth)
    BY <1>4, <1>10, ArrivedType DEF AtLeast
  <2> QED
    BY <1>1, <1>5, <1>10, <2>1 DEF OutputInv, ShownBacked
<1>15. ComingConforms'
  <2>1. ~ToBeShown' /\ (CurrToBeShown' => CurrToBeShown)
    BY <1>1, <1>4, <1>5, <1>6 DEF ToBeShown, CurrToBeShown
  <2>2. Above(pic[curr].truth)' = Above(pic[curr].truth)
    BY <1>4, <1>5, <1>6, <1>10, ArrivedType DEF Above
  <2> QED
    BY <1>1, <2>1, <2>2 DEF OutputInv, ComingConforms
<1>16. WaitingAfterShown' /\ ShownInOrder'
  BY <1>1, <1>4, <1>5 DEF OutputInv, WaitingAfterShown, ShownInOrder, Earlier
<1> QED
  BY <1>11, <1>12, <1>13, <1>14, <1>15, <1>16 DEF OutputInv

-------------------------------------------------------------------------------
(* The bumping loops and what is left.                                     *)
LEMMA OverflowsReorder ==
    ASSUME OutputInv, Overflow
    PROVE  Cardinality(waiting) > limits.reorder
BY DEF OutputInv, LimitsInv, Overflow, reorderOverflow, latencyOverflow

LEMMA OutputBump ==
    ASSUME TypeOK, PocInv, OutputInv, StoreBump \/ FlushBump \/ UpdateBump
    PROVE  OutputInv'
<1>1. CASE StoreBump
  BY <1>1, BumpKeeps, OverflowsReorder DEF StoreBump
<1>2. CASE FlushBump \/ UpdateBump
  <2>1. /\ pc \in {"flush", "update"} /\ UNCHANGED <<pic, nal, cvs, au, cpb>>
        /\ \/ Bump /\ pc' = pc /\ (pc # "flush" => Overflow)
           \/ pc' = "aborted" /\ UNCHANGED dpbVars
           \/ pc = "update" /\ pc' = "ctus" /\ UNCHANGED dpbVars
    BY <1>2, Zenon DEF FlushBump, UpdateBump, GuardedBump
  <2>2. CASE Bump /\ pc' = pc /\ (pc # "flush" => Overflow)
    BY <2>1, <2>2, BumpKeeps, OverflowsReorder
  <2>3. CASE pc' \in {"aborted", "ctus"} /\ UNCHANGED dpbVars /\ (pc' = "ctus" => pc = "update")
    BY <2>1, <2>3, Frame DEF dpbVars, Between, Opening, OutputInv, SequenceInv
  <2> QED
    BY <2>1, <2>2, <2>3
<1> QED
  BY <1>1, <1>2

LEMMA OutputOther ==
    ASSUME TypeOK, AUInv, OutputInv,
           \/ EndOfSequence \/ StoreDone \/ Flushed \/ FinishPicture \/ LoseSlices
           \/ LastFlush \/ Finish
    PROVE  OutputInv'
<1> USE DEF Between, Opening, OutputInv, SequenceInv, dpbVars
<1>1. CASE EndOfSequence
  BY <1>1, Frame DEF EndOfSequence
<1>2. CASE StoreDone
  BY <1>2, Frame DEF StoreDone
<1>3. CASE Flushed
  BY <1>3, Frame DEF Flushed
<1>4. CASE FinishPicture
  BY <1>4, Frame DEF FinishPicture
<1>5. CASE LoseSlices
  BY <1>5, Frame DEF LoseSlices
<1>6. CASE LastFlush
  BY <1>6, Frame DEF LastFlush
<1>7. CASE Finish
  BY <1>7, Frame DEF Finish, Clear
<1> QED
  BY <1>1, <1>2, <1>3, <1>4, <1>5, <1>6, <1>7

LEMMA OutputStutters ==
    ASSUME OutputInv, UNCHANGED vars
    PROVE  OutputInv'
BY DEF vars, OutputInv, Numbering, SequenceInv, LimitsInv, ShownBacked, ComingConforms,
       WaitingAfterShown, ShownInOrder, Shown, Arrived, Above, AtLeast, Earlier, Between,
       ToBeShown, CurrToBeShown, Opening, curr

LEMMA OutputStep ==
    ASSUME \A s \in SpsChoices : s.latencyPlus1 = 0,
           TypeOK, AUInv, PocInv, OutputInv, [Next]_vars
    PROVE  OutputInv'
<1>1. CASE UNCHANGED vars \/ Terminated
  BY <1>1, OutputStutters DEF Terminated
<1> QED
  BY <1>1, OutputSend, OutputClose, OutputOpen, OutputCreate, OutputFlag, OutputHeader,
     OutputBump, OutputOther, Zenon DEF Next

(* Of two pictures that were output, the one of the earlier sequence, or of*)
(* the smaller POC in one sequence, was output first: for every reordering *)
(* depth, buffer capacity, POC range and number of access units, provided  *)
(* that no parameter set bounds the latency.                               *)
THEOREM OutputCorrect ==
    ASSUME \A s \in SpsChoices : s.latencyPlus1 = 0
    PROVE  Spec => []OutputOrder
<1>1. Init => OutputInv
  BY OutputInit
<1>2. Init => PocInv
  BY PocInit
<1>3. TypeOK /\ AUInv /\ PocInv /\ OutputInv /\ [Next]_vars => OutputInv'
  BY OutputStep
<1>4. TypeOK /\ AUInv /\ PocInv /\ [Next]_vars => PocInv'
  BY PocStep
<1>5. OutputInv => OutputOrder
  BY DEF OutputInv, ShownInOrder, Shown, Earlier, OutputOrder, Created
<1> QED
  BY <1>1, <1>2, <1>3, <1>4, <1>5, TypeCorrect, PTL DEF Spec

---------------------------------------------------------------------------
\* Every picture has a number of its own and, in its sequence, a POC of its
\* own; so the decoder implements PictureOutput.  A picture enters the queue
\* when its access unit ends, after all that was shown by OutputInv; of those
\* that wait one has the smallest POC; and the header that drops pictures is
\* the first of a sequence, when only pictures of the sequence before wait.

(* A header was received and its picture is not processed yet, is not      *)
(* created yet; it is processed and its slice data is not decoded yet.     *)
Received == pc \in {"store", "au", "pps", "output", "header"} /\ nal \notin {Aud, EndOfStream}
ToCreate == Received /\ pc \in Opening /\ (pc = "pps" \/ ~StartsCvs(nal.nut))
Processed == pc \in {"update", "ctus"} \/ (pc = "flush" /\ nal # EndOfStream)

Numbered ==
    /\ dpb \subseteq Created
    /\ \A p \in Picture : pic[p].cvs <= cvs
    /\ \A p \in Created : p < au
    /\ cpb = "opened" => pic[curr].cvs = 0
    /\ cpb = "picture" => curr \notin dpb /\ pic[curr].cvs = cvs /\ pic[curr].ref = "ShortTerm"
    /\ ToCreate \/ cpb = "picture" => cvs > 0
    /\ Processed => cpb = "picture"

Distinct ==
    /\ \A p, q \in Created : pic[p].cvs = pic[q].cvs /\ pic[p].truth = pic[q].truth => p = q
    /\ ToCreate => \A q \in InCvs : pic[q].truth # nal.truth

NumberInv == Numbered /\ Distinct

LEMMA NumberInit == Init => NumberInv
<1> SUFFICES ASSUME Init PROVE NumberInv
  OBVIOUS
<1>1. dpb = {} /\ cpb = "empty" /\ pc = "nal" /\ nal = Aud /\ cvs = 0 /\ Created = {}
  BY DEF Init, Created, NoPicture, Picture
<1> QED
  BY <1>1 DEF Init, NumberInv, Numbered, Processed, Distinct, ToCreate, Received, NoPicture

LEMMA NoNextSequence == ~StartsCvs(Aud.nut) /\ ~isRASL(Aud.nut) /\ Aud # EndOfStream
BY DEF Aud, EndOfStream, NonVcl, AUD_NUT, StartsCvs, isIDR, isBLA, isCRA, IDR_W_RADL, IDR_N_LP,
       BLA_W_LP, BLA_N_LP, CRA_NUT, isRASL, RASL_N, RASL_R

-------------------------------------------------------------------------------
(* Closing an access unit: its picture joins the buffer, unless it is a    *)
(* RASL picture, and those that wait, unless it is not to be output.       *)
Leaving ==
    \/ /\ dpb' \subseteq dpb /\ UNCHANGED <<waiting, outputNo, outputCntr>>
       /\ cpb' \in {"empty", cpb} /\ cpb' # "picture"
       /\ cpb = "picture" => isRASL(pic[curr].nut)
    \/ /\ cpb = "picture" /\ ~isRASL(pic[curr].nut)
       /\ EmplaceBack(curr) /\ cpb' = "empty"

LEMMA CloseAULeaves ==
    ASSUME TypeOK, NEW tid, CloseAU(tid)
    PROVE  Leaving /\ pc' \in {"store", "au"}
BY Zenon DEF CloseAU, Leaving, dpbVars, TypeOK

(* What follows has a POC that is new in the sequence.                     *)
FreshTruth == cvs > 0 /\ \A q \in InCvs : pic[q].truth # nal'.truth

LEMMA SendFresh ==
    ASSUME TypeOK, AUInv, SendPicture
    PROVE  nal'.nut \in Nuts /\ (~isIRAP(nal'.nut) => FreshTruth)
<1>1. nal'.nut \in Nuts
  BY SendPictureType DEF Sent
<1>2. CASE SendIrap
  <2>1. PICK nut \in {t \in Nuts : isIRAP(t)}, sps \in SpsChoices, f \in OutFlags :
          \E truth \in IrapTruths(nut), noPrior \in NoPriorFlags(nut), foll \in IrapSets(nut) :
              SendIrapAs(nut, sps, f, truth, noPrior, foll)
    BY <1>2, Zenon DEF SendIrap
  <2>2. nal'.nut = nut
    BY <2>1 DEF SendIrapAs
  <2> QED
    BY <1>1, <2>1, <2>2
<1>3. CASE SendRasl
  <2>1. PICK nut \in {t \in Nuts : isRASL(t)}, tid \in Tids, f \in OutFlags, d \in PocReach :
          SendRaslAs(nut, tid, f, encTid0 + d)
    BY <1>3, Zenon DEF SendRasl
  <2>2. nal'.truth = encTid0 + d /\ MayFollow(nut, encTid0 + d)
    BY <2>1 DEF SendRaslAs
  <2> QED
    BY <1>1, <2>2 DEF FreshTruth, MayFollow
<1>4. CASE SendInter
  <2>1. PICK nut \in {t \in Nuts : ~isIRAP(t) /\ ~isRASL(t)}, tid \in Tids, f \in OutFlags,
             d \in PocReach, kept \in SUBSET refs :
        \E long \in LongSets(kept) :
        \E byLsb \in SUBSET {q \in long : LsbNames(q)} :
            SendInterAs(nut, tid, f, encTid0 + d, kept, long, byLsb)
    BY <1>4, Zenon DEF SendInter
  <2>2. PICK long, byLsb : SendInterAs(nut, tid, f, encTid0 + d, kept, long, byLsb)
    BY <2>1, Zenon
  <2>3. nal'.truth = encTid0 + d /\ MayFollow(nut, encTid0 + d)
    BY <2>2 DEF SendInterAs
  <2> QED
    BY <1>1, <2>3 DEF FreshTruth, MayFollow
<1> QED
  BY <1>2, <1>3, <1>4 DEF SendPicture

LEMMA Closes ==
    ASSUME TypeOK, AUInv, FirstSliceSegment \/ AccessUnitDelimiter \/ EndOfBitstream
    PROVE  /\ pc = "nal" /\ pic' = pic /\ cvs' = cvs /\ au' = au
           /\ Leaving
           /\ pc' \in {"store", "au"} \/ (pc' = "flush" /\ nal' = EndOfStream)
           /\ nal' = EndOfStream => pc' \in {"store", "flush"}
           /\ ToCreate' => FreshTruth
<1>1. CASE FirstSliceSegment
  <2>1. /\ pc = "nal" /\ pic' = pic /\ cvs' = cvs /\ au' = au
        /\ Leaving /\ pc' \in {"store", "au"}
    BY <1>1, CloseAULeaves DEF FirstSliceSegment
  <2>2. nal'.nut \in Nuts /\ (~isIRAP(nal'.nut) => FreshTruth)
    BY <1>1, SendFresh DEF FirstSliceSegment
  <2>3. nal' # EndOfStream
    BY <2>2, BitstreamAssumption DEF EndOfStream, NonVcl, RSV_VCL31
  <2>4. ToCreate' => ~isIRAP(nal'.nut)
    BY <2>1, <2>2, StartsIffIRAP DEF ToCreate
  <2> QED
    BY <2>1, <2>2, <2>3, <2>4
<1>2. CASE AccessUnitDelimiter
  <2>1. /\ pc = "nal" /\ pic' = pic /\ cvs' = cvs /\ au' = au /\ nal' = Aud
        /\ Leaving /\ pc' \in {"store", "au"}
    BY <1>2, CloseAULeaves DEF AccessUnitDelimiter
  <2> QED
    BY <2>1, NoNextSequence DEF ToCreate, Received
<1>3. CASE EndOfBitstream
  <2>1. /\ pc = "nal" /\ pic' = pic /\ cvs' = cvs /\ au' = au /\ nal' = EndOfStream
        /\ pc' \in {"store", "flush"}
    BY <1>3, Zenon DEF EndOfBitstream
  <2>2. Leaving
    BY <1>3, Zenon DEF EndOfBitstream, Leaving, EraseUnused, TypeOK
  <2> QED
    BY <2>1, <2>2 DEF ToCreate, Received
<1> QED
  BY <1>1, <1>2, <1>3

LEMMA NumberClose ==
    ASSUME TypeOK, AUInv, NumberInv, FirstSliceSegment \/ AccessUnitDelimiter \/ EndOfBitstream
    PROVE  NumberInv'
<1>1. /\ pc = "nal" /\ pic' = pic /\ cvs' = cvs /\ au' = au
      /\ Leaving
      /\ pc' \in {"store", "au"} \/ (pc' = "flush" /\ nal' = EndOfStream)
      /\ ToCreate' => FreshTruth
  BY Closes
<1>2. Created' = Created /\ InCvs' = InCvs /\ curr' = curr
  BY <1>1 DEF Created, InCvs, curr
<1>3. cpb' # "picture" /\ (cpb' = "opened" => cpb = "opened")
  BY <1>1 DEF Leaving
<1>4. dpb' \subseteq Created
  <2>1. cpb = "picture" => curr \in Created
    BY CurrType DEF NumberInv, Numbered, Created
  <2>2. dpb' \subseteq dpb \/ (cpb = "picture" /\ dpb' = dpb \cup {curr})
    BY <1>1, Zenon DEF Leaving, EmplaceBack
  <2> QED
    BY <2>1, <2>2 DEF NumberInv, Numbered
<1>5. Numbered'
  BY <1>1, <1>2, <1>3, <1>4 DEF NumberInv, Numbered, Processed, FreshTruth
<1>6. Distinct'
  BY <1>1, <1>2 DEF NumberInv, Distinct, FreshTruth
<1> QED
  BY <1>5, <1>6 DEF NumberInv

(* A new access unit, and a new sequence if its picture begins one.        *)
LEMMA NumberOpen ==
    ASSUME TypeOK, AUInv, NumberInv, OpenAU
    PROVE  NumberInv'
<1>1. /\ pc = "au" /\ pc' = (IF nal = Aud THEN "nal" ELSE "pps")
      /\ cpb # "picture" /\ cpb' = "opened" /\ nal # EndOfStream
      /\ au' = (IF cpb = "empty" THEN au + 1 ELSE au)
      /\ cvs' = (IF StartsCvs(nal.nut) THEN cvs + 1 ELSE cvs)
      /\ UNCHANGED <<pic, dpb, nal>>
  BY Zenon DEF OpenAU, dpbVars, AUInv
<1>2. Created' = Created /\ au \in Int /\ cvs \in Nat /\ \A p \in Picture : pic[p].cvs \in Nat
  BY <1>1, MaxAUAssumption DEF Created, TypeOK, PictureType
<1>3. \A p \in Created : p < au
  BY DEF NumberInv, Numbered
<1>4. cvs' \in Nat /\ cvs <= cvs'
  BY <1>1, <1>2
<1>5. \A p \in Created : p < au'
  BY <1>1, <1>2, <1>3 DEF Created, Picture
<1>6. pic[curr'].cvs = 0
  <2>1. CASE cpb = "empty"
    <3>1. curr' = au
      BY <1>1, <1>2, <2>1 DEF curr
    <3>2. au \in Picture
      BY <1>1, <2>1, MaxAUAssumption DEF AUInv, Picture, TypeOK
    <3>3. au \notin Created
      BY <1>2, <1>3
    <3> QED
      BY <1>2, <3>1, <3>2, <3>3 DEF Created
  <2>2. CASE cpb = "opened"
    BY <1>1, <2>2 DEF curr, NumberInv, Numbered
  <2> QED
    BY <1>1, <2>1, <2>2 DEF TypeOK
<1>7. ToCreate' => nal # Aud /\ (StartsCvs(nal.nut) \/ ToCreate)
  BY <1>1 DEF ToCreate, Received, Opening
<1>8. Numbered'
  <2>1. dpb' \subseteq Created'
    BY <1>1, <1>2 DEF NumberInv, Numbered
  <2>2. \A p \in Picture : pic'[p].cvs <= cvs'
    BY <1>1, <1>2, <1>4 DEF NumberInv, Numbered
  <2>3. ToCreate' => cvs' > 0
    BY <1>1, <1>2, <1>7 DEF NumberInv, Numbered
  <2> QED
    BY <1>1, <1>2, <1>5, <1>6, <2>1, <2>2, <2>3 DEF Numbered, Processed
<1>9. Distinct'
  <2>1. StartsCvs(nal.nut) => InCvs' = {}
    BY <1>1, <1>2 DEF InCvs, Created, NumberInv, Numbered
  <2>2. ~StartsCvs(nal.nut) => InCvs' = InCvs
    BY <1>1, <1>2 DEF InCvs
  <2>3. ToCreate' => \A q \in InCvs' : pic'[q].truth # nal'.truth
    BY <1>1, <1>7, <2>1, <2>2 DEF NumberInv, Distinct
  <2> QED
    BY <1>1, <1>2, <2>3 DEF NumberInv, Distinct
<1> QED
  BY <1>8, <1>9 DEF NumberInv

(* The picture is created.                                                 *)
LEMMA Creates ==
    ASSUME TypeOK, AUInv, PocInv, NumberInv, SlicePicParameterSetId
    PROVE  /\ cpb = "opened" /\ cpb' = "picture" /\ pc = "pps" /\ pc' = "output"
           /\ UNCHANGED <<dpb, waiting, outputNo, outputCntr, nal, cvs, au, soCVS>>
           /\ curr \in Picture /\ curr' = curr
           /\ \A p \in Picture : p # curr => pic'[p] = pic[p]
           /\ pic'[curr] = NewPicture
           /\ ToCreate /\ cvs > 0
           /\ curr \notin Created /\ Created' = Created \cup {curr}
<1>1. /\ pc = "pps" /\ cpb = "opened" /\ cpb' = "picture" /\ pc' = "output"
      /\ pic' = [pic EXCEPT ![curr] = NewPicture]
      /\ UNCHANGED <<dpb, waiting, outputNo, outputCntr, nal, cvs, au, soCVS>>
  BY Zenon DEF SlicePicParameterSetId, AUInv
<1>2. curr \in Picture /\ curr' = curr
  BY <1>1, CurrType DEF curr
<1>3. /\ \A p \in Picture : p # curr => pic'[p] = pic[p]
      /\ pic'[curr] = NewPicture
  BY <1>1, <1>2 DEF TypeOK
<1>4. NewPicture.cvs = cvs
  BY DEF NewPicture
<1>5. ToCreate /\ cvs > 0
  <2>1. nal # Aud /\ nal # EndOfStream
    BY <1>1, HeaderNal
  <2> QED
    BY <1>1, <2>1 DEF ToCreate, Received, Opening, NumberInv, Numbered
<1>6. curr \notin Created /\ Created' = Created \cup {curr}
  BY <1>1, <1>2, <1>3, <1>4, <1>5 DEF Created, NumberInv, Numbered
<1> QED
  BY <1>1, <1>2, <1>3, <1>5, <1>6

LEMMA NumberCreate ==
    ASSUME TypeOK, AUInv, PocInv, NumberInv, SlicePicParameterSetId
    PROVE  NumberInv'
<1>1. /\ cpb = "opened" /\ cpb' = "picture" /\ pc = "pps" /\ pc' = "output"
      /\ UNCHANGED <<dpb, nal, cvs, au>>
      /\ curr \in Picture /\ curr' = curr
      /\ \A p \in Picture : p # curr => pic'[p] = pic[p]
      /\ pic'[curr] = NewPicture
      /\ ToCreate /\ cvs > 0
      /\ curr \notin Created /\ Created' = Created \cup {curr}
  BY Creates
<1>2. NewPicture.cvs = cvs /\ NewPicture.truth = nal.truth /\ NewPicture.ref = "ShortTerm"
  BY DEF NewPicture
<1>3. Created \subseteq Picture /\ curr < au /\ au \in Int
  BY MaxAUAssumption DEF Created, curr, TypeOK
<1>4. Numbered'
  BY <1>1, <1>2, <1>3 DEF NumberInv, Numbered, Processed, TypeOK
<1>5. Distinct'
  <2>1. \A q \in Created : pic[q].cvs = cvs => pic[q].truth # nal.truth
    BY <1>1 DEF NumberInv, Distinct, InCvs
  <2>2. \A p, q \in Created' : pic'[p].cvs = pic'[q].cvs /\ pic'[p].truth = pic'[q].truth => p = q
    BY <1>1, <1>2, <1>3, <2>1 DEF NumberInv, Distinct
  <2>3. ~ToCreate'
    BY <1>1 DEF ToCreate, Opening
  <2> QED
    BY <2>2, <2>3 DEF Distinct
<1> QED
  BY <1>4, <1>5 DEF NumberInv

-------------------------------------------------------------------------------
(* Steps that take pictures from the buffer and rewrite none of the fields *)
(* that say which picture it is.                                           *)
SameFields ==
    \A p \in Picture : /\ pic'[p].nut = pic[p].nut /\ pic'[p].cvs = pic[p].cvs
                       /\ pic'[p].truth = pic[p].truth
NumberFrame ==
    /\ SameFields /\ dpb' \subseteq dpb
    /\ cpb = "picture" => pic'[curr].ref = pic[curr].ref
    /\ UNCHANGED <<nal, cvs, au, cpb>>
    /\ ToCreate' => ToCreate
    /\ Processed' => Processed \/ pc = "header"

LEMMA NumberKept ==
    ASSUME TypeOK, AUInv, NumberInv, NumberFrame
    PROVE  NumberInv'
<1>1. Created' = Created /\ InCvs' = InCvs /\ curr' = curr
  BY DEF NumberFrame, SameFields, Created, InCvs, curr
<1>2. Created \subseteq Picture /\ dpb \subseteq Picture /\ (cpb # "empty" => curr \in Picture)
  BY CurrType DEF Created, TypeOK, BufferTypeOK
<1>3. Numbered'
  BY <1>1, <1>2 DEF NumberFrame, SameFields, NumberInv, Numbered, AUInv
<1>4. Distinct'
  BY <1>1, <1>2 DEF NumberFrame, SameFields, NumberInv, Distinct, InCvs
<1> QED
  BY <1>3, <1>4 DEF NumberInv

LEMMA NumberPictureSteps ==
    ASSUME TypeOK, AUInv, PocInv, NumberInv, PicOutputFlag \/ SliceSegmentHeader
    PROVE  NumberFrame
<1>1. curr \in Picture
  BY CurrType DEF AUInv, PicOutputFlag, SliceSegmentHeader
<1>2. CASE PicOutputFlag
  <2>1. /\ pc = "output" /\ pc' \in {"header", "aborted"}
        /\ pic' = pic \/ \E b \in BOOLEAN : pic' = [pic EXCEPT ![curr].out = b]
        /\ UNCHANGED <<dpb, nal, cvs, au, cpb>>
    BY <1>2, Zenon DEF PicOutputFlag, dpbVars
  <2>2. SameFields /\ pic'[curr].ref = pic[curr].ref
    BY <1>1, <2>1 DEF SameFields, TypeOK, PictureType
  <2> QED
    BY <2>1, <2>2 DEF NumberFrame, Processed, ToCreate, Opening
<1>3. CASE SliceSegmentHeader
  <2>1. /\ pc = "header" /\ pc' \in {"aborted", "update", "flush"}
        /\ pic' = [p \in Picture |-> IF p = curr THEN [pic[p] EXCEPT !.poc = currPoc]
                                     ELSE [pic[p] EXCEPT !.ref = Marking[p]]]
        /\ UNCHANGED <<nal, cvs, au, cpb>> /\ dpb' \subseteq dpb
    BY <1>3, Zenon DEF SliceSegmentHeader, Clear, EraseUnused, TypeOK
  <2>2. SameFields /\ pic'[curr].ref = pic[curr].ref
    BY <1>1, <2>1 DEF SameFields, TypeOK, PictureType
  <2> QED
    BY <2>1, <2>2 DEF NumberFrame, ToCreate, Opening
<1> QED
  BY <1>2, <1>3

LEMMA NumberOther ==
    ASSUME TypeOK, AUInv, NumberInv,
           \/ EndOfSequence \/ StoreBump \/ StoreDone \/ FlushBump \/ Flushed \/ UpdateBump
           \/ FinishPicture \/ LoseSlices \/ LastFlush \/ Finish \/ UNCHANGED vars
    PROVE  NumberFrame
<1>1. CASE StoreBump \/ FlushBump \/ UpdateBump
  <2>1. /\ pc \in {"store", "flush", "update"} /\ UNCHANGED <<pic, nal, cvs, au, cpb>>
        /\ dpb' \subseteq dpb
        /\ pc' = pc \/ pc' = "aborted" \/ (pc = "update" /\ pc' = "ctus")
    BY <1>1, Zenon DEF StoreBump, FlushBump, UpdateBump, GuardedBump, Bump, EraseUnused, dpbVars
  <2> QED
    BY <2>1 DEF NumberFrame, SameFields, ToCreate, Received, Opening, Processed
<1>2. CASE \/ EndOfSequence \/ StoreDone \/ Flushed
           \/ FinishPicture \/ LoseSlices \/ LastFlush \/ Finish
  <2>1. UNCHANGED <<pic, nal, cvs, au, cpb>> /\ dpb' \subseteq dpb
    BY <1>2, Zenon DEF EndOfSequence, StoreDone, Flushed, FinishPicture, LoseSlices, LastFlush, Finish,
         Clear, EraseUnused, dpbVars
  <2>2. (ToCreate' => ToCreate) /\ (Processed' => Processed)
    BY <1>2, <2>1 DEF ToCreate, Received, Opening, Processed,
       EndOfSequence, StoreDone, Flushed, FinishPicture, LoseSlices, LastFlush, Finish
  <2> QED
    BY <2>1, <2>2 DEF NumberFrame, SameFields
<1>3. CASE UNCHANGED vars
  BY <1>3 DEF vars, NumberFrame, SameFields, ToCreate, Received, Opening, Processed
<1> QED
  BY <1>1, <1>2, <1>3

LEMMA NumberStep ==
    ASSUME TypeOK, AUInv, PocInv, NumberInv, [Next]_vars
    PROVE  NumberInv'
<1>1. CASE UNCHANGED vars \/ Terminated
  BY <1>1, NumberOther, NumberKept DEF Terminated
<1> QED
  BY <1>1, NumberClose, NumberOpen, NumberCreate, NumberPictureSteps, NumberOther, NumberKept,
     Zenon DEF Next

-------------------------------------------------------------------------------
(* The refinement.  What a reader of PictureOutput sees of the decoder is  *)
(* the place of the pictures stored and the queue of those that wait.      *)
Nowhere == [cvs |-> 0, poc |-> 0]
place == [p \in Picture |-> IF p \in Stored THEN [cvs |-> pic[p].cvs, poc |-> pic[p].truth]
                            ELSE Nowhere]
Before(p, q) ==
    \/ place[p].cvs < place[q].cvs
    \/ place[p].cvs = place[q].cvs /\ place[p].poc < place[q].poc
SameQueues == UNCHANGED <<waiting, outputNo, outputCntr>>

ShownCreated == Shown \subseteq Created
PromiseInv == NumberInv /\ ShownCreated /\ PocInv /\ OutputInv

LEMMA StoredType ==
    ASSUME TypeOK
    PROVE  /\ Stored \subseteq Created /\ Created \subseteq Picture
           /\ \A p \in Picture : /\ pic[p].cvs \in Nat /\ pic[p].truth \in Int
                                 /\ pic[p].out \in BOOLEAN
           /\ waiting \subseteq dpb /\ dpb \subseteq Picture
           /\ cvs \in Nat /\ outputCntr \in Nat
           /\ outputNo \in [Picture -> Nat \cup {-1}]
BY DEF Stored, Created, TypeOK, BufferTypeOK, PictureType, NotOutput

(* The pictures of the queue are stored.                                   *)
LEMMA QueueStored ==
    ASSUME TypeOK, NumberInv, ShownCreated, OutputInv
    PROVE  waiting \cup Shown \subseteq Stored
<1>1. waiting \cup Shown \subseteq Created
  BY StoredType DEF NumberInv, Numbered, ShownCreated
<1>2. \A p \in waiting \cup Shown : pic[p].out /\ ~isRASL(pic[p].nut)
  BY DEF OutputInv, Numbering
<1>3. cpb = "picture" => curr \notin waiting \cup Shown
  BY DEF OutputInv, Numbering
<1> QED
  BY <1>1, <1>2, <1>3 DEF Stored

(* Of two pictures one comes earlier.                                      *)
LEMMA OneEarlier ==
    ASSUME TypeOK, NumberInv, NEW p \in Created, NEW q \in Created, p # q, ~Earlier(p, q)
    PROVE  Earlier(q, p)
<1>1. p \in Picture /\ q \in Picture
  BY StoredType
<1>2. pic[p].cvs # pic[q].cvs \/ pic[p].truth # pic[q].truth
  BY DEF NumberInv, Distinct
<1> QED
  BY <1>1, <1>2, StoredType DEF Earlier

(* What is seen stays when the pictures created keep what names them, their*)
(* flags, and the picture of the CPB stays there.                          *)
LEMMA PlaceKept ==
    ASSUME TypeOK, SameFields,
           \A p \in Picture : pic'[p].out = pic[p].out \/ (p = curr /\ cpb = "picture"),
           cpb = "picture" <=> cpb' = "picture", cpb = "picture" => curr' = curr
    PROVE  place' = place
<1>1. Created' = Created
  BY DEF Created, SameFields
<1>2. Stored' = Stored
  BY <1>1, StoredType DEF Stored, SameFields
<1> QED
  BY <1>2 DEF place, SameFields, Nowhere

(* Closing an access unit.                                                 *)
Arrives(p) ==
    /\ p \in Picture /\ place[p] = Nowhere
    /\ place'[p].cvs = cvs
    /\ \A q \in Picture \ {p} : place'[q] = place[q]
    /\ \A q \in Shown : Before(q, p)'
    /\ waiting' = waiting \cup {p}
    /\ UNCHANGED <<outputNo, outputCntr, cvs>>

LEMMA CloseArrives ==
    ASSUME TypeOK, AUInv, PromiseInv, (TypeOK /\ NumberInv /\ OutputInv)',
           FirstSliceSegment \/ AccessUnitDelimiter \/ EndOfBitstream
    PROVE  (place' = place /\ SameQueues /\ cvs' = cvs) \/ \E p \in Picture : Arrives(p)
<1>1. pic' = pic /\ cvs' = cvs /\ au' = au /\ Leaving
  BY Closes
<1>2. Created' = Created /\ curr' = curr
  BY <1>1 DEF Created, curr
<1>3. CASE /\ SameQueues /\ cpb' # "picture"
           /\ cpb = "picture" => isRASL(pic[curr].nut)
  <2>1. Stored' = Stored
    BY <1>1, <1>2, <1>3 DEF Stored
  <2> QED
    BY <1>1, <1>3, <2>1 DEF place
<1>4. CASE cpb = "picture" /\ ~isRASL(pic[curr].nut) /\ EmplaceBack(curr) /\ cpb' = "empty"
  <2>1. /\ waiting' = (IF pic[curr].out THEN waiting \cup {curr} ELSE waiting)
        /\ UNCHANGED <<outputNo, outputCntr>>
    BY <1>4, Zenon DEF EmplaceBack
  <2>2. curr \in Picture /\ curr \in Created /\ pic[curr].cvs = cvs /\ curr \notin Stored
    BY <1>4, CurrType DEF Created, PromiseInv, NumberInv, Numbered, Stored
  <2>3. CASE ~pic[curr].out
    <3>1. Stored' = Stored
      BY <1>1, <1>2, <1>4, <2>3 DEF Stored
    <3> QED
      BY <1>1, <2>1, <2>3, <3>1 DEF place, SameQueues
  <2>4. ASSUME pic[curr].out, NEW p \in Picture, p = curr
        PROVE  Arrives(p)
    <3>1. Stored' = Stored \cup {p}
      BY <1>1, <1>2, <1>4, <2>2, <2>4 DEF Stored
    <3>2. place[p] = Nowhere /\ place'[p] = [cvs |-> cvs, poc |-> pic[p].truth]
      BY <1>1, <2>2, <2>4, <3>1 DEF place
    <3>3. \A q \in Picture \ {p} : place'[q] = place[q]
      BY <1>1, <3>1 DEF place
    <3>4. Shown' = Shown
      BY <2>1 DEF Shown
    <3>5. \A q \in Shown : Before(q, p)'
      <4> SUFFICES ASSUME NEW q \in Shown PROVE Before(q, p)'
        OBVIOUS
      <4>1. p \in waiting' /\ q \in Shown' /\ q # p
        BY <1>4, <2>1, <2>4, <3>4 DEF PromiseInv, OutputInv, Numbering
      <4>2. ~Earlier(p, q)
        BY <1>1, <4>1 DEF OutputInv, WaitingAfterShown, Earlier
      <4>3. q \in Stored
        BY QueueStored DEF PromiseInv
      <4>4. Earlier(q, p)
        BY <2>2, <2>4, <4>1, <4>2, <4>3, StoredType, OneEarlier DEF PromiseInv
      <4>5. place'[q] = [cvs |-> pic[q].cvs, poc |-> pic[q].truth]
        BY <3>3, <4>1, <4>3, StoredType DEF place
      <4> QED
        BY <1>1, <2>2, <2>4, <3>2, <4>4, <4>5 DEF Before, Earlier
    <3>6. waiting' = waiting \cup {p} /\ place'[p].cvs = cvs
      BY <2>1, <2>4, <3>2
    <3> QED
      BY <1>1, <2>1, <3>2, <3>3, <3>5, <3>6 DEF Arrives
  <2> QED
    BY <2>2, <2>3, <2>4
<1>5. \/ SameQueues /\ cpb' # "picture" /\ (cpb = "picture" => isRASL(pic[curr].nut))
      \/ cpb = "picture" /\ ~isRASL(pic[curr].nut) /\ EmplaceBack(curr) /\ cpb' = "empty"
  BY <1>1, Zenon DEF Leaving, SameQueues
<1> QED
  BY <1>3, <1>4, <1>5

(* One iteration of a bumping loop.                                        *)
Shows(p) ==
    /\ p \in waiting
    /\ \A q \in waiting \ {p} : Before(p, q)
    /\ waiting' = waiting \ {p}
    /\ outputNo' = [outputNo EXCEPT ![p] = outputCntr]
    /\ outputCntr' = outputCntr + 1
    /\ place' = place /\ cvs' = cvs

LEMMA BumpShows ==
    ASSUME TypeOK, PromiseInv, Bump, UNCHANGED <<pic, cvs, au, cpb>>,
           pc \in {"store", "flush", "update"}
    PROVE  \E p \in waiting : Shows(p)
<1>1. PICK p \in waiting :
        /\ IsNextOutput(p)
        /\ waiting' = waiting \ {p}
        /\ outputNo' = [outputNo EXCEPT ![p] = outputCntr]
        /\ outputCntr' = outputCntr + 1
  BY Zenon DEF Bump
<1>2. place' = place
  BY PlaceKept DEF SameFields, curr
<1>3. \A q \in waiting : ~Earlier(q, p)
  <2>1. \A q \in waiting : pic[q].poc = pic[q].truth /\ pic[q].cvs = pic[p].cvs
    BY StoredType DEF PromiseInv, PocInv, AllRestored, PocDerived, OutputInv, SequenceInv
  <2>2. \A q \in waiting : pic[q].cvs \in Nat /\ pic[q].truth \in Int
    BY StoredType
  <2> QED
    BY <1>1, <2>1, <2>2 DEF IsNextOutput, Earlier
<1>4. \A q \in waiting \ {p} : Before(p, q)
  <2> SUFFICES ASSUME NEW q \in waiting \ {p} PROVE Before(p, q)
    OBVIOUS
  <2>1. p \in Stored /\ q \in Stored
    BY QueueStored DEF PromiseInv
  <2>2. Earlier(p, q)
    BY <1>3, <2>1, StoredType, OneEarlier DEF PromiseInv
  <2> QED
    BY <2>1, <2>2, StoredType DEF Before, place, Earlier
<1> QED
  BY <1>1, <1>2, <1>4 DEF Shows

(* The other steps: a sequence begins, its header drops what waits, or     *)
(* nothing is seen.                                                        *)
Quiet == place' = place /\ SameQueues /\ cvs' = cvs
Begins == place' = place /\ SameQueues /\ cvs' = cvs + 1
Discards ==
    /\ \A p \in waiting : place[p].cvs < cvs
    /\ waiting' = {}
    /\ place' = place /\ UNCHANGED <<outputNo, outputCntr, cvs>>

LEMMA OpenBegins ==
    ASSUME TypeOK, AUInv, OpenAU
    PROVE  Quiet \/ Begins
<1>1. /\ cpb # "picture" /\ cpb' = "opened" /\ pic' = pic /\ SameQueues
      /\ cvs' = (IF StartsCvs(nal.nut) THEN cvs + 1 ELSE cvs)
  BY Zenon DEF OpenAU, AUInv, dpbVars, SameQueues
<1>2. place' = place
  BY <1>1, PlaceKept DEF SameFields
<1> QED
  BY <1>1, <1>2 DEF Quiet, Begins

LEMMA CreateQuiet ==
    ASSUME TypeOK, AUInv, PocInv, NumberInv, SlicePicParameterSetId
    PROVE  Quiet
<1>1. /\ cpb = "opened" /\ cpb' = "picture"
      /\ UNCHANGED <<waiting, outputNo, outputCntr, cvs>>
      /\ curr \in Picture /\ curr' = curr
      /\ \A p \in Picture : p # curr => pic'[p] = pic[p]
      /\ curr \notin Created /\ Created' = Created \cup {curr}
  BY Creates
<1>2. Stored' = Stored
  BY <1>1, StoredType DEF Stored
<1>3. place' = place
  BY <1>1, <1>2, StoredType DEF place
<1> QED
  BY <1>1, <1>3 DEF Quiet, SameQueues

LEMMA OutputFlagQuiet ==
    ASSUME TypeOK, AUInv, PicOutputFlag
    PROVE  Quiet
<1>1. /\ pic' = pic \/ \E b \in BOOLEAN : pic' = [pic EXCEPT ![curr].out = b]
      /\ cpb = "picture" /\ UNCHANGED <<waiting, outputNo, outputCntr, cvs, au, cpb>>
  BY Zenon DEF PicOutputFlag, dpbVars, AUInv
<1>2. curr \in Picture /\ curr' = curr
  BY <1>1, CurrType DEF curr
<1>3. SameFields /\ \A p \in Picture : p # curr => pic'[p].out = pic[p].out
  BY <1>1, <1>2 DEF SameFields, TypeOK, PictureType
<1>4. place' = place
  BY <1>1, <1>2, <1>3, PlaceKept
<1> QED
  BY <1>1, <1>4 DEF Quiet, SameQueues

LEMMA HeaderDiscards ==
    ASSUME TypeOK, AUInv, PromiseInv, SliceSegmentHeader
    PROVE  Quiet \/ Discards
<1>1. /\ pc = "header" /\ cpb = "picture"
      /\ UNCHANGED <<outputNo, outputCntr, cvs, au, cpb>>
      /\ pic' = [p \in Picture |-> IF p = curr THEN [pic[p] EXCEPT !.poc = currPoc]
                                   ELSE [pic[p] EXCEPT !.ref = Marking[p]]]
      /\ waiting' = waiting \/ (waiting' = {} /\ StartOfSequence)
  BY Zenon DEF SliceSegmentHeader, Clear, AUInv
<1>2. SameFields /\ curr' = curr /\ \A p \in Picture : pic'[p].out = pic[p].out
  BY <1>1 DEF SameFields, TypeOK, PictureType, curr
<1>3. place' = place
  BY <1>1, <1>2, PlaceKept
<1>4. CASE waiting' = waiting
  BY <1>1, <1>3, <1>4 DEF Quiet, SameQueues
<1>5. CASE waiting' = {} /\ StartOfSequence
  <2>1. StartsCvs(nal.nut)
    BY <1>1, <1>5, HeaderNal DEF StartOfSequence, PromiseInv
  <2>2. \A p \in waiting : pic[p].cvs < cvs
    BY <1>1, <2>1 DEF PromiseInv, OutputInv, SequenceInv, Between
  <2>3. \A p \in waiting : place[p].cvs = pic[p].cvs
    BY QueueStored, StoredType DEF PromiseInv, place
  <2> QED
    BY <1>1, <1>3, <1>5, <2>2, <2>3 DEF Discards
<1> QED
  BY <1>1, <1>4, <1>5

LEMMA OtherQuiet ==
    ASSUME TypeOK,
           \/ EndOfSequence \/ StoreDone \/ Flushed \/ FinishPicture \/ LoseSlices
           \/ LastFlush \/ Finish \/ UNCHANGED vars
    PROVE  Quiet
<1>1. UNCHANGED <<pic, waiting, outputNo, outputCntr, cvs, au, cpb>>
  BY DEF EndOfSequence, StoreDone, Flushed, FinishPicture, LoseSlices, LastFlush, Finish,
         Clear, vars, dpbVars
<1>2. place' = place
  BY <1>1, PlaceKept DEF SameFields, curr
<1> QED
  BY <1>1, <1>2 DEF Quiet, SameQueues

LEMMA BumpSees ==
    ASSUME TypeOK, PromiseInv, StoreBump \/ FlushBump \/ UpdateBump
    PROVE  Quiet \/ \E p \in waiting : Shows(p)
<1>1. /\ pc \in {"store", "flush", "update"} /\ UNCHANGED <<pic, cvs, au, cpb>>
      /\ Bump \/ UNCHANGED dpbVars
  BY Zenon DEF StoreBump, FlushBump, UpdateBump, GuardedBump
<1>2. CASE UNCHANGED dpbVars
  <2>1. place' = place
    BY <1>1, PlaceKept DEF SameFields, curr
  <2> QED
    BY <1>1, <1>2, <2>1 DEF Quiet, SameQueues, dpbVars
<1> QED
  BY <1>1, <1>2, BumpShows

LEMMA WhatIsSeen ==
    ASSUME TypeOK, AUInv, PromiseInv, (TypeOK /\ NumberInv /\ OutputInv)', [Next]_vars
    PROVE  \/ Quiet \/ Begins \/ Discards
           \/ \E p \in Picture : Arrives(p)
           \/ \E p \in waiting : Shows(p)
<1>1. CASE UNCHANGED vars \/ Terminated
  BY <1>1, OtherQuiet DEF Terminated
<1>2. CASE FirstSliceSegment \/ AccessUnitDelimiter \/ EndOfBitstream
  BY <1>2, CloseArrives DEF Quiet
<1>3. CASE OpenAU
  BY <1>3, OpenBegins
<1>4. CASE SlicePicParameterSetId
  BY <1>4, CreateQuiet DEF PromiseInv
<1>5. CASE PicOutputFlag
  BY <1>5, OutputFlagQuiet
<1>6. CASE SliceSegmentHeader
  BY <1>6, HeaderDiscards
<1>7. CASE StoreBump \/ FlushBump \/ UpdateBump
  BY <1>7, BumpSees
<1>8. CASE \/ EndOfSequence \/ StoreDone \/ Flushed \/ FinishPicture \/ LoseSlices
           \/ LastFlush \/ Finish
  BY <1>8, OtherQuiet
<1> QED
  BY <1>1, <1>2, <1>3, <1>4, <1>5, <1>6, <1>7, <1>8, Zenon DEF Next

LEMMA ShownStep ==
    ASSUME TypeOK, AUInv, PromiseInv, NumberInv', [Next]_vars
    PROVE  ShownCreated'
<1>1. Shown' \subseteq Shown \cup waiting
  <2>1. outputNo' = outputNo \/ \E p \in waiting : outputNo' = [outputNo EXCEPT ![p] = outputCntr]
    BY Zenon DEF Next, vars, dpbVars, Terminated, FirstSliceSegment, AccessUnitDelimiter,
       CloseAU, EmplaceBack, EndOfSequence,
       StoreBump, StoreDone, OpenAU, SlicePicParameterSetId, PicOutputFlag, SliceSegmentHeader,
       FlushBump, Flushed, UpdateBump, GuardedBump, Bump, FinishPicture, LoseSlices,
       EndOfBitstream, LastFlush, Finish
  <2> QED
    BY <2>1, StoredType DEF Shown
<1>2. Created \subseteq Created'
  <2>1. CASE SlicePicParameterSetId
    BY <2>1, Creates DEF PromiseInv
  <2>2. CASE PicOutputFlag \/ SliceSegmentHeader
    BY <2>2, NumberPictureSteps DEF PromiseInv, NumberFrame, SameFields, Created
  <2>3. CASE pic' = pic
    BY <2>3 DEF Created
  <2>4. \/ SlicePicParameterSetId \/ PicOutputFlag \/ SliceSegmentHeader \/ pic' = pic
    BY Zenon DEF Next, vars, Terminated, FirstSliceSegment, AccessUnitDelimiter,
       EndOfSequence, StoreBump, StoreDone, OpenAU, FlushBump, Flushed, UpdateBump,
       FinishPicture, LoseSlices, EndOfBitstream, LastFlush, Finish
  <2> QED
    BY <2>1, <2>2, <2>3, <2>4
<1>3. waiting \subseteq Created
  BY StoredType DEF PromiseInv, NumberInv, Numbered
<1> QED
  BY <1>1, <1>2, <1>3 DEF PromiseInv, ShownCreated

(* A step of the decoder is a step of the promise.                         *)
LEMMA PromiseStep ==
    ASSUME TypeOK, AUInv, PromiseInv, (TypeOK /\ NumberInv /\ OutputInv)', [Next]_vars
    PROVE  [Promise!Next]_Promise!vars
<1>1. CASE Quiet
  BY <1>1 DEF Promise!vars, Quiet, SameQueues, place, Nowhere
<1>2. CASE Begins
  BY <1>2 DEF Promise!Next, Promise!NewSequence, Begins, SameQueues, place, Nowhere
<1>3. CASE Discards
  BY <1>3 DEF Promise!Next, Promise!Discard, Discards, place, Nowhere
<1>4. CASE \E p \in Picture : Arrives(p)
  BY <1>4 DEF Promise!Next, Promise!Arrive, Arrives, place, Nowhere, Before, Shown, NotOutput,
     Promise!Nowhere, Promise!Before, Promise!Shown
<1>5. CASE \E p \in waiting : Shows(p)
  BY <1>5 DEF Promise!Next, Promise!Show, Shows, place, Nowhere, Before, Promise!Before
<1> QED
  BY <1>1, <1>2, <1>3, <1>4, <1>5, WhatIsSeen

LEMMA PromiseInit == Init => Promise!Init
<1> SUFFICES ASSUME Init PROVE Promise!Init
  OBVIOUS
<1>1. Created = {}
  BY DEF Init, Created, NoPicture, Picture
<1>2. Stored = {}
  BY <1>1 DEF Stored
<1> QED
  BY <1>2 DEF Init, Promise!Init, Promise!Nowhere, NotOutput

(* The decoder implements PictureOutput, for every reordering depth, buffer*)
(* capacity, POC range and number of access units, provided that no        *)
(* parameter set bounds the latency: each picture that is to be shown is   *)
(* shown once, in output order, and only those of an earlier sequence are  *)
(* discarded, all at once (DPB.cpp:65-83, 254-297, State.cpp:722-741).     *)
THEOREM PromiseKept ==
    ASSUME \A s \in SpsChoices : s.latencyPlus1 = 0
    PROVE  Spec => ImplementsPromise
<1>1. Init => PromiseInv /\ Promise!Init
  <2>1. Init => ShownCreated
    BY DEF Init, Shown, ShownCreated
  <2> QED
    BY <2>1, PromiseInit, NumberInit, PocInit, OutputInit DEF PromiseInv
<1>2. TypeOK /\ AUInv /\ PromiseInv /\ [Next]_vars => PromiseInv'
  BY NumberStep, PocStep, OutputStep, ShownStep DEF PromiseInv
<1>3. TypeOK /\ AUInv /\ PromiseInv /\ TypeOK' /\ PromiseInv' /\ [Next]_vars
        => [Promise!Next]_Promise!vars
  BY PromiseStep DEF PromiseInv
<1> QED
  BY <1>1, <1>2, <1>3, TypeCorrect, PTL DEF Spec, ImplementsPromise, Promise!Spec

-------------------------------------------------------------------------------
(* No picture is lost.  The argument: a picture that is to be output waits *)
(* from the end of its access unit until it is output; only the header     *)
(* that begins a sequence drops pictures that wait, and these are all of   *)
(* the sequence before.                                                    *)
WaitingSequence ==
    /\ Between => \A p \in waiting : pic[p].cvs + 1 = cvs
    /\ ~Between /\ pc # "aborted" => \A p \in waiting : pic[p].cvs = cvs
    /\ nal = EndOfStream => pc \in {"store", "flush", "done", "aborted"}

(* What decides whether pictures are dropped is what the picture says.     *)
PriorAgrees ==
    pc \in {"output", "header"} =>
        /\ pic[curr].noPrior = nal.noPrior
        /\ StartsCvs(nal.nut) => soCVS

LossInv == WaitingSequence /\ PriorAgrees /\ NothingLost

LEMMA LossInit == Init => LossInv
<1> SUFFICES ASSUME Init PROVE LossInv
  OBVIOUS
<1>1. Created = {} /\ waiting = {} /\ cpb = "empty" /\ pc = "nal" /\ nal = Aud
  BY DEF Init, Created, NoPicture, Picture
<1>2. Aud # EndOfStream
  BY DEF Aud, EndOfStream, NonVcl, AUD_NUT
<1> QED
  BY <1>1, <1>2 DEF LossInv, WaitingSequence, PriorAgrees, NothingLost

-------------------------------------------------------------------------------
(* A step keeps what was promised when the pictures keep their flags, those*)
(* that wait go on waiting or are output, and the picture of the CPB stays *)
(* there or joins those that wait.                                         *)
SameFlags ==
    \A p \in Picture : /\ pic'[p].nut = pic[p].nut /\ pic'[p].cvs = pic[p].cvs
                       /\ pic'[p].out = pic[p].out /\ pic'[p].noPrior = pic[p].noPrior
KeepsWaiting ==
    /\ \A p \in waiting : p \in waiting' \/ outputNo'[p] # NotOutput
    /\ \A p \in Shown : outputNo'[p] # NotOutput
    /\ cpb = "picture" => \/ cpb' = "picture" /\ curr' = curr
                          \/ ~pic[curr].out \/ isRASL(pic[curr].nut) \/ curr \in waiting'

LEMMA NothingLostKept ==
    ASSUME TypeOK, NothingLost, SameFlags, KeepsWaiting
    PROVE  NothingLost'
<1>1. Created' = Created /\ Created \subseteq Picture
  BY DEF SameFlags, Created
<1> SUFFICES ASSUME NEW p \in Created
             PROVE  \/ ~pic[p].out \/ isRASL(pic[p].nut)
                    \/ outputNo'[p] # NotOutput
                    \/ p \in waiting'
                    \/ p = curr' /\ cpb' = "picture"
                    \/ \E q \in Created : /\ pic[q].cvs = pic[p].cvs + 1
                                          /\ isCRA(pic[q].nut) \/ pic[q].noPrior
  BY <1>1 DEF NothingLost, SameFlags
<1>2. outputNo[p] # NotOutput => outputNo'[p] # NotOutput
  BY <1>1 DEF KeepsWaiting, Shown
<1> QED
  BY <1>2 DEF NothingLost, KeepsWaiting

(* A picture to be created is new.                                         *)
LEMMA NewNumber ==
    ASSUME TypeOK, NumberInv
    PROVE  /\ waiting \subseteq Created /\ Created \subseteq Picture
           /\ cpb = "opened" => curr \notin Created /\ curr \notin waiting
BY StoredType DEF NumberInv, Numbered, Created

LEMMA SamePicFlags == pic' = pic => SameFlags
BY DEF SameFlags

(* One iteration of a bumping loop.                                        *)
LEMMA BumpKeepsWaiting ==
    ASSUME TypeOK, Bump, UNCHANGED <<cpb, au>>
    PROVE  KeepsWaiting /\ waiting' \subseteq waiting
<1>1. PICK p \in waiting :
        /\ waiting' = waiting \ {p}
        /\ outputNo' = [outputNo EXCEPT ![p] = outputCntr]
  BY Zenon DEF Bump
<1>2. p \in Picture /\ outputCntr # NotOutput
  BY DEF TypeOK, BufferTypeOK, NotOutput
<1>3. outputNo'[p] # NotOutput /\ \A q \in Picture : outputNo'[q] \in {outputNo[q], outputCntr}
  BY <1>1, <1>2 DEF TypeOK, BufferTypeOK
<1>4. \A q \in Shown : outputNo'[q] # NotOutput
  BY <1>2, <1>3 DEF Shown
<1> QED
  BY <1>1, <1>3, <1>4 DEF KeepsWaiting, curr

(* Steps that add no picture to those that wait.                           *)
LossFrame ==
    /\ pic' = pic /\ waiting' \subseteq waiting /\ KeepsWaiting
    /\ UNCHANGED <<nal, cvs, au, cpb>>
    /\ pc' \notin {"pps", "output", "header"} \/ (pc' = pc /\ soCVS' = soCVS)
    /\ nal = EndOfStream => pc' \in {"store", "flush", "done", "aborted"}
    /\ waiting' = {} \/ pc' = "aborted" \/ (pc # "aborted" /\ (Between <=> Between'))

LEMMA LossKept ==
    ASSUME TypeOK, LossInv, LossFrame
    PROVE  LossInv'
<1>1. Created' = Created /\ curr' = curr
  BY DEF LossFrame, Created, curr
<1>2. WaitingSequence'
  <2>1. pc' = "aborted" => ~Between'
    BY DEF Between
  <2>2. \A p \in waiting' : p \in waiting /\ pic'[p] = pic[p]
    BY DEF LossFrame
  <2> QED
    BY <2>1, <2>2 DEF LossFrame, LossInv, WaitingSequence
<1>3. PriorAgrees'
  BY <1>1 DEF LossFrame, LossInv, PriorAgrees
<1>4. NothingLost'
  BY NothingLostKept, SamePicFlags DEF LossFrame, LossInv
<1> QED
  BY <1>2, <1>3, <1>4 DEF LossInv

LEMMA LossBump ==
    ASSUME TypeOK, AUInv, LossInv, StoreBump \/ FlushBump \/ UpdateBump
    PROVE  LossInv'
<1>1. /\ pc \in {"store", "flush", "update"}
      /\ UNCHANGED <<pic, nal, cvs, au, cpb, soCVS>>
      /\ \/ Bump /\ pc' = pc
         \/ pc # "store" /\ pc' = "aborted" /\ UNCHANGED dpbVars
         \/ pc = "update" /\ pc' = "ctus" /\ UNCHANGED dpbVars
  BY Zenon DEF StoreBump, FlushBump, UpdateBump, GuardedBump
<1>2. KeepsWaiting /\ waiting' \subseteq waiting
  <2>1. CASE Bump /\ pc' = pc
    BY <1>1, <2>1, BumpKeepsWaiting
  <2>2. CASE UNCHANGED dpbVars
    BY <1>1, <2>2 DEF dpbVars, KeepsWaiting, Shown, curr
  <2> QED
    BY <1>1, <2>1, <2>2
<1>3. LossFrame
  BY <1>1, <1>2 DEF LossFrame, LossInv, WaitingSequence, Between
<1> QED
  BY <1>3, LossKept

LEMMA LossStays ==
    ASSUME TypeOK, AUInv, LossInv,
           \/ EndOfSequence \/ StoreDone \/ Flushed \/ FinishPicture \/ LoseSlices
           \/ LastFlush \/ Finish \/ UNCHANGED vars
    PROVE  LossInv'
<1>1. UNCHANGED <<pic, waiting, outputNo, nal, cvs, au, cpb>>
  BY DEF EndOfSequence, StoreDone, Flushed, FinishPicture, LoseSlices, LastFlush, Finish,
         Clear, vars, dpbVars
<1>2. KeepsWaiting
  BY <1>1 DEF KeepsWaiting, Shown, curr
<1>3. CASE UNCHANGED vars
  BY <1>3 DEF vars, LossInv, NewNumber, WaitingSequence, PriorAgrees, NothingLost, Created, curr,
              Between
<1>4. CASE ~UNCHANGED vars
  <2>1. LossFrame
    BY <1>1, <1>2, <1>4 DEF LossFrame, LossInv, WaitingSequence, Between, EndOfSequence, StoreDone,
       Flushed, FinishPicture, LoseSlices, LastFlush, Finish
  <2> QED
    BY <2>1, LossKept
<1> QED
  BY <1>3, <1>4

-------------------------------------------------------------------------------
LEMMA LossClose ==
    ASSUME TypeOK, AUInv, NumberInv, LossInv,
           FirstSliceSegment \/ AccessUnitDelimiter \/ EndOfBitstream
    PROVE  LossInv'
<1>1. /\ pc = "nal" /\ pic' = pic /\ cvs' = cvs /\ au' = au
      /\ Leaving
      /\ pc' \in {"store", "au"} \/ (pc' = "flush" /\ nal' = EndOfStream)
      /\ nal' = EndOfStream => pc' \in {"store", "flush"}
  BY Closes
<1>2. waiting' = waiting \/ (cpb = "picture" /\ pic[curr].out /\ waiting' = waiting \cup {curr})
  BY <1>1, Zenon DEF Leaving, EmplaceBack
<1>3. KeepsWaiting
  <2>1. outputNo' = outputNo
    BY <1>1, Zenon DEF Leaving, EmplaceBack
  <2>2. cpb = "picture" => ~pic[curr].out \/ isRASL(pic[curr].nut) \/ curr \in waiting'
    BY <1>1, Zenon DEF Leaving, EmplaceBack
  <2> QED
    BY <1>2, <2>1, <2>2 DEF KeepsWaiting, Shown
<1>4. \A p \in waiting' : pic'[p].cvs = cvs'
  BY <1>1, <1>2 DEF LossInv, WaitingSequence, Between, NumberInv, Numbered
<1>5. WaitingSequence' /\ PriorAgrees'
  BY <1>1, <1>4 DEF WaitingSequence, PriorAgrees, Between
<1> QED
  BY <1>1, <1>3, <1>5, NothingLostKept, SamePicFlags DEF LossInv

LEMMA LossOpen ==
    ASSUME TypeOK, AUInv, LossInv, OpenAU
    PROVE  LossInv'
<1>1. /\ pc = "au" /\ pc' = (IF nal = Aud THEN "nal" ELSE "pps")
      /\ cpb # "picture" /\ cpb' = "opened" /\ nal # EndOfStream
      /\ au' = (IF cpb = "empty" THEN au + 1 ELSE au)
      /\ cvs' = (IF StartsCvs(nal.nut) THEN cvs + 1 ELSE cvs)
      /\ UNCHANGED <<pic, waiting, outputNo, nal>>
  BY Zenon DEF OpenAU, dpbVars, AUInv
<1>2. cvs \in Nat
  BY DEF TypeOK
<1>3. WaitingSequence'
  <2>1. \A p \in waiting : pic[p].cvs = cvs
    BY <1>1 DEF LossInv, WaitingSequence, Between
  <2>2. Between' <=> StartsCvs(nal.nut)
    <3>1. ~StartsCvs(Aud.nut)
      BY DEF Aud, NonVcl, AUD_NUT, StartsCvs, isIDR, isBLA, isCRA, IDR_W_RADL, IDR_N_LP,
             BLA_W_LP, BLA_N_LP, CRA_NUT
    <3> QED
      BY <1>1, <3>1 DEF Between
  <2> QED
    BY <1>1, <1>2, <2>1, <2>2 DEF WaitingSequence
<1>4. PriorAgrees'
  BY <1>1 DEF PriorAgrees
<1>5. KeepsWaiting
  BY <1>1 DEF KeepsWaiting, Shown
<1>6. NothingLost'
  BY <1>1, <1>5, NothingLostKept, SamePicFlags DEF LossInv
<1> QED
  BY <1>3, <1>4, <1>6 DEF LossInv

(* The picture is created in the CPB: it replaces none.                    *)
LEMMA LossCreate ==
    ASSUME TypeOK, AUInv, PocInv, NumberInv, LossInv, SlicePicParameterSetId
    PROVE  LossInv'
<1>1. /\ cpb = "opened" /\ cpb' = "picture" /\ pc = "pps" /\ pc' = "output"
      /\ UNCHANGED <<waiting, outputNo, nal, cvs, soCVS>>
      /\ curr \in Picture /\ curr' = curr
      /\ \A p \in Picture : p # curr => pic'[p] = pic[p]
      /\ pic'[curr] = NewPicture
      /\ curr \notin Created /\ Created' = Created \cup {curr}
  BY Creates
<1>2. NewPicture.noPrior = nal.noPrior
  BY DEF NewPicture
<1>3. \A p \in Created : pic'[p] = pic[p] /\ p # curr
  BY <1>1, NewNumber
<1>4. nal # Aud /\ nal # EndOfStream /\ (StartsCvs(nal.nut) => soCVS)
  BY <1>1, HeaderNal DEF PocInv, HeaderAgrees
<1>5. WaitingSequence'
  <2>1. Between' <=> Between
    BY <1>1, <1>4 DEF Between
  <2>2. \A p \in waiting : pic'[p] = pic[p]
    BY <1>3, NewNumber
  <2> QED
    BY <1>1, <1>4, <2>1, <2>2 DEF LossInv, WaitingSequence
<1>6. PriorAgrees'
  BY <1>1, <1>2, <1>4 DEF PriorAgrees
<1>7. NothingLost'
  BY <1>1, <1>3 DEF LossInv, NothingLost
<1> QED
  BY <1>5, <1>6, <1>7 DEF LossInv

LEMMA LossOutputFlag ==
    ASSUME TypeOK, AUInv, PocInv, LossInv, PicOutputFlag
    PROVE  LossInv'
<1>1. /\ pc = "output" /\ cpb = "picture" /\ pc' \in {"header", "aborted"}
      /\ pic' = pic \/ \E b \in BOOLEAN : pic' = [pic EXCEPT ![curr].out = b]
      /\ UNCHANGED <<waiting, outputNo, nal, cvs, au, cpb, soCVS>>
  BY Zenon DEF PicOutputFlag, dpbVars, AUInv
<1>2. curr \in Picture /\ curr' = curr
  BY <1>1, CurrType DEF curr
<1>3. \A p \in Picture : /\ pic'[p].nut = pic[p].nut /\ pic'[p].cvs = pic[p].cvs
                         /\ pic'[p].noPrior = pic[p].noPrior
                         /\ p # curr => pic'[p].out = pic[p].out
  BY <1>1, <1>2 DEF TypeOK, PictureType
<1>4. Created' = Created /\ Created \subseteq Picture /\ waiting \subseteq Picture
  BY <1>3 DEF Created, TypeOK, BufferTypeOK
<1>5. nal # EndOfStream
  BY <1>1, HeaderNal
<1>6. WaitingSequence'
  BY <1>1, <1>3, <1>4, <1>5 DEF LossInv, WaitingSequence, Between
<1>7. PriorAgrees'
  BY <1>1, <1>2, <1>3 DEF LossInv, PriorAgrees
<1>8. NothingLost'
  BY <1>1, <1>2, <1>3, <1>4 DEF LossInv, NothingLost
<1> QED
  BY <1>6, <1>7, <1>8 DEF LossInv

(* The header of the first picture of a sequence may drop what waits: the  *)
(* pictures of the sequence before.                                        *)
LEMMA LossHeader ==
    ASSUME TypeOK, AUInv, PocInv, NumberInv, LossInv, SliceSegmentHeader
    PROVE  LossInv'
<1>1. /\ pc = "header" /\ cpb = "picture"
      /\ UNCHANGED <<outputNo, nal, cvs, au, cpb, soCVS>>
      /\ pic' = [p \in Picture |-> IF p = curr THEN [pic[p] EXCEPT !.poc = currPoc]
                                   ELSE [pic[p] EXCEPT !.ref = Marking[p]]]
      /\ \/ pc' = "aborted" /\ waiting' = waiting
         \/ StartOfSequence /\ soCVS /\ DropsPrior /\ pc' = "update" /\ waiting' = {}
         \/ /\ pc' = (IF StartOfSequence /\ soCVS THEN "flush" ELSE "update")
            /\ waiting' = waiting
  BY Zenon DEF SliceSegmentHeader, Clear, AUInv
<1>2. /\ nal # Aud /\ nal # EndOfStream /\ (StartsCvs(nal.nut) <=> isIRAP(nal.nut))
      /\ pic[curr].nut = nal.nut
  BY <1>1, HeaderNal DEF PocInv, HeaderAgrees
<1>3. StartsCvs(nal.nut) <=> StartOfSequence /\ soCVS
  BY <1>1, <1>2 DEF LossInv, PriorAgrees, PocInv, HeaderAgrees, StartOfSequence
<1>4. curr \in Picture /\ curr' = curr
  BY <1>1, CurrType DEF curr
<1>5. SameFlags
  BY <1>1 DEF SameFlags, TypeOK, PictureType
<1>6. Created' = Created /\ waiting \subseteq Picture /\ waiting' \subseteq waiting
  BY <1>1, <1>5 DEF Created, SameFlags, TypeOK, BufferTypeOK
<1>7. PriorAgrees'
  BY <1>1 DEF PriorAgrees
<1>8. WaitingSequence'
  <2>1. Between <=> StartsCvs(nal.nut)
    BY <1>1 DEF Between
  <2>2. Between' <=> pc' = "flush"
    BY <1>1, <1>2 DEF Between
  <2>3. \/ pc' = "aborted" \/ waiting' = {}
        \/ pc' = (IF StartsCvs(nal.nut) THEN "flush" ELSE "update")
    BY <1>1, <1>3
  <2>4. \A p \in waiting' : p \in waiting /\ pic'[p].cvs = pic[p].cvs
    BY <1>5, <1>6 DEF SameFlags
  <2> QED
    BY <1>1, <1>2, <2>1, <2>2, <2>3, <2>4 DEF LossInv, WaitingSequence
<1>9. CASE waiting' = waiting
  BY <1>1, <1>4, <1>5, <1>7, <1>8, <1>9, NothingLostKept DEF LossInv, KeepsWaiting, Shown
<1>10. CASE StartOfSequence /\ soCVS /\ DropsPrior
  <2>1. \A p \in waiting : pic[p].cvs + 1 = cvs
    BY <1>1, <1>3, <1>10 DEF LossInv, WaitingSequence, Between
  <2>2. pic[curr].cvs = cvs /\ (isCRA(pic[curr].nut) \/ pic[curr].noPrior)
    BY <1>1, <1>2, <1>10 DEF NumberInv, Numbered, LossInv, PriorAgrees, DropsPrior
  <2>3. \A p \in Picture : pic[p].cvs \in Nat
    BY DEF TypeOK, PictureType
  <2>4. \A p \in waiting : curr \in Created /\ pic[curr].cvs = pic[p].cvs + 1
    BY <1>4, <1>6, <2>1, <2>2, <2>3 DEF Created
  <2>5. NothingLost'
    <3> SUFFICES ASSUME NEW p \in Created
                 PROVE  \/ ~pic[p].out \/ isRASL(pic[p].nut)
                        \/ outputNo[p] # NotOutput
                        \/ p \in waiting'
                        \/ p = curr /\ cpb = "picture"
                        \/ \E q \in Created : /\ pic[q].cvs = pic[p].cvs + 1
                                              /\ isCRA(pic[q].nut) \/ pic[q].noPrior
      BY <1>1, <1>4, <1>5, <1>6 DEF NothingLost, SameFlags, Created
    <3>1. CASE p \in waiting
      BY <2>2, <2>4, <3>1
    <3>2. CASE p \notin waiting
      BY <3>2 DEF LossInv, NothingLost
    <3> QED
      BY <3>1, <3>2
  <2> QED
    BY <1>7, <1>8, <2>5 DEF LossInv
<1> QED
  BY <1>1, <1>9, <1>10

(* No picture that is to be output is lost, for every number of access     *)
(* units, buffer capacity, reordering depth and latency, also when the     *)
(* encoder keeps only the rules of the standard: it was output, waits, is  *)
(* still in the CPB, or the next sequence drops it as its header says      *)
(* (State.cpp:722-741, DPB.cpp:85-145).                                    *)
THEOREM NothingIsLost == Spec => []NothingLost
<1>1. Init => PocInv /\ NumberInv /\ LossInv
  BY PocInit, NumberInit, LossInit
<1>2. TypeOK /\ AUInv /\ PocInv /\ NumberInv /\ LossInv /\ [Next]_vars => LossInv'
  <2> SUFFICES ASSUME TypeOK, AUInv, PocInv, NumberInv, LossInv, [Next]_vars
               PROVE  LossInv'
    OBVIOUS
  <2>1. CASE UNCHANGED vars \/ Terminated
    BY <2>1, LossStays DEF Terminated
  <2> QED
    BY <2>1, LossClose, LossOpen, LossCreate, LossOutputFlag, LossHeader, LossBump, LossStays,
       Zenon DEF Next
<1>3. TypeOK /\ AUInv /\ PocInv /\ NumberInv /\ [Next]_vars => PocInv' /\ NumberInv'
  BY PocStep, NumberStep
<1>4. LossInv => NothingLost
  BY DEF LossInv
<1> QED
  BY <1>1, <1>2, <1>3, <1>4, TypeCorrect, PTL DEF Spec

-------------------------------------------------------------------------------
(* The loops end.  Only as many pictures as there are access units can     *)
(* wait, and each iteration of a bumping loop is one fewer.                *)
LEMMA WaitingSize ==
    ASSUME TypeOK
    PROVE  /\ IsFiniteSet(waiting) /\ Cardinality(waiting) \in Nat
           /\ Cardinality(waiting) = 0 <=> waiting = {}
<1>1. waiting \subseteq Picture
  BY DEF TypeOK, BufferTypeOK
<1>2. IsFiniteSet(waiting)
  BY <1>1, PictureFinite, FS_Subset
<1> QED
  BY <1>2, FS_CardinalityType, FS_EmptySet

(* bump() never finds nothing to output when a loop calls it: where it is  *)
(* called for an overflow a picture waits.                                 *)
LEMMA OverflowWaits ==
    ASSUME TypeOK, Overflow
    PROVE  waiting # {}
<1>1. Cardinality({}) = 0
  BY FS_EmptySet
<1>2. limits.reorder \in Nat
  BY DEF TypeOK, BufferTypeOK, Limits
<1> QED
  BY <1>1, <1>2 DEF Overflow, reorderOverflow, latencyOverflow

LEMMA BumpOutputs ==
    ASSUME TypeOK, Bump
    PROVE  Cardinality(waiting') < Cardinality(waiting)
<1>1. PICK p \in waiting : waiting' = waiting \ {p}
  BY Zenon DEF Bump
<1>2. IsFiniteSet(waiting) /\ Cardinality(waiting) \in Nat
  BY WaitingSize
<1>3. Cardinality(waiting') = Cardinality(waiting) - 1
  BY <1>1, <1>2, FS_RemoveElement
<1> QED
  BY <1>2, <1>3

(* The hooks in order.                                                     *)
LEMMA HooksAre ==
    /\ pc = "store" => HooksLeft = 9
    /\ pc = "au" => HooksLeft = 8
    /\ pc = "pps" => HooksLeft = 7
    /\ pc = "output" => HooksLeft = 6
    /\ pc = "header" => HooksLeft = 5
    /\ pc = "flush" => HooksLeft = 4
    /\ pc = "update" => HooksLeft = 3
    /\ pc = "ctus" => HooksLeft = 2
    /\ pc = "nal" => HooksLeft = 1
    /\ pc = "done" => HooksLeft = 0
    /\ pc = "aborted" => HooksLeft = 0
    /\ pc' = "store" => HooksLeft' = 9
    /\ pc' = "au" => HooksLeft' = 8
    /\ pc' = "pps" => HooksLeft' = 7
    /\ pc' = "output" => HooksLeft' = 6
    /\ pc' = "header" => HooksLeft' = 5
    /\ pc' = "flush" => HooksLeft' = 4
    /\ pc' = "update" => HooksLeft' = 3
    /\ pc' = "ctus" => HooksLeft' = 2
    /\ pc' = "nal" => HooksLeft' = 1
    /\ pc' = "done" => HooksLeft' = 0
    /\ pc' = "aborted" => HooksLeft' = 0
BY DEF HooksLeft

(* Between two NAL units every step of the decoder is one to a later hook, *)
(* or outputs a picture that waits: the bumping loops of emplaceBack,      *)
(* flush and updateDPB end, whatever the limits and the marking.           *)
THEOREM EveryStepIsAdvance == Spec => EveryStepAdvances
<1> DEFINE Advance == pc # "nal" => \/ HooksLeft' < HooksLeft
                                   \/ /\ HooksLeft' = HooksLeft
                                      /\ Cardinality(waiting') < Cardinality(waiting)
<1>1. TypeOK /\ [Next]_vars => [Advance]_vars
  <2> SUFFICES ASSUME TypeOK, Next, pc # "nal", ~(UNCHANGED vars) PROVE Advance
    OBVIOUS
  <2>1. CASE StoreBump
    BY <2>1, BumpOutputs DEF StoreBump, HooksLeft
  <2>2. CASE FlushBump \/ UpdateBump
    <3>1. \/ Bump /\ pc' = pc
          \/ pc \in {"flush", "update"} /\ pc' = "aborted"
          \/ pc = "update" /\ pc' = "ctus"
      BY <2>2, Zenon DEF FlushBump, UpdateBump, GuardedBump
    <3>2. CASE Bump /\ pc' = pc
      BY <3>2, BumpOutputs DEF HooksLeft
    <3> QED
      BY <3>1, <3>2, HooksAre
  <2>3. CASE StoreDone \/ OpenAU \/ SlicePicParameterSetId
    <3>1. \/ pc = "store" /\ pc' = "au"
          \/ pc = "au" /\ pc' \in {"nal", "pps"}
          \/ pc = "pps" /\ pc' = "output"
      BY <2>3, Zenon DEF StoreDone, OpenAU, SlicePicParameterSetId
    <3> QED
      BY <3>1, HooksAre
  <2>4. CASE PicOutputFlag \/ SliceSegmentHeader
    <3>1. \/ pc = "output" /\ pc' \in {"header", "aborted"}
          \/ pc = "header" /\ pc' \in {"flush", "update", "aborted"}
      BY <2>4, Zenon DEF PicOutputFlag, SliceSegmentHeader
    <3> QED
      BY <3>1, HooksAre
  <2>5. CASE Flushed \/ FinishPicture \/ LoseSlices \/ LastFlush \/ Finish
    <3>1. \/ pc = "flush" /\ pc' \in {"update", "done"}
          \/ pc = "ctus" /\ pc' = "nal"
          \/ pc = "store" /\ pc' = "flush"
      BY <2>5, Zenon DEF Flushed, FinishPicture, LoseSlices, LastFlush, Finish
    <3> QED
      BY <3>1, HooksAre
  <2>6. CASE FirstSliceSegment \/ AccessUnitDelimiter \/ EndOfSequence \/ EndOfBitstream
    BY <2>6, Zenon DEF FirstSliceSegment, AccessUnitDelimiter, EndOfSequence, EndOfBitstream
  <2>7. CASE Terminated
    BY <2>7, Zenon DEF Terminated
  <2> QED
    BY <2>1, <2>2, <2>3, <2>4, <2>5, <2>6, <2>7, Zenon DEF Next
<1> QED
  BY <1>1, TypeCorrect, PTL DEF Spec, EveryStepAdvances
===============================================================================

----------------------------- MODULE MarkingProofs -----------------------------
(***************************************************************************)
(* The decoder marks the pictures the encoder may refer to.  The argument: *)
(* within a sequence no two pictures have the same POC, and the buffer     *)
(* holds pictures of one sequence, so an entry of a reference picture set  *)
(* finds the one picture it names; what the entries name is what the       *)
(* encoder kept, and every other picture becomes unused for reference.     *)
(***************************************************************************)
EXTENDS DecoderProofs

(* The number of the picture being received or decoded.                    *)
coming == IF cpb = "empty" THEN au ELSE curr

(* The buffer holds pictures of one sequence: the current one, but between *)
(* the header that begins a sequence and the end of the flush.             *)
OneSequence ==
    /\ \A p, q \in dpb : pic[p].cvs = pic[q].cvs
    /\ ~Between /\ pc # "aborted" => \A p \in dpb : pic[p].cvs = cvs
    /\ pc \in {"pps", "output", "header"} /\ StartsCvs(nal.nut) => soCVS
    /\ nal = EndOfStream => pc \in {"store", "flush", "done", "aborted"}

Held == {p \in dpb : pic[p].ref # "Unused"}
HeldLong == {p \in dpb : pic[p].ref = "LongTerm"}

(* The marking and the encoder's references are in step.                   *)
Settled ==
    \/ pc \in {"nal", "update", "ctus"}
    \/ pc = "flush" /\ nal # EndOfStream
    \/ pc \in {"store", "au"} /\ nal = Aud
    \/ Received /\ isRASL(nal.nut)
InStep ==
    Settled =>
        /\ Held = refs \ {coming}
        /\ HeldLong = ltRefs
        /\ coming \in refs <=> cpb = "picture" /\ ~isRASL(pic[curr].nut)

(* A long-term entry of the header names a picture.                        *)
Names(l, q) ==
    /\ l = LtEntry(q, nal.truth, l.msb)
    /\ ~l.msb => \A x \in dpb \ {q} : Lsb(pic[x].truth) # Lsb(pic[q].truth)

(* The header's reference picture set is what the encoder kept.            *)
Kept ==
    /\ refs \ {coming} \subseteq Held
    /\ nal.st = {pic[q].truth - nal.truth : q \in (refs \ {coming}) \ ltRefs}
    /\ \A l \in nal.lt : \E q \in ltRefs : Names(l, q)
    /\ \A q \in ltRefs : \E l \in nal.lt : Names(l, q)
KeptNothing ==
    /\ refs \ {coming} = {}
    /\ nal.lt = {}
    /\ isBLA(nal.nut) => nal.st = {}
Announced ==
    Received /\ ~isRASL(nal.nut) =>
        /\ coming \in refs /\ coming \notin ltRefs
        /\ IF StartsCvs(nal.nut) THEN KeptNothing ELSE Kept

(* The flush that ends a sequence finds no reference.                      *)
FlushedAll == pc = "flush" /\ nal # EndOfStream => Held = {}
Needed == pc # "aborted" => \A p \in dpb : p \in waiting \/ p \in Held

IdentityInv == NumberInv /\ OneSequence
MarkingInv == InStep /\ Announced /\ FlushedAll /\ Needed

LEMMA MarkingInit == Init => IdentityInv /\ MarkingInv
<1> SUFFICES ASSUME Init PROVE IdentityInv /\ MarkingInv
  OBVIOUS
<1>1. /\ dpb = {} /\ refs = {} /\ ltRefs = {} /\ cpb = "empty" /\ pc = "nal" /\ nal = Aud /\ cvs = 0
      /\ Created = {}
  BY DEF Init, Created, NoPicture, Picture
<1>2. Aud # EndOfStream
  BY DEF Aud, EndOfStream, NonVcl, AUD_NUT
<1>3. IdentityInv
  BY <1>1, <1>2, NumberInit DEF IdentityInv, OneSequence
<1>4. MarkingInv
  BY <1>1, <1>2 DEF MarkingInv, InStep, Announced, FlushedAll, Needed, Received, Held, HeldLong, coming
<1> QED
  BY <1>3, <1>4

-------------------------------------------------------------------------------
(* Closing an access unit: the picture of the CPB, or none, joins the      *)
(* buffer.                                                                 *)
Closed ==
    /\ pc' \in {"store", "au"}
    /\ \/ /\ cpb = "picture" /\ ~isRASL(pic[curr].nut) /\ cpb' = "empty"
          /\ dpb' = dpb \cup {curr} /\ waiting \subseteq waiting'
       \/ /\ cpb # "picture" \/ isRASL(pic[curr].nut)
          /\ cpb' \in {"empty", cpb} /\ cpb' # "picture"
          /\ dpb' = dpb /\ waiting' = waiting

LEMMA CloseAUClosed ==
    ASSUME TypeOK, NEW tid, CloseAU(tid)
    PROVE  Closed /\ (tid # -1 => coming' = IF cpb = "opened" THEN au' - 1 ELSE au')
<1>1. Closed
  BY Zenon DEF CloseAU, Closed, EmplaceBack, dpbVars, TypeOK
<1>2. cpb' = IF cpb = "picture" THEN "empty" ELSE IF tid = -1 THEN "empty" ELSE cpb
  BY Zenon DEF CloseAU
<1> QED
  BY <1>1, <1>2 DEF coming, curr, TypeOK

LEMMA ClosedIdentity ==
    ASSUME TypeOK, AUInv, IdentityInv, pc = "nal", Closed,
           pic' = pic, cvs' = cvs, au' = au
    PROVE  /\ dpb' \subseteq Created /\ coming' \notin Created
           /\ Created' = Created /\ InCvs' = InCvs
           /\ \A p \in dpb' : pic[p].cvs = cvs
           /\ \A p \in Created : p < au
           /\ cpb' = "opened" => pic[curr].cvs = 0
<1>1. Created' = Created /\ InCvs' = InCvs
  BY DEF Created, InCvs
<1>2. nal = EndOfStream => FALSE
  BY DEF IdentityInv, OneSequence
<1>3. \A p \in dpb : pic[p].cvs = cvs
  BY DEF IdentityInv, OneSequence, Between
<1>4. cpb = "picture" => curr \in Created /\ pic[curr].cvs = cvs
  BY CurrType DEF IdentityInv, NumberInv, Numbered, Created, TypeOK
<1>5. dpb' \subseteq Created /\ \A p \in dpb' : pic[p].cvs = cvs
  BY <1>3, <1>4 DEF Closed, IdentityInv, NumberInv, Numbered
<1>6. \A p \in Created : p < au
  BY DEF IdentityInv, NumberInv, Numbered
<1>7. cpb' = "opened" => cpb = "opened" /\ pic[curr].cvs = 0
  BY DEF Closed, IdentityInv, NumberInv, Numbered
<1>8. coming' \notin Created
  <2>1. au \in Int
    BY MaxAUAssumption DEF TypeOK
  <2>2. CASE cpb' = "empty"
    BY <1>6, <2>1, <2>2 DEF coming
  <2>3. CASE cpb' = "opened"
    BY <1>7, <2>1, <2>3 DEF coming, curr, Created
  <2> QED
    BY <2>2, <2>3 DEF Closed, TypeOK
<1> QED
  BY <1>1, <1>5, <1>6, <1>7, <1>8

-------------------------------------------------------------------------------
(* What the encoder sends, seen from its references.                       *)
SentIrap ==
    /\ isIRAP(nal'.nut)
    /\ refs' = {nextNo} /\ ltRefs' = {} /\ nal'.lt = {}
    /\ isBLA(nal'.nut) => nal'.st = {}
SentRasl == isRASL(nal'.nut) /\ UNCHANGED <<refs, ltRefs>>
SentInter ==
    /\ ~isIRAP(nal'.nut) /\ ~isRASL(nal'.nut)
    /\ \E kept \in SUBSET refs : \E long \in SUBSET kept, byLsb \in SUBSET kept :
        /\ refs' = kept \cup {nextNo} /\ ltRefs' = long
        /\ nal'.st = {pic[q].truth - nal'.truth : q \in kept \ long}
        /\ nal'.lt = {LtEntry(q, nal'.truth, q \notin byLsb) : q \in long}
        /\ \A q \in byLsb : LsbNames(q)
SentSet ==
    /\ nal'.nut \in Nuts /\ nal'.tid \in Nat
    /\ SentIrap \/ SentRasl \/ SentInter
    /\ ~isIRAP(nal'.nut) => cvs > 0 /\ \A q \in InCvs : pic[q].truth # nal'.truth

LEMMA SendSets ==
    ASSUME CodeRules, TypeOK, AUInv, SendPicture
    PROVE  SentSet
<1>1. nal'.nut \in Nuts /\ nal'.tid \in Nat
  BY SendPictureType DEF Sent
<1>2. CASE SendIrap
  <2>1. PICK nut \in {t \in Nuts : isIRAP(t)}, sps \in SpsChoices, f \in OutFlags :
          \E truth \in IrapTruths(nut), noPrior \in NoPriorFlags(nut), foll \in IrapSets(nut) :
              SendIrapAs(nut, sps, f, truth, noPrior, foll)
    BY <1>2, Zenon DEF SendIrap
  <2>2. PICK truth \in IrapTruths(nut), noPrior \in NoPriorFlags(nut), foll \in IrapSets(nut) :
          SendIrapAs(nut, sps, f, truth, noPrior, foll)
    BY <2>1, Zenon
  <2>3. nal'.nut = nut /\ nal'.st = foll /\ nal'.lt = {} /\ refs' = {nextNo} /\ ltRefs' = {}
    BY <2>2 DEF SendIrapAs
  <2>4. isBLA(nut) => foll = {}
    BY <2>2 DEF IrapSets
  <2>5. SentIrap /\ isIRAP(nal'.nut)
    BY <2>1, <2>3, <2>4 DEF SentIrap
  <2> QED
    BY <1>1, <2>5 DEF SentSet
<1>3. CASE SendRasl
  <2>1. PICK nut \in {t \in Nuts : isRASL(t)}, tid \in Tids, f \in OutFlags, d \in PocReach :
          SendRaslAs(nut, tid, f, encTid0 + d)
    BY <1>3, Zenon DEF SendRasl
  <2>2. /\ nal'.nut = nut /\ nal'.truth = encTid0 + d /\ UNCHANGED <<refs, ltRefs>>
        /\ MayFollow(nut, encTid0 + d)
    BY <2>1 DEF SendRaslAs
  <2>3. SentRasl
    BY <2>1, <2>2 DEF SentRasl
  <2> QED
    BY <1>1, <2>2, <2>3 DEF SentSet, MayFollow
<1>4. CASE SendInter
  <2>1. PICK nut \in {t \in Nuts : ~isIRAP(t) /\ ~isRASL(t)}, tid \in Tids, f \in OutFlags,
           d \in PocReach, kept \in SUBSET refs :
      \E long \in LongSets(kept) :
      \E byLsb \in SUBSET {q \in long : LsbNames(q)} :
          SendInterAs(nut, tid, f, encTid0 + d, kept, long, byLsb)
    BY <1>4, Zenon DEF SendInter
  <2>2. PICK long \in LongSets(kept) :
      \E byLsb \in SUBSET {q \in long : LsbNames(q)} :
          SendInterAs(nut, tid, f, encTid0 + d, kept, long, byLsb)
    BY <2>1, Zenon
  <2>3. PICK byLsb \in SUBSET {q \in long : LsbNames(q)} :
          SendInterAs(nut, tid, f, encTid0 + d, kept, long, byLsb)
    BY <2>2, Zenon
  <2>4. /\ nal'.nut = nut /\ nal'.truth = encTid0 + d
        /\ nal'.st = {pic[q].truth - (encTid0 + d) : q \in kept \ long}
        /\ nal'.lt = {LtEntry(q, encTid0 + d, q \notin byLsb) : q \in long}
        /\ refs' = kept \cup {nextNo} /\ ltRefs' = long
        /\ MayFollow(nut, encTid0 + d)
    BY <2>3 DEF SendInterAs
  <2>5. long \in SUBSET kept /\ byLsb \in SUBSET kept /\ \A q \in byLsb : LsbNames(q)
    BY DEF LongSets
  <2>6. /\ nal'.st = {pic[q].truth - nal'.truth : q \in kept \ long}
        /\ nal'.lt = {LtEntry(q, nal'.truth, q \notin byLsb) : q \in long}
    BY <2>4, Zenon
  <2>7. ~isIRAP(nal'.nut) /\ ~isRASL(nal'.nut)
    BY <2>1, <2>4
  <2>8. SentInter
    BY <2>4, <2>5, <2>6, <2>7, Zenon DEF SentInter
  <2> QED
    BY <1>1, <2>4, <2>8 DEF SentSet, MayFollow
<1> QED
  BY <1>2, <1>3, <1>4 DEF SendPicture

(* After the access unit is closed, what the buffer holds is what the      *)
(* encoder referred to before it sent the next header.                     *)
LEMMA ClosedMarking ==
    ASSUME TypeOK, AUInv, IdentityInv, MarkingInv, pc = "nal", Closed,
           pic' = pic, cvs' = cvs, au' = au
    PROVE  /\ Held' = refs /\ HeldLong' = ltRefs /\ coming' \notin refs
           /\ Needed'
<1>1. /\ Held = refs \ {coming} /\ HeldLong = ltRefs
      /\ coming \in refs <=> cpb = "picture" /\ ~isRASL(pic[curr].nut)
  BY DEF MarkingInv, InStep, Settled
<1>2. cpb = "picture" => coming = curr /\ pic[curr].ref = "ShortTerm"
  BY DEF IdentityInv, NumberInv, Numbered, coming
<1>3. Held' = refs /\ HeldLong' = ltRefs
  BY <1>1, <1>2 DEF Closed, Held, HeldLong
<1>4. Needed'
  BY <1>2, <1>3 DEF Closed, MarkingInv, Needed, Held
<1>5. coming' \notin refs
  BY <1>3, ClosedIdentity DEF Held
<1> QED
  BY <1>3, <1>4, <1>5

LEMMA IdentitySend ==
    ASSUME CodeRules, TypeOK, AUInv, IdentityInv, FirstSliceSegment
    PROVE  IdentityInv'
<1>1. /\ pc = "nal" /\ SendPicture /\ CloseAU(nal'.tid)
      /\ pic' = pic /\ cvs' = cvs /\ au' = au
  BY DEF FirstSliceSegment
<1>2. SentSet
  BY <1>1, SendSets
<1>3. Closed
  BY <1>1, CloseAUClosed
<1>4. \A p \in dpb' : pic[p].cvs = cvs
  BY <1>1, <1>3, ClosedIdentity
<1>5. nal' # EndOfStream /\ pc' \in {"store", "au"}
  BY <1>2, <1>3, BitstreamAssumption DEF SentSet, EndOfStream, NonVcl, RSV_VCL31, Closed
<1>6. OneSequence'
  BY <1>1, <1>4, <1>5 DEF OneSequence
<1> QED
  BY <1>6, NumberClose DEF IdentityInv

(* The header of a picture that is sent names what the encoder keeps.      *)
LEMMA InterKept ==
    ASSUME CodeRules, TypeOK, AUInv, IdentityInv, MarkingInv, FirstSliceSegment, SentInter,
           nal'.tid \in Nat
    PROVE  coming' \in refs' /\ coming' \notin ltRefs' /\ Kept'
<1>1. /\ pc = "nal" /\ CloseAU(nal'.tid) /\ pic' = pic /\ cvs' = cvs /\ au' = au
  BY DEF FirstSliceSegment
<1>2. Closed /\ coming' = nextNo
  BY <1>1, CloseAUClosed DEF nextNo, curr
<1>3. Held' = refs /\ coming' \notin refs
  BY <1>1, <1>2, ClosedMarking
<1>4. PICK kept \in SUBSET refs : \E long \in SUBSET kept, byLsb \in SUBSET kept :
        /\ refs' = kept \cup {nextNo} /\ ltRefs' = long
        /\ nal'.st = {pic[q].truth - nal'.truth : q \in kept \ long}
        /\ nal'.lt = {LtEntry(q, nal'.truth, q \notin byLsb) : q \in long}
        /\ \A q \in byLsb : LsbNames(q)
  BY Zenon DEF SentInter
<1>5. PICK long \in SUBSET kept, byLsb \in SUBSET kept :
        /\ refs' = kept \cup {nextNo} /\ ltRefs' = long
        /\ nal'.st = {pic[q].truth - nal'.truth : q \in kept \ long}
        /\ nal'.lt = {LtEntry(q, nal'.truth, q \notin byLsb) : q \in long}
        /\ \A q \in byLsb : LsbNames(q)
  BY <1>4, Zenon
<1>6. refs' \ {coming'} = kept /\ coming' \notin ltRefs'
  BY <1>2, <1>3, <1>5
<1>7. \A q \in byLsb : \A x \in dpb' \ {q} : Lsb(pic[x].truth) # Lsb(pic[q].truth)
  <2>1. dpb' \subseteq dpb \cup (InCvs \cap {curr})
    BY <1>2, CurrType DEF Closed, IdentityInv, NumberInv, Numbered, InCvs, Created, TypeOK
  <2> QED
    BY <1>5, <2>1 DEF LsbNames
<1>8. \A q \in long : \E l \in nal'.lt : Names(l, q)'
  <2> TAKE q \in long
  <2>1. PICK l \in nal'.lt : l = LtEntry(q, nal'.truth, q \notin byLsb)
    BY <1>5
  <2>2. l.msb = (q \notin byLsb)
    BY <2>1 DEF LtEntry
  <2>3. Names(l, q)'
    BY <1>1, <1>7, <2>1, <2>2 DEF Names, LtEntry
  <2> QED
    BY <2>1, <2>3
<1>9. \A l \in nal'.lt : \E q \in ltRefs' : Names(l, q)'
  <2> TAKE l \in nal'.lt
  <2>1. PICK q \in long : l = LtEntry(q, nal'.truth, q \notin byLsb)
    BY <1>5
  <2>2. l.msb = (q \notin byLsb)
    BY <2>1 DEF LtEntry
  <2>3. Names(l, q)'
    BY <1>1, <1>7, <2>1, <2>2 DEF Names, LtEntry
  <2> QED
    BY <1>5, <2>3
<1>10. nal'.st = {pic'[q].truth - nal'.truth : q \in (refs' \ {coming'}) \ ltRefs'}
  BY <1>1, <1>5, <1>6
<1>11. Kept'
  BY <1>1, <1>3, <1>5, <1>6, <1>8, <1>9, <1>10 DEF Kept
<1> QED
  BY <1>2, <1>5, <1>6, <1>11

LEMMA MarkingSend ==
    ASSUME CodeRules, TypeOK, AUInv, IdentityInv, MarkingInv, FirstSliceSegment
    PROVE  MarkingInv'
<1>1. /\ pc = "nal" /\ SendPicture /\ CloseAU(nal'.tid)
      /\ pic' = pic /\ cvs' = cvs /\ au' = au
  BY DEF FirstSliceSegment
<1>2. SentSet
  BY <1>1, SendSets
<1>3. Closed /\ coming' = nextNo
  BY <1>1, <1>2, CloseAUClosed DEF nextNo, curr, SentSet
<1>4. Held' = refs /\ HeldLong' = ltRefs /\ coming' \notin refs /\ Needed'
  BY <1>1, <1>3, ClosedMarking
<1>5. nal' # Aud /\ nal' # EndOfStream
  BY <1>2, BitstreamAssumption DEF SentSet, Aud, EndOfStream, NonVcl, AUD_NUT, RSV_VCL31
<1>6. pc' \in {"store", "au"} /\ cpb' # "picture"
  BY <1>3 DEF Closed
<1>7. StartsCvs(nal'.nut) <=> isIRAP(nal'.nut)
  BY <1>2, StartsIffIRAP DEF SentSet
<1>8. isRASL(nal'.nut) => ~isIRAP(nal'.nut)
  BY DEF isRASL, isIRAP, RASL_N, RASL_R, BLA_W_LP
<1>9. InStep'
  <2>1. CASE ~isRASL(nal'.nut)
    BY <1>5, <1>6, <2>1 DEF InStep, Settled
  <2>2. CASE isRASL(nal'.nut)
    <3>1. UNCHANGED <<refs, ltRefs>>
      BY <1>2, <1>8, <2>2 DEF SentSet, SentIrap, SentInter, SentRasl
    <3> QED
      BY <1>4, <1>6, <3>1 DEF InStep
  <2> QED
    BY <2>1, <2>2
<1>10. Announced'
  <2>1. CASE SentIrap
    BY <1>3, <1>7, <2>1 DEF Announced, KeptNothing, SentIrap
  <2>2. CASE SentInter
    <3>1. coming' \in refs' /\ coming' \notin ltRefs' /\ Kept'
      BY <1>2, <2>2, InterKept DEF SentSet
    <3> QED
      BY <1>7, <2>2, <3>1 DEF Announced, SentInter
  <2>3. CASE SentRasl
    BY <2>3 DEF Announced, SentRasl
  <2> QED
    BY <1>2, <2>1, <2>2, <2>3 DEF SentSet
<1>11. FlushedAll'
  BY <1>6 DEF FlushedAll
<1> QED
  BY <1>4, <1>9, <1>10, <1>11 DEF MarkingInv

-------------------------------------------------------------------------------
(* Steps that take pictures from the buffer and rewrite no field that the  *)
(* invariants read.                                                        *)
IdentityFrame ==
    /\ NumberFrame
    /\ nal = EndOfStream => pc' \in {"store", "flush", "done", "aborted"}
    /\ pc' \in {"pps", "output", "header"} =>
          pc \in {"pps", "output", "header"} /\ soCVS' = soCVS
    /\ \/ dpb' = {} \/ Between' \/ pc' = "aborted"
       \/ ~Between /\ pc # "aborted"

LEMMA IdentityKept ==
    ASSUME TypeOK, AUInv, IdentityInv, IdentityFrame
    PROVE  IdentityInv'
<1>1. NumberInv'
  BY NumberKept DEF IdentityFrame, IdentityInv
<1>2. dpb \subseteq Picture
  BY DEF TypeOK, BufferTypeOK
<1>3. OneSequence'
  BY <1>2 DEF IdentityFrame, NumberFrame, SameFields, IdentityInv, OneSequence
<1> QED
  BY <1>1, <1>3 DEF IdentityInv

MarkingFrame ==
    /\ SameFields /\ dpb' \subseteq dpb /\ Held' = Held /\ HeldLong' = HeldLong
    /\ UNCHANGED <<nal, au, cpb, refs, ltRefs>>
    /\ Settled' => Settled
    /\ Received' => Received
    /\ pc' = "flush" => pc = "flush"
    /\ Needed'

LEMMA MarkingKept ==
    ASSUME TypeOK, AUInv, MarkingInv, MarkingFrame
    PROVE  MarkingInv'
<1>1. coming' = coming /\ curr' = curr
  BY DEF MarkingFrame, coming, curr
<1>2. InStep'
  BY <1>1, CurrType DEF MarkingFrame, SameFields, MarkingInv, InStep
<1>3. ltRefs \subseteq Picture /\ dpb \subseteq Picture /\ refs \subseteq Picture
  BY DEF TypeOK, BufferTypeOK, EncoderTypeOK
<1>4. ASSUME NEW l, NEW q \in ltRefs, Names(l, q)
      PROVE  Names(l, q)'
  BY <1>3, <1>4 DEF Names, LtEntry, MarkingFrame, SameFields
<1>5. Kept => Kept'
  <2> SUFFICES ASSUME Kept PROVE Kept'
    OBVIOUS
  <2>1. {pic'[q].truth - nal.truth : q \in (refs \ {coming}) \ ltRefs}
          = {pic[q].truth - nal.truth : q \in (refs \ {coming}) \ ltRefs}
    BY <1>3 DEF MarkingFrame, SameFields
  <2>2. \A l \in nal.lt : \E q \in ltRefs : Names(l, q)'
    BY <1>4 DEF Kept
  <2>3. \A q \in ltRefs : \E l \in nal.lt : Names(l, q)'
    BY <1>4 DEF Kept
  <2> QED
    BY <1>1, <2>1, <2>2, <2>3 DEF Kept, MarkingFrame
<1>6. KeptNothing => KeptNothing'
  BY <1>1 DEF KeptNothing, MarkingFrame
<1>7. Announced'
  BY <1>1, <1>5, <1>6 DEF MarkingFrame, MarkingInv, Announced
<1>8. FlushedAll'
  BY DEF MarkingFrame, MarkingInv, FlushedAll
<1> QED
  BY <1>2, <1>7, <1>8 DEF MarkingInv, MarkingFrame

LEMMA BumpMarks ==
    ASSUME TypeOK, Bump, pic' = pic, MarkingInv, pc # "aborted"
    PROVE  dpb' \subseteq dpb /\ Held' = Held /\ HeldLong' = HeldLong /\ Needed'
<1>1. PICK p \in waiting :
        /\ waiting' = waiting \ {p}
        /\ dpb' = IF pic[p].ref = "Unused" THEN dpb \ {p} ELSE dpb
  BY Zenon DEF Bump
<1>2. dpb' \subseteq dpb /\ Held' = Held /\ HeldLong' = HeldLong
  BY <1>1 DEF Held, HeldLong
<1>3. Needed'
  BY <1>1, <1>2 DEF MarkingInv, Needed, Held
<1> QED
  BY <1>2, <1>3

LEMMA SamePicFields == pic' = pic => SameFields
BY DEF SameFields

(* The bumping loops.                                                      *)
LEMMA MarkingBump ==
    ASSUME TypeOK, AUInv, IdentityInv, MarkingInv, StoreBump \/ FlushBump \/ UpdateBump
    PROVE  IdentityInv' /\ MarkingInv'
<1>1. /\ pc \in {"store", "flush", "update"}
      /\ UNCHANGED <<pic, nal, cvs, au, cpb, refs, ltRefs>>
      /\ \/ Bump /\ pc' = pc
         \/ pc # "store" /\ pc' = "aborted" /\ UNCHANGED dpbVars
         \/ pc = "update" /\ pc' = "ctus" /\ UNCHANGED dpbVars
  BY Zenon DEF StoreBump, FlushBump, UpdateBump, GuardedBump, encVars
<1>2. dpb' \subseteq dpb /\ Held' = Held /\ HeldLong' = HeldLong /\ Needed'
  <2>1. CASE Bump /\ pc' = pc
    BY <1>1, <2>1, BumpMarks
  <2>2. CASE UNCHANGED dpbVars
    BY <1>1, <2>2 DEF dpbVars, Held, HeldLong, MarkingInv, Needed
  <2> QED
    BY <1>1, <2>1, <2>2
<1>3. nal = EndOfStream => pc' \in {"store", "flush", "done", "aborted"}
  BY <1>1 DEF IdentityInv, OneSequence
<1>4. IdentityFrame
  BY <1>1, <1>2, <1>3, SamePicFields
     DEF IdentityFrame, NumberFrame, Processed, ToCreate, Received, Opening, Between
<1>5. MarkingFrame
  BY <1>1, <1>2, SamePicFields DEF MarkingFrame, Settled, Received
<1> QED
  BY <1>4, <1>5, IdentityKept, MarkingKept

(* Steps that leave the buffer alone.                                      *)
LEMMA MarkingStay ==
    ASSUME TypeOK, AUInv, IdentityInv, MarkingInv,
           UNCHANGED <<pic, dpb, waiting, nal, cvs, au, cpb, refs, ltRefs>>,
           \/ pc' = pc /\ soCVS' = soCVS
           \/ pc = "store" /\ pc' = "au" /\ nal # EndOfStream
           \/ pc = "ctus" /\ pc' = "nal"
    PROVE  IdentityInv' /\ MarkingInv'
<1>1. Held' = Held /\ HeldLong' = HeldLong /\ Needed'
  BY DEF Held, HeldLong, MarkingInv, Needed
<1>2. nal = EndOfStream => pc' \in {"store", "flush", "done", "aborted"}
  BY DEF IdentityInv, OneSequence
<1>3. IdentityFrame
  BY <1>1, <1>2, SamePicFields
     DEF IdentityFrame, NumberFrame, Processed, ToCreate, Received, Opening, Between
<1>4. MarkingFrame
  BY <1>1, SamePicFields DEF MarkingFrame, Settled, Received
<1> QED
  BY <1>3, <1>4, IdentityKept, MarkingKept

LEMMA MarkingStays ==
    ASSUME TypeOK, AUInv, IdentityInv, MarkingInv,
           \/ EndOfSequence \/ StoreDone \/ FinishPicture \/ LoseSlices \/ UNCHANGED vars
    PROVE  IdentityInv' /\ MarkingInv'
<1>1. UNCHANGED <<pic, dpb, waiting, nal, cvs, au, cpb, refs, ltRefs>>
  BY DEF EndOfSequence, StoreDone, FinishPicture, LoseSlices, vars, dpbVars, encVars
<1>2. \/ pc' = pc /\ soCVS' = soCVS
      \/ pc = "store" /\ pc' = "au" /\ nal # EndOfStream
      \/ pc = "ctus" /\ pc' = "nal"
  BY DEF EndOfSequence, StoreDone, FinishPicture, LoseSlices, vars
<1> QED
  BY <1>1, <1>2, MarkingStay

(* A delimiter, or the end of the bitstream, closes the access unit.       *)
LEMMA MarkingDelimiter ==
    ASSUME TypeOK, AUInv, IdentityInv, MarkingInv, AccessUnitDelimiter
    PROVE  IdentityInv' /\ MarkingInv'
<1>1. /\ pc = "nal" /\ CloseAU(-1) /\ nal' = Aud
      /\ UNCHANGED <<pic, cvs, au, refs, ltRefs>>
  BY DEF AccessUnitDelimiter
<1>2. Closed
  BY <1>1, CloseAUClosed
<1>3. /\ dpb' \subseteq Created /\ Created' = Created /\ InCvs' = InCvs
      /\ \A p \in dpb' : pic[p].cvs = cvs
      /\ \A p \in Created : p < au
      /\ cpb' = "opened" => pic[curr].cvs = 0
  BY <1>1, <1>2, ClosedIdentity
<1>4. Held' = refs /\ HeldLong' = ltRefs /\ coming' \notin refs /\ Needed'
  BY <1>1, <1>2, ClosedMarking
<1>5. pc' \in {"store", "au"} /\ cpb' # "picture" /\ curr' = curr
  BY <1>1, <1>2 DEF Closed, curr
<1>6. Aud # EndOfStream /\ ~Received' /\ ~ToCreate'
  BY <1>1 DEF Aud, EndOfStream, NonVcl, AUD_NUT, Received, ToCreate
<1>7. NumberInv'
  BY NumberClose DEF IdentityInv
<1>8. OneSequence'
  BY <1>1, <1>3, <1>5, <1>6 DEF OneSequence
<1>9. InStep' /\ Announced' /\ FlushedAll'
  BY <1>1, <1>4, <1>5, <1>6 DEF InStep, Announced, FlushedAll
<1> QED
  BY <1>4, <1>7, <1>8, <1>9 DEF IdentityInv, MarkingInv

(* Erasing what neither waits nor is marked.                               *)
LEMMA Erased ==
    ASSUME EraseUnused([p \in Picture |-> pic[p].ref]), TypeOK, pic' = pic, waiting' = waiting
    PROVE  dpb' \subseteq dpb /\ Held' = Held /\ HeldLong' = HeldLong /\ Needed'
<1>1. dpb' = {p \in dpb : p \in waiting \/ pic[p].ref # "Unused"}
  BY DEF EraseUnused, TypeOK, BufferTypeOK
<1> QED
  BY <1>1 DEF Held, HeldLong, Needed

LEMMA MarkingEnd ==
    ASSUME TypeOK, AUInv, IdentityInv, MarkingInv, EndOfBitstream
    PROVE  IdentityInv' /\ MarkingInv'
<1>1. /\ pc = "nal" /\ nal' = EndOfStream /\ pc' \in {"store", "flush"}
      /\ UNCHANGED <<pic, cvs, au, refs, ltRefs>>
  BY Zenon DEF EndOfBitstream, encVars
<1>2. ~Received' /\ ~ToCreate' /\ EndOfStream # Aud
  BY <1>1 DEF Aud, EndOfStream, NonVcl, AUD_NUT, Received, ToCreate
<1>3. InStep' /\ Announced' /\ FlushedAll'
  BY <1>1, <1>2 DEF InStep, Settled, Announced, FlushedAll
<1>4. CASE cpb = "picture" /\ ~isRASL(pic[curr].nut) /\ EmplaceBack(curr) /\ cpb' = "empty" /\ pc' = "store"
  <2>1. Closed
    BY <1>4, Zenon DEF Closed, EmplaceBack
  <2>2. /\ dpb' \subseteq Created /\ Created' = Created /\ InCvs' = InCvs
        /\ \A p \in dpb' : pic[p].cvs = cvs
        /\ \A p \in Created : p < au
    BY <1>1, <2>1, ClosedIdentity
  <2>3. Needed'
    BY <1>1, <2>1, ClosedMarking
  <2>4. NumberInv' /\ OneSequence'
    BY <1>1, <1>4, <2>2, NumberClose DEF OneSequence, IdentityInv
  <2> QED
    BY <1>3, <2>3, <2>4 DEF IdentityInv, MarkingInv
<1>5. CASE /\ EraseUnused([p \in Picture |-> pic[p].ref])
           /\ cpb' = (IF cpb = "picture" THEN "empty" ELSE cpb)
           /\ waiting' = waiting
  <2>1. dpb' \subseteq dpb /\ Needed'
    BY <1>1, <1>5, Erased
  <2>2. \A p \in dpb : pic[p].cvs = cvs
    BY <1>1 DEF IdentityInv, OneSequence, Between
  <2>3. NumberInv' /\ OneSequence'
    BY <1>1, <1>5, <2>1, <2>2, NumberClose DEF OneSequence, IdentityInv
  <2> QED
    BY <1>3, <2>1, <2>3 DEF IdentityInv, MarkingInv
<1> QED
  BY <1>4, <1>5, Zenon DEF EndOfBitstream

-------------------------------------------------------------------------------
(* The end of the flushes.                                                 *)
LEMMA MarkingFlushed ==
    ASSUME TypeOK, AUInv, IdentityInv, MarkingInv, Flushed
    PROVE  IdentityInv' /\ MarkingInv'
<1>1. /\ pc = "flush" /\ waiting = {} /\ nal # EndOfStream /\ pc' = "update"
      /\ EraseUnused([p \in Picture |-> pic[p].ref])
      /\ UNCHANGED <<pic, waiting, nal, cvs, au, cpb, refs, ltRefs>>
  BY DEF Flushed, encVars
<1>2. dpb' \subseteq dpb /\ Held' = Held /\ HeldLong' = HeldLong /\ Needed'
  BY <1>1, Erased
<1>3. dpb' = {}
  BY <1>1, <1>2 DEF MarkingInv, FlushedAll, Needed
<1>4. IdentityFrame
  BY <1>1, <1>3, SamePicFields DEF IdentityFrame, NumberFrame, Processed, ToCreate, Received
<1>5. MarkingFrame
  BY <1>1, <1>2, SamePicFields DEF MarkingFrame, Settled, Received
<1> QED
  BY <1>4, <1>5, IdentityKept, MarkingKept

LEMMA MarkingFinish ==
    ASSUME TypeOK, AUInv, IdentityInv, MarkingInv, LastFlush \/ Finish
    PROVE  IdentityInv' /\ MarkingInv'
<1>1. /\ pc \in {"store", "flush"} /\ nal = EndOfStream /\ pc' \in {"flush", "done"}
      /\ UNCHANGED <<pic, nal, cvs, au, cpb, refs, ltRefs>>
  BY DEF LastFlush, Finish, encVars
<1>2. dpb' \subseteq dpb /\ Needed'
  <2>1. CASE LastFlush
    BY <1>1, <2>1, Erased DEF LastFlush
  <2>2. CASE Finish
    BY <2>2 DEF Finish, Clear, Needed
  <2> QED
    BY <2>1, <2>2
<1>3. EndOfStream # Aud
  BY DEF Aud, EndOfStream, NonVcl, AUD_NUT
<1>4. IdentityFrame
  BY <1>1, <1>2, SamePicFields DEF IdentityFrame, NumberFrame, Processed, ToCreate, Received, Between
<1>5. InStep' /\ Announced' /\ FlushedAll'
  BY <1>1, <1>3 DEF InStep, Settled, Received, Announced, FlushedAll
<1> QED
  BY <1>2, <1>4, <1>5, IdentityKept DEF MarkingInv

-------------------------------------------------------------------------------
(* A new access unit, and a new sequence if its picture begins one.        *)
LEMMA IdentityOpen ==
    ASSUME TypeOK, AUInv, PocInv, IdentityInv, OpenAU
    PROVE  IdentityInv'
<1>1. /\ pc = "au" /\ pc' = (IF nal = Aud THEN "nal" ELSE "pps") /\ nal # EndOfStream
      /\ cvs' = (IF StartsCvs(nal.nut) THEN cvs + 1 ELSE cvs)
      /\ UNCHANGED <<pic, dpb, nal>>
  BY Zenon DEF OpenAU, dpbVars, AUInv
<1>2. \A p \in dpb : pic[p].cvs = cvs
  BY <1>1 DEF IdentityInv, OneSequence, Between
<1>3. ~Between' => cvs' = cvs
  BY <1>1, NoNextSequence DEF Between
<1>4. StartsCvs(nal.nut) => soCVS'
  BY DEF OpenAU
<1>5. OneSequence'
  BY <1>1, <1>2, <1>3, <1>4 DEF OneSequence
<1> QED
  BY <1>5, NumberOpen DEF IdentityInv

LEMMA MarkingOpen ==
    ASSUME TypeOK, AUInv, IdentityInv, MarkingInv, OpenAU
    PROVE  MarkingInv'
<1>1. /\ pc = "au" /\ pc' = (IF nal = Aud THEN "nal" ELSE "pps")
      /\ cpb # "picture" /\ cpb' = "opened" /\ nal # EndOfStream
      /\ au' = (IF cpb = "empty" THEN au + 1 ELSE au)
      /\ UNCHANGED <<pic, dpb, waiting, nal, refs, ltRefs>>
  BY Zenon DEF OpenAU, dpbVars, encVars, AUInv
<1>2. au \in Int
  BY MaxAUAssumption DEF TypeOK
<1>3. coming' = coming
  BY <1>1, <1>2 DEF coming, curr
<1>4. Held' = Held /\ HeldLong' = HeldLong /\ Needed'
  BY <1>1 DEF Held, HeldLong, MarkingInv, Needed
<1>5. Settled' => Settled
  BY <1>1 DEF Settled, Received
<1>6. InStep'
  BY <1>1, <1>3, <1>4, <1>5 DEF MarkingInv, InStep
<1>7. Kept' <=> Kept
  BY <1>1, <1>3, <1>4 DEF Kept, Names, LtEntry
<1>8. Announced'
  BY <1>1, <1>3, <1>7 DEF MarkingInv, Announced, KeptNothing, Received
<1>9. FlushedAll'
  BY <1>1 DEF FlushedAll
<1> QED
  BY <1>4, <1>6, <1>8, <1>9 DEF MarkingInv

(* The picture is created.                                                 *)
LEMMA IdentityCreate ==
    ASSUME TypeOK, AUInv, PocInv, IdentityInv, SlicePicParameterSetId
    PROVE  IdentityInv'
<1>1. /\ pc = "pps" /\ pc' = "output" /\ UNCHANGED <<dpb, nal, cvs, soCVS>>
      /\ \A p \in Picture : p # curr => pic'[p] = pic[p]
      /\ curr \notin Created
  BY Creates DEF IdentityInv
<1>2. nal # Aud /\ nal # EndOfStream
  BY <1>1, HeaderNal
<1>3. \A p \in dpb : pic'[p] = pic[p]
  BY <1>1, StoredType DEF IdentityInv, NumberInv, Numbered
<1>4. OneSequence'
  BY <1>1, <1>2, <1>3 DEF IdentityInv, OneSequence, Between
<1> QED
  BY <1>4, NumberCreate DEF IdentityInv

LEMMA MarkingCreate ==
    ASSUME TypeOK, AUInv, PocInv, IdentityInv, MarkingInv, SlicePicParameterSetId
    PROVE  MarkingInv'
<1>1. /\ pc = "pps" /\ cpb = "opened" /\ cpb' = "picture" /\ pc' = "output"
      /\ pic' = [pic EXCEPT ![curr] = NewPicture]
      /\ UNCHANGED <<dpb, waiting, nal, au, refs, ltRefs>>
  BY Zenon DEF SlicePicParameterSetId, encVars, AUInv
<1>2. curr \in Picture /\ curr' = curr /\ coming = curr /\ coming' = curr
  BY <1>1, CurrType DEF curr, coming
<1>3. pic'[curr].nut = nal.nut
  BY <1>1, <1>2 DEF TypeOK, NewPicture
<1>4. dpb \subseteq Picture /\ ltRefs \subseteq refs /\ refs \subseteq Picture
  BY DEF TypeOK, BufferTypeOK, EncoderTypeOK
<1>5. curr \notin dpb
  BY <1>1 DEF IdentityInv, NumberInv, Numbered, Created
<1>6. \A p \in Picture \ {curr} : pic'[p] = pic[p]
  BY <1>1, <1>2 DEF TypeOK
<1>7. Held' = Held /\ HeldLong' = HeldLong
  BY <1>1, <1>4, <1>5, <1>6 DEF Held, HeldLong
<1>8. Needed'
  BY <1>1, <1>7 DEF MarkingInv, Needed
<1>9. nal # Aud /\ nal # EndOfStream /\ nal.nut \in Nuts
  BY <1>1, HeaderNal
<1>10. InStep'
  <2>1. Settled' => Settled /\ isRASL(nal.nut)
    BY <1>1, <1>9 DEF Settled, Received
  <2> QED
    BY <1>1, <1>2, <1>3, <1>7, <2>1 DEF MarkingInv, InStep
<1>11. Announced'
  <2> SUFFICES ASSUME ~isRASL(nal.nut)
               PROVE  /\ curr \in refs /\ curr \notin ltRefs
                      /\ IF StartsCvs(nal.nut) THEN KeptNothing' ELSE Kept'
    BY <1>1, <1>2 DEF Announced
  <2>1. /\ curr \in refs /\ curr \notin ltRefs
        /\ IF StartsCvs(nal.nut) THEN KeptNothing ELSE Kept
    BY <1>1, <1>2, <1>9 DEF MarkingInv, Announced, Received
  <2>2. KeptNothing => KeptNothing'
    BY <1>1, <1>2 DEF KeptNothing
  <2>3. ASSUME NEW l, NEW q \in ltRefs, Names(l, q)
        PROVE  Names(l, q)'
    <3>1. q \in Picture \ {curr} /\ dpb \subseteq Picture \ {curr}
      BY <1>4, <1>5, <2>1
    <3>2. pic'[q] = pic[q] /\ \A x \in dpb : pic'[x] = pic[x]
      BY <1>6, <3>1
    <3> QED
      BY <1>1, <2>3, <3>2 DEF Names, LtEntry
  <2>4. ASSUME Kept
        PROVE  Kept'
    <3>1. {pic'[q].truth - nal.truth : q \in (refs \ {curr}) \ ltRefs}
            = {pic[q].truth - nal.truth : q \in (refs \ {curr}) \ ltRefs}
      BY <1>4, <1>6
    <3>2. \A l \in nal.lt : \E q \in ltRefs : Names(l, q)'
      BY <2>3, <2>4 DEF Kept
    <3>3. \A q \in ltRefs : \E l \in nal.lt : Names(l, q)'
      BY <2>3, <2>4 DEF Kept
    <3> QED
      BY <1>1, <1>2, <1>7, <2>4, <3>1, <3>2, <3>3 DEF Kept
  <2> QED
    BY <2>1, <2>2, <2>4
<1>12. FlushedAll'
  BY <1>1 DEF FlushedAll
<1> QED
  BY <1>8, <1>10, <1>11, <1>12 DEF MarkingInv

LEMMA MarkingOutputFlag ==
    ASSUME TypeOK, AUInv, PocInv, IdentityInv, MarkingInv, PicOutputFlag
    PROVE  IdentityInv' /\ MarkingInv'
<1>1. /\ pc = "output" /\ pc' \in {"header", "aborted"}
      /\ pic' = pic \/ \E b \in BOOLEAN : pic' = [pic EXCEPT ![curr].out = b]
      /\ UNCHANGED <<dpb, waiting, nal, cvs, au, cpb, refs, ltRefs, soCVS>>
  BY Zenon DEF PicOutputFlag, encVars, dpbVars
<1>2. curr \in Picture
  BY <1>1, CurrType DEF AUInv
<1>3. SameFields /\ \A p \in Picture : pic'[p].ref = pic[p].ref
  BY <1>1, <1>2 DEF SameFields, TypeOK, PictureType
<1>4. nal # EndOfStream
  BY <1>1, HeaderNal
<1>5. dpb \subseteq Picture
  BY DEF TypeOK, BufferTypeOK
<1>6. Held' = Held /\ HeldLong' = HeldLong
  BY <1>1, <1>3, <1>5 DEF Held, HeldLong
<1>7. Needed'
  BY <1>1, <1>6 DEF MarkingInv, Needed
<1>8. IdentityFrame
  BY <1>1, <1>2, <1>3, <1>4 DEF IdentityFrame, NumberFrame, Processed, ToCreate, Opening, Between
<1>9. MarkingFrame
  BY <1>1, <1>3, <1>6, <1>7 DEF MarkingFrame, Settled, Received
<1> QED
  BY <1>8, <1>9, IdentityKept, MarkingKept

-------------------------------------------------------------------------------
(* A long-term entry with its MSB gives the POC of the picture it names.   *)
LEMMA LtPocNames ==
    ASSUME NEW truth \in Int, NEW poc \in Int
    PROVE  Lsb(poc) + truth
             - MaxPicOrderCntLsb * ((Msb(truth) - Msb(poc)) \div MaxPicOrderCntLsb) - Lsb(truth)
           = poc
<1>1. PICK a \in Int : Msb(truth) = a * MaxPicOrderCntLsb /\ Lsb(truth) \in Int
                       /\ truth = a * MaxPicOrderCntLsb + Lsb(truth)
  BY SplitPoc
<1>2. PICK b \in Int : Msb(poc) = b * MaxPicOrderCntLsb /\ Lsb(poc) \in Int
                       /\ poc = b * MaxPicOrderCntLsb + Lsb(poc)
  BY SplitPoc
<1>3. MaxPicOrderCntLsb \in Nat /\ MaxPicOrderCntLsb > 0
  BY MaxLsbAssumption
<1>4. /\ MaxPicOrderCntLsb * (a - b) = a * MaxPicOrderCntLsb - b * MaxPicOrderCntLsb
      /\ (MaxPicOrderCntLsb * (a - b)) \div MaxPicOrderCntLsb = a - b
      /\ a * MaxPicOrderCntLsb \in Int /\ b * MaxPicOrderCntLsb \in Int
  BY <1>3, SMT
<1>5. (Msb(truth) - Msb(poc)) \div MaxPicOrderCntLsb = a - b
  BY <1>1, <1>2, <1>4
<1> QED
  BY <1>1, <1>2, <1>4, <1>5

LEMMA LatestOne ==
    ASSUME NEW q \in Int
    PROVE  Latest({q}) = q
BY DEF Latest

(* When the header is processed every picture of the buffer has the POC it *)
(* was coded with, and it alone has it.                                    *)
LEMMA DpbPocs ==
    ASSUME TypeOK, AUInv, PocInv, IdentityInv, pc = "header"
    PROVE  /\ currPoc = nal.truth /\ curr \notin dpb
           /\ \A p \in dpb : pic[p].poc = pic[p].truth /\ pic[p].truth \in Int /\ p \in Int
           /\ \A p, q \in dpb : pic[p].truth = pic[q].truth => p = q
<1>1. currPoc = nal.truth
  BY CurrPocRestored DEF PocInv, HeaderAgrees
<1>2. cpb = "picture" /\ curr \notin dpb
  BY DEF AUInv, IdentityInv, NumberInv, Numbered
<1>3. dpb \subseteq Picture /\ \A p \in Picture : p \in Int
  BY MaxAUAssumption DEF TypeOK, BufferTypeOK, Picture
<1>4. \A p \in dpb : pic[p].poc = pic[p].truth /\ pic[p].truth \in Int
  BY <1>2, <1>3 DEF PocInv, AllRestored, PocDerived, TypeOK, PictureType
<1>5. \A p, q \in dpb : pic[p].truth = pic[q].truth => p = q
  BY DEF IdentityInv, NumberInv, Numbered, Distinct, OneSequence
<1> QED
  BY <1>1, <1>2, <1>3, <1>4, <1>5

(* The entries of the reference picture set find what the encoder kept.    *)
LEMMA ShortEntriesFind ==
    ASSUME TypeOK, AUInv, PocInv, IdentityInv, pc = "header", Kept, coming = curr
    PROVE  StPics = (refs \ {curr}) \ ltRefs
<1> DEFINE K == (refs \ {curr}) \ ltRefs
<1>1. /\ currPoc = nal.truth /\ nal.truth \in Int
      /\ \A p \in dpb : pic[p].poc = pic[p].truth /\ pic[p].truth \in Int /\ p \in Int
      /\ \A p, q \in dpb : pic[p].truth = pic[q].truth => p = q
  BY DpbPocs DEF TypeOK, Coded
<1>2. K \subseteq dpb
  BY DEF Kept, Held
<1>3. \A q \in dpb : StMatch(pic[q].truth) = {q}
  BY <1>1 DEF StMatch
<1>4. nal.st = {pic[q].truth - nal.truth : q \in K}
  BY DEF Kept
<1>5. StPocs = {pic[q].truth : q \in K}
  <2>1. ASSUME NEW q \in K
        PROVE  currPoc + (pic[q].truth - nal.truth) = pic[q].truth
    BY <1>1, <1>2
  <2> QED
    BY <1>4, <2>1 DEF StPocs
<1>6. \A q \in K : Latest(StMatch(pic[q].truth)) = q
  BY <1>1, <1>2, <1>3, LatestOne
<1>7. \A v \in StPocs : StMatch(v) # {}
  BY <1>2, <1>3, <1>5
<1>8. StPics = {Latest(StMatch(v)) : v \in StPocs}
  BY <1>7, Zenon DEF StPics
<1>9. {Latest(StMatch(v)) : v \in StPocs} = K
  <2>1. \A v \in StPocs : Latest(StMatch(v)) \in K
    BY <1>5, <1>6
  <2>2. \A q \in K : \E v \in StPocs : Latest(StMatch(v)) = q
    BY <1>5, <1>6
  <2> QED
    BY <2>1, <2>2, Zenon
<1> QED
  BY <1>8, <1>9

LEMMA LongEntryFinds ==
    ASSUME TypeOK, AUInv, PocInv, IdentityInv, pc = "header",
           NEW q \in dpb, NEW l, l.msb \in BOOLEAN, Names(l, q)
    PROVE  LtMatch(l) = {q} /\ Latest(LtMatch(l)) = q
<1>1. /\ currPoc = nal.truth /\ nal.truth \in Int
      /\ \A p \in dpb : pic[p].poc = pic[p].truth /\ pic[p].truth \in Int /\ p \in Int
      /\ \A p, r \in dpb : pic[p].truth = pic[r].truth => p = r
  BY DpbPocs DEF TypeOK, Coded
<1>2. /\ l.lsb = Lsb(pic[q].truth)
      /\ l.cycle = (Msb(nal.truth) - Msb(pic[q].truth)) \div MaxPicOrderCntLsb
  BY DEF Names, LtEntry
<1>3. CASE l.msb
  <2>1. LtPoc(l) = pic[q].truth
    BY <1>1, <1>2, <1>3, LtPocNames DEF LtPoc
  <2>2. LtMatch(l) = {p \in dpb : pic[p].poc = LtPoc(l)}
    BY <1>3, Zenon DEF LtMatch
  <2>3. LtMatch(l) = {q}
    BY <1>1, <2>1, <2>2
  <2> QED
    BY <1>1, <2>3, LatestOne
<1>4. CASE ~l.msb
  <2>1. \A x \in dpb \ {q} : Lsb(pic[x].truth) # l.lsb
    BY <1>2, <1>4 DEF Names
  <2>2. LtMatch(l) = {p \in dpb : Lsb(pic[p].poc) = l.lsb}
    BY <1>4, Zenon DEF LtMatch
  <2>3. \A p \in dpb : Lsb(pic[p].poc) = Lsb(pic[p].truth)
    BY <1>1
  <2>4. LtMatch(l) = {q}
    BY <1>2, <2>1, <2>2, <2>3, Zenon
  <2> QED
    BY <1>1, <2>4, LatestOne
<1> QED
  BY <1>3, <1>4

LEMMA LongEntriesFind ==
    ASSUME TypeOK, AUInv, PocInv, IdentityInv, pc = "header", Kept, coming = curr,
           curr \notin ltRefs
    PROVE  LtPics = ltRefs
<1>1. ltRefs \subseteq dpb
  BY DEF Kept, Held, TypeOK, EncoderTypeOK
<1>2. \A l \in nal.lt : l.msb \in BOOLEAN
  BY DEF TypeOK, Coded
<1>3. ASSUME NEW l \in nal.lt, NEW q \in ltRefs, Names(l, q)
      PROVE  LtMatch(l) # {} /\ Latest(LtMatch(l)) = q
  <2>1. q \in dpb /\ l.msb \in BOOLEAN
    BY <1>1, <1>2
  <2>2. LtMatch(l) = {q} /\ Latest(LtMatch(l)) = q
    BY <1>3, <2>1, LongEntryFinds
  <2> QED
    BY <2>2
<1>4. \A l \in nal.lt : LtMatch(l) # {} /\ Latest(LtMatch(l)) \in ltRefs
  BY <1>3 DEF Kept
<1>5. \A q \in ltRefs : \E l \in nal.lt : LtMatch(l) # {} /\ Latest(LtMatch(l)) = q
  BY <1>3 DEF Kept
<1> QED
  BY <1>4, <1>5, Zenon DEF LtPics

(* The marking process leaves marked what the encoder refers to.           *)
Remark == {p \in dpb : Marking[p] # "Unused"}
RemarkLong == {p \in dpb : Marking[p] = "LongTerm"}

LEMMA MarkingMarks ==
    ASSUME TypeOK, AUInv, PocInv, IdentityInv, MarkingInv, pc = "header", ~isCRA(nal.nut)
    PROVE  Remark = refs \ {curr} /\ RemarkLong = ltRefs
<1>1. /\ nal # Aud /\ nal # EndOfStream
      /\ cpb = "picture" /\ coming = curr /\ dpb \subseteq Picture
      /\ nal.nut \in Nuts /\ (StartsCvs(nal.nut) <=> isIRAP(nal.nut))
  BY HeaderNal DEF AUInv, coming, TypeOK, BufferTypeOK
<1>2. CASE isRASL(nal.nut)
  <2>1. Remark = Held /\ RemarkLong = HeldLong
    BY <1>1, <1>2 DEF Remark, RemarkLong, Held, HeldLong, Marking
  <2> QED
    BY <1>1, <1>2, <2>1 DEF MarkingInv, InStep, Settled, Received
<1>3. ASSUME ~isRASL(nal.nut)
      PROVE  /\ curr \in refs /\ curr \notin ltRefs /\ ltRefs \subseteq refs
             /\ IF StartsCvs(nal.nut) THEN KeptNothing ELSE Kept
  BY <1>1, <1>3 DEF MarkingInv, Announced, Received, TypeOK, EncoderTypeOK
<1>4. CASE ~isRASL(nal.nut) /\ isIDR(nal.nut)
  <2>1. StartsCvs(nal.nut) /\ pic[curr].noRasl
    BY <1>1, <1>4 DEF StartsCvs, PocInv, HeaderAgrees
  <2>2. \A p \in dpb : Marking[p] = "Unused"
    BY <1>1, <1>4, <2>1 DEF Marking
  <2> QED
    BY <1>1, <1>3, <1>4, <2>1, <2>2 DEF Remark, RemarkLong, KeptNothing
<1>5. CASE ~isRASL(nal.nut) /\ isBLA(nal.nut)
  <2>1. KeptNothing
    BY <1>3, <1>5 DEF StartsCvs
  <2>2. StPics = {} /\ LtPics = {}
    BY <1>5, <2>1 DEF KeptNothing, StPics, StPocs, LtPics
  <2>3. ~isIDR(nal.nut)
    BY <1>5 DEF isBLA, isIDR, BLA_W_LP, BLA_N_LP, IDR_W_RADL, IDR_N_LP
  <2>4. \A p \in dpb : Marking[p] = "Unused"
    BY <1>1, <1>5, <2>2, <2>3 DEF Marking
  <2> QED
    BY <1>1, <1>3, <1>5, <2>1, <2>4 DEF Remark, RemarkLong, KeptNothing
<1>6. CASE ~isRASL(nal.nut) /\ ~isIDR(nal.nut) /\ ~isBLA(nal.nut)
  <2>1. Kept
    BY <1>3, <1>6 DEF StartsCvs
  <2>2. StPics = (refs \ {curr}) \ ltRefs /\ LtPics = ltRefs
    BY <1>1, <1>3, <1>6, <2>1, ShortEntriesFind, LongEntriesFind
  <2>3. \A p \in dpb : Marking[p] = IF p \in (refs \ {curr}) \ ltRefs THEN "ShortTerm"
                                    ELSE IF p \in ltRefs THEN "LongTerm" ELSE "Unused"
    BY <1>1, <1>6, <2>2 DEF Marking
  <2>4. refs \ {curr} \subseteq dpb /\ ltRefs \subseteq refs \ {curr}
    BY <1>1, <1>3, <1>6, <2>1 DEF Kept, Held
  <2> QED
    BY <2>3, <2>4 DEF Remark, RemarkLong
<1> QED
  BY <1>2, <1>4, <1>5, <1>6

LEMMA MarkingHeader ==
    ASSUME TypeOK, AUInv, PocInv, IdentityInv, MarkingInv, SliceSegmentHeader
    PROVE  IdentityInv' /\ MarkingInv'
<1>1. /\ pc = "header" /\ cpb = "picture"
      /\ UNCHANGED <<nal, cvs, au, cpb, refs, ltRefs>>
      /\ pic' = [p \in Picture |-> IF p = curr THEN [pic[p] EXCEPT !.poc = currPoc]
                                   ELSE [pic[p] EXCEPT !.ref = Marking[p]]]
      /\ \/ pc' = "aborted" /\ dpb' = dpb /\ waiting' = waiting
         \/ /\ StartOfSequence /\ soCVS /\ DropsPrior
            /\ pc' = "update" /\ dpb' = {} /\ waiting' = {}
         \/ /\ ~(StartOfSequence /\ soCVS /\ DropsPrior)
            /\ pc' = (IF StartOfSequence /\ soCVS THEN "flush" ELSE "update")
            /\ EraseUnused(Marking)
            /\ waiting' = waiting
  BY Zenon DEF SliceSegmentHeader, Clear, encVars, AUInv
<1>2. /\ nal # Aud /\ nal # EndOfStream /\ (StartsCvs(nal.nut) <=> isIRAP(nal.nut))
  BY <1>1, HeaderNal
<1>3. StartsCvs(nal.nut) <=> StartOfSequence /\ soCVS
  BY <1>1, <1>2 DEF IdentityInv, OneSequence, PocInv, HeaderAgrees, StartOfSequence
<1>4. curr \in Picture /\ curr' = curr /\ coming = curr /\ coming' = curr /\ curr \notin dpb
  BY <1>1, CurrType, DpbPocs DEF curr, coming
<1>5. SameFields /\ pic'[curr].ref = pic[curr].ref
  BY <1>1, <1>4 DEF SameFields, TypeOK, PictureType
<1>6. \A p \in dpb : pic'[p].ref = Marking[p]
  BY <1>1, <1>4 DEF TypeOK, BufferTypeOK, PictureType
<1>7. dpb' \subseteq dpb
  BY <1>1 DEF EraseUnused
<1>8. IdentityFrame
  BY <1>1, <1>2, <1>3, <1>5, <1>7 DEF IdentityFrame, NumberFrame, Processed, ToCreate, Opening, Between
<1>9. IdentityInv'
  BY <1>8, IdentityKept
<1>10. Announced'
  BY <1>1 DEF Announced, Received
<1>11. /\ pic[curr].nut = nal.nut
       /\ curr \in refs <=> ~isRASL(nal.nut)
       /\ StartsCvs(nal.nut) => refs \ {curr} = {} /\ ltRefs = {}
  <2>1. pic[curr].nut = nal.nut
    BY <1>1 DEF PocInv, HeaderAgrees
  <2>2. CASE isRASL(nal.nut)
    <3>1. ~StartsCvs(nal.nut)
      BY <1>2, <2>2 DEF isRASL, isIRAP, RASL_N, RASL_R, BLA_W_LP
    <3> QED
      BY <1>1, <1>2, <1>4, <2>1, <2>2, <3>1 DEF MarkingInv, InStep, Settled, Received
  <2>3. CASE ~isRASL(nal.nut)
    <3>1. /\ curr \in refs /\ curr \notin ltRefs /\ ltRefs \subseteq refs
          /\ StartsCvs(nal.nut) => refs \ {curr} = {}
      BY <1>1, <1>2, <1>4, <2>3
         DEF MarkingInv, Announced, Received, KeptNothing, TypeOK, EncoderTypeOK
    <3> QED
      BY <2>1, <2>3, <3>1
  <2> QED
    BY <2>2, <2>3
<1>12. pic'[curr].nut = nal.nut
  BY <1>4, <1>5, <1>11 DEF SameFields
<1>13. CASE pc' = "aborted"
  BY <1>9, <1>10, <1>13 DEF MarkingInv, InStep, Settled, Received, FlushedAll, Needed
<1>14. CASE dpb' = {} /\ StartsCvs(nal.nut) /\ pc' = "update"
  <2>1. Held' = {} /\ HeldLong' = {}
    BY <1>14 DEF Held, HeldLong
  <2> QED
    BY <1>1, <1>4, <1>9, <1>10, <1>11, <1>12, <1>14, <2>1
       DEF MarkingInv, InStep, FlushedAll, Needed
<1>15. CASE /\ EraseUnused(Marking) /\ waiting' = waiting
            /\ pc' = (IF StartsCvs(nal.nut) THEN "flush" ELSE "update")
            /\ ~(StartsCvs(nal.nut) /\ DropsPrior)
  <2>1. ~isCRA(nal.nut)
    BY <1>15 DEF DropsPrior, StartsCvs
  <2>2. Remark = refs \ {curr} /\ RemarkLong = ltRefs
    BY <1>1, <2>1, MarkingMarks
  <2>3. dpb' = {p \in dpb : p \in waiting \/ Marking[p] # "Unused"}
    BY <1>15 DEF EraseUnused
  <2>4. Held' = Remark /\ HeldLong' = RemarkLong
    BY <1>6, <2>3 DEF Held, HeldLong, Remark, RemarkLong
  <2>5. Needed'
    BY <1>6, <1>15, <2>3 DEF Needed, Held
  <2>6. InStep'
    BY <1>1, <1>4, <1>11, <1>12, <2>2, <2>4 DEF InStep
  <2>7. FlushedAll'
    BY <1>11, <1>15, <2>2, <2>4 DEF FlushedAll
  <2> QED
    BY <1>9, <1>10, <2>5, <2>6, <2>7 DEF MarkingInv
<1> QED
  BY <1>1, <1>3, <1>13, <1>14, <1>15

-------------------------------------------------------------------------------
LEMMA MarkingStep ==
    CodeRules /\ TypeOK /\ AUInv /\ PocInv /\ IdentityInv /\ MarkingInv /\ [Next]_vars
        => IdentityInv' /\ MarkingInv'
<1> SUFFICES ASSUME CodeRules, TypeOK, AUInv, PocInv, IdentityInv, MarkingInv, [Next]_vars
             PROVE  IdentityInv' /\ MarkingInv'
  OBVIOUS
<1>1. CASE UNCHANGED vars \/ Terminated
  BY <1>1, MarkingStays DEF Terminated
<1>2. CASE FirstSliceSegment
  BY <1>2, IdentitySend, MarkingSend
<1>3. CASE OpenAU
  BY <1>3, IdentityOpen, MarkingOpen
<1>4. CASE SlicePicParameterSetId
  BY <1>4, IdentityCreate, MarkingCreate
<1> QED
  BY <1>1, <1>2, <1>3, <1>4, MarkingDelimiter, MarkingEnd, MarkingStays, MarkingBump,
     MarkingOutputFlag, MarkingHeader, MarkingFlushed, MarkingFinish, Zenon DEF Next

(* The pictures of the buffer keep their POC where PocInv says nothing of  *)
(* it: when the decoder stops.                                             *)
Restored == \A p \in dpb : pic[p].poc = pic[p].truth

LEMMA RestoredStep ==
    ASSUME TypeOK, AUInv, IdentityInv, Restored,
           AUInv', PocInv', IdentityInv', TypeOK', [Next]_vars
    PROVE  Restored'
<1>1. dpb \subseteq Picture /\ dpb' \subseteq Picture
  BY DEF TypeOK, BufferTypeOK
<1>2. CASE pc' # "aborted"
  <2>1. pc' \in {"output", "header"} => curr' \notin dpb'
    BY DEF AUInv, IdentityInv, NumberInv, Numbered
  <2> QED
    BY <1>1, <1>2, <2>1 DEF Restored, PocInv, AllRestored, PocDerived
<1>3. CASE pc' = "aborted" /\ SliceSegmentHeader
  <2>1. pc = "header" /\ curr \notin dpb
    BY <1>3 DEF SliceSegmentHeader, AUInv, IdentityInv, NumberInv, Numbered
  <2>2. dpb' = dpb
    BY <1>3, Zenon DEF SliceSegmentHeader
  <2>3. \A p \in dpb : pic'[p].poc = pic[p].poc /\ pic'[p].truth = pic[p].truth
    BY <1>1, <1>3, <2>1 DEF SliceSegmentHeader, TypeOK, PictureType
  <2> QED
    BY <2>2, <2>3 DEF Restored
<1>4. CASE pc' = "aborted" /\ ~SliceSegmentHeader
  <2>1. pic' = pic /\ dpb' = dpb
    <3>1. CASE PicOutputFlag
      BY <1>4, <3>1, Zenon DEF PicOutputFlag, dpbVars
    <3>2. CASE FlushBump \/ UpdateBump
      <4>1. pc' = "aborted" /\ pc \in {"flush", "update"}
        BY <1>4, <3>2 DEF FlushBump, UpdateBump
      <4>2. pic' = pic /\ (pc' = pc \/ pc' = "ctus" \/ UNCHANGED dpbVars)
        BY <3>2, Zenon DEF FlushBump, UpdateBump, GuardedBump
      <4> QED
        BY <4>1, <4>2 DEF dpbVars
    <3>3. CASE UNCHANGED vars
      BY <3>3 DEF vars
    <3>4. CASE FirstSliceSegment \/ AccessUnitDelimiter \/ EndOfBitstream
      <4>1. pc' \in {"store", "au", "flush"}
        BY <3>4, Zenon DEF FirstSliceSegment, AccessUnitDelimiter, EndOfBitstream, CloseAU
      <4> QED
        BY <1>4, <4>1
    <3>5. CASE \/ EndOfSequence \/ StoreBump \/ StoreDone \/ OpenAU \/ SlicePicParameterSetId
               \/ Flushed \/ FinishPicture \/ LoseSlices \/ LastFlush \/ Finish
      <4>1. pc' \in {"nal", "store", "au", "pps", "output", "update", "flush", "done"}
        BY <3>5, Zenon DEF EndOfSequence, StoreBump, StoreDone, OpenAU, SlicePicParameterSetId,
           Flushed, FinishPicture, LoseSlices, LastFlush, Finish
      <4> QED
        BY <1>4, <4>1
    <3> QED
      BY <1>4, <3>1, <3>2, <3>3, <3>4, <3>5, Zenon DEF Next, Terminated
  <2> QED
    BY <2>1 DEF Restored
<1> QED
  BY <1>2, <1>3, <1>4

(* The three properties are about an encoder that keeps CodeRules, and hold*)
(* for every number of access units, POC range and mix of NAL unit types.  *)
StreamInv == TypeOK /\ AUInv /\ PocInv /\ IdentityInv /\ MarkingInv /\ Restored

LEMMA StreamInvariant ==
    ASSUME CodeRules
    PROVE  Spec => []StreamInv
<1>1. Init => PocInv /\ IdentityInv /\ MarkingInv /\ Restored
  <2>1. Init => Restored
    BY DEF Init, Restored
  <2> QED
    BY <2>1, PocInit, MarkingInit
<1>2. TypeOK /\ AUInv /\ PocInv /\ [Next]_vars => PocInv'
  BY PocStep
<1>3. TypeOK /\ AUInv /\ PocInv /\ IdentityInv /\ MarkingInv /\ [Next]_vars
        => IdentityInv' /\ MarkingInv'
  BY MarkingStep
<1>4. TypeOK /\ AUInv /\ IdentityInv /\ Restored /\ TypeOK' /\ AUInv' /\ PocInv' /\ IdentityInv'
        /\ [Next]_vars => Restored'
  BY RestoredStep
<1> QED
  BY <1>1, <1>2, <1>3, <1>4, TypeCorrect, PTL DEF Spec, StreamInv

(* When the slice data of a picture is decoded, the pictures marked as     *)
(* references are those the encoder may refer to                           *)
(* (ReferencePictureSet.cpp:171-274).                                      *)
THEOREM MarkingCorrect ==
    ASSUME CodeRules
    PROVE  Spec => []MarkingAgrees
<1>1. StreamInv => MarkingAgrees
  <2> SUFFICES ASSUME StreamInv, pc = "ctus"
               PROVE  Held = refs \ {curr} /\ HeldLong = ltRefs
    BY DEF MarkingAgrees, Held, HeldLong
  <2>1. Held = refs \ {coming} /\ HeldLong = ltRefs
    BY DEF StreamInv, MarkingInv, InStep, Settled
  <2>2. coming = curr
    BY DEF StreamInv, coming, IdentityInv, NumberInv, Numbered, Processed
  <2> QED
    BY <2>1, <2>2
<1> QED
  BY <1>1, StreamInvariant, PTL

(* DPB::picture and DPB::mark find one picture by a POC (DPB.cpp:175-219). *)
THEOREM PocNamesOnePicture ==
    ASSUME CodeRules
    PROVE  Spec => []PocIdentifies
<1>1. StreamInv => PocIdentifies
  BY DEF StreamInv, PocIdentifies, IdentityInv, NumberInv, Numbered, Distinct, OneSequence,
     Restored, Between
<1> QED
  BY <1>1, StreamInvariant, PTL

(* A picture that neither waits nor is a reference has left the buffer when*)
(* slice data is decoded (DPB.cpp:231-251, 254-297).                       *)
THEOREM NothingLeaks ==
    ASSUME CodeRules
    PROVE  Spec => []NoLeak
<1>1. StreamInv => NoLeak
  <2>1. StreamInv /\ pc = "ctus" => Held = refs \ {coming}
    BY DEF StreamInv, MarkingInv, InStep, Settled
  <2> QED
    BY <2>1 DEF StreamInv, NoLeak, MarkingInv, Needed
<1> QED
  BY <1>1, StreamInvariant, PTL

-------------------------------------------------------------------------------
(* No assertion of the picture level fails.  The argument: before a        *)
(* picture is stored no more pictures wait than a parameter set lets wait, *)
(* so the loops that empty the buffer end before their guards do; a RASL   *)
(* picture finds the IRAP picture it belongs to, since only leading        *)
(* pictures came after that one and the encoder still refers to it; and an *)
(* entry of a reference picture set names one picture, which has no other  *)
(* entry.                                                                  *)

(* No sequence lets more pictures wait than the guard of the flush of any  *)
(* sequence: flush() takes its guard from the limits of the new sequence   *)
(* while the pictures are those of the old one (DPB.cpp:120).              *)
GuardsSuffice == \A a, b \in SpsChoices : a.reorder <= BumpGuard(b)

(* Of a parameter set: that of the pictures received so far, or of the     *)
(* header that begins a sequence.                                          *)
SpsInv ==
    /\ Created # {} => limits \in SpsChoices
    /\ Received => IF StartsCvs(nal.nut)
                     THEN nal.sps \in SpsChoices
                     ELSE Created # {} /\ (pc \in Opening => nal.sps = limits)

(* What waits fits the parameter set of its sequence, and the guard of the *)
(* loop that empties the buffer; where nothing was flushed nor stored      *)
(* nothing overflows.                                                      *)
Stable ==
    \/ pc \in {"nal", "au", "update", "ctus"}
    \/ pc \in {"pps", "output", "header"} /\ ~StartsCvs(nal.nut)
Fits == waiting = {} \/ \E sps \in SpsChoices : Cardinality(waiting) <= sps.reorder
RoomInv ==
    /\ Stable => ~Overflow
    /\ pc # "store" => Fits
    /\ pc = "flush" => Cardinality(waiting) <= guard

(* The sequence so far is an IRAP picture and its leading pictures.        *)
OnlyLeading(i) ==
    /\ i \in InCvs /\ isIRAP(pic[i].nut)
    /\ \A q \in InCvs : q = i \/ Leading(pic[q].nut)

(* The encoder still refers to the IRAP picture leading pictures belong to.*)
Anchored ==
    \A i \in InCvs : OnlyLeading(i) /\ (Received => Leading(nal.nut)) => i \in refs

(* A RASL picture follows a CRA or BLA picture, among leading pictures.    *)
HasIrap == \E i \in InCvs : OnlyLeading(i) /\ (isCRA(pic[i].nut) \/ isBLA(pic[i].nut))

(* The long-term entries of a header: one for each picture, and by LSB     *)
(* only where the LSB names it.                                            *)
LongEntries ==
    \E byLsb \in SUBSET ltRefs :
        /\ nal.lt = {LtEntry(q, nal.truth, q \notin byLsb) : q \in ltRefs}
        /\ \A q \in byLsb : \A x \in dpb \ {q} : Lsb(pic[x].truth) # Lsb(pic[q].truth)

RpsInv ==
    Received =>
        /\ isRASL(nal.nut) => HasIrap
        /\ StartsCvs(nal.nut) => ~nal.used
        /\ ~StartsCvs(nal.nut) /\ ~isRASL(nal.nut) => LongEntries

AbortInv == NoAbort /\ SpsInv /\ RoomInv /\ Anchored /\ RpsInv

LEMMA AbortInit == Init => AbortInv
<1> SUFFICES ASSUME Init PROVE AbortInv
  OBVIOUS
<1>1. /\ dpb = {} /\ waiting = {} /\ pc = "nal" /\ nal = Aud /\ cvs = 0
      /\ limits = NoLimits /\ Created = {} /\ InCvs = {}
  BY DEF Init, Created, InCvs, NoPicture, Picture
<1>2. ~Overflow
  BY <1>1, Empty DEF Overflow, reorderOverflow, latencyOverflow, NoLimits
<1> QED
  BY <1>1, <1>2 DEF AbortInv, NoAbort, SpsInv, RoomInv, Anchored, RpsInv, Received, Fits

-------------------------------------------------------------------------------
(* Steps that change neither the header nor the encoder's references.      *)
LEMMA SameSequence ==
    ASSUME TypeOK, SameFields, cvs' = cvs
    PROVE  /\ Created' = Created /\ InCvs' = InCvs
           /\ \A i : OnlyLeading(i)' <=> OnlyLeading(i)
           /\ HasIrap' <=> HasIrap
<1>1. Created' = Created /\ InCvs' = InCvs /\ InCvs \subseteq Picture
  BY DEF SameFields, Created, InCvs
<1>2. \A i : OnlyLeading(i)' <=> OnlyLeading(i)
  <2> TAKE i
  <2>1. \A q \in InCvs : pic'[q].nut = pic[q].nut
    BY <1>1 DEF SameFields
  <2> QED
    BY <1>1, <2>1 DEF OnlyLeading
<1>3. HasIrap' <=> HasIrap
  BY <1>1, <1>2 DEF HasIrap, SameFields
<1> QED
  BY <1>1, <1>2, <1>3

LEMMA LongEntriesKept ==
    ASSUME LongEntries, dpb' \subseteq dpb, UNCHANGED <<nal, ltRefs>>,
           \A p \in ltRefs \cup dpb : pic'[p].truth = pic[p].truth
    PROVE  LongEntries'
<1>1. PICK byLsb \in SUBSET ltRefs :
        /\ nal.lt = {LtEntry(q, nal.truth, q \notin byLsb) : q \in ltRefs}
        /\ \A q \in byLsb : \A x \in dpb \ {q} : Lsb(pic[x].truth) # Lsb(pic[q].truth)
  BY DEF LongEntries
<1>2. \A q \in ltRefs : LtEntry(q, nal.truth, q \notin byLsb)' = LtEntry(q, nal.truth, q \notin byLsb)
  BY DEF LtEntry
<1>3. nal'.lt = {LtEntry(q, nal.truth, q \notin byLsb)' : q \in ltRefs'}
  BY <1>1, <1>2
<1>4. \A q \in byLsb : \A x \in dpb' \ {q} : Lsb(pic'[x].truth) # Lsb(pic'[q].truth)
  BY <1>1
<1> QED
  BY <1>1, <1>3, <1>4 DEF LongEntries

HeaderFrame ==
    /\ SameFields /\ dpb' \subseteq dpb
    /\ UNCHANGED <<nal, cvs, refs, ltRefs, limits>>
    /\ Received' <=> Received
    /\ Received /\ pc' \in Opening => pc \in Opening

LEMMA HeaderKept ==
    ASSUME TypeOK, SpsInv, Anchored, RpsInv, HeaderFrame
    PROVE  SpsInv' /\ Anchored' /\ RpsInv'
<1>1. /\ Created' = Created /\ InCvs' = InCvs
      /\ \A i : OnlyLeading(i)' <=> OnlyLeading(i)
      /\ HasIrap' <=> HasIrap
  BY SameSequence DEF HeaderFrame
<1>2. SpsInv'
  BY <1>1 DEF SpsInv, HeaderFrame
<1>3. Anchored'
  BY <1>1 DEF Anchored, HeaderFrame
<1>4. \A p \in ltRefs \cup dpb : pic'[p].truth = pic[p].truth
  BY DEF HeaderFrame, SameFields, TypeOK, BufferTypeOK, EncoderTypeOK
<1>5. LongEntries => LongEntries'
  BY <1>4, LongEntriesKept DEF HeaderFrame
<1>6. RpsInv'
  BY <1>1, <1>5 DEF RpsInv, HeaderFrame
<1> QED
  BY <1>2, <1>3, <1>6

(* What is known of the pictures that wait.                                *)
LEMMA WaitingOfCreated ==
    ASSUME TypeOK, IdentityInv, SpsInv
    PROVE  waiting = {} \/ limits \in SpsChoices
BY DEF TypeOK, BufferTypeOK, IdentityInv, NumberInv, Numbered, SpsInv

LEMMA FitsLimits ==
    ASSUME TypeOK, IdentityInv, SpsInv, ~Overflow
    PROVE  Fits
<1>1. Cardinality(waiting) \in Nat /\ limits.reorder \in Nat
  BY WaitingSize DEF TypeOK, BufferTypeOK, Limits
<1> QED
  BY <1>1, WaitingOfCreated DEF Fits, Overflow, reorderOverflow

LEMMA FitsGuard ==
    ASSUME TypeOK, IdentityInv, SpsInv, GuardsSuffice, Fits
    PROVE  Cardinality(waiting) <= BumpGuard(limits)
<1>1. BumpGuard(limits) \in Nat /\ Cardinality(waiting) \in Nat
  BY BumpGuardType, WaitingSize
<1>2. CASE waiting = {}
  BY <1>1, <1>2, WaitingSize
<1>3. CASE waiting # {}
  <2>1. PICK sps \in SpsChoices : Cardinality(waiting) <= sps.reorder
    BY <1>3 DEF Fits
  <2>2. sps.reorder <= BumpGuard(limits) /\ sps.reorder \in Nat
    BY <1>3, WaitingOfCreated, BitstreamAssumption DEF GuardsSuffice, Limits
  <2> QED
    BY <1>1, <2>1, <2>2
<1> QED
  BY <1>2, <1>3

LEMMA NothingWaits ==
    ASSUME TypeOK, waiting' = {}, limits' = limits
    PROVE  ~Overflow' /\ Fits'
<1>1. limits.reorder \in Nat
  BY DEF TypeOK, BufferTypeOK, Limits
<1>2. Cardinality(waiting') = 0
  BY Empty
<1> QED
  BY <1>1, <1>2 DEF Overflow, reorderOverflow, latencyOverflow, Fits

LEMMA RoomKept ==
    ASSUME TypeOK, RoomInv, UNCHANGED <<waiting, latency, limits>>,
           Stable' => Stable \/ ~Overflow,
           pc' # "store" => pc # "store" \/ Fits,
           pc' = "flush" => pc = "flush" /\ guard' = guard
    PROVE  RoomInv'
<1>1. (Overflow' <=> Overflow) /\ (Fits' <=> Fits)
  BY DEF Overflow, reorderOverflow, latencyOverflow, Fits
<1> QED
  BY <1>1 DEF RoomInv

LEMMA BumpShrinks ==
    ASSUME TypeOK, Bump
    PROVE  /\ Cardinality(waiting') = Cardinality(waiting) - 1
           /\ dpb' \subseteq dpb /\ limits' = limits
           /\ Fits => Fits'
<1>1. PICK p \in waiting :
        /\ waiting' = waiting \ {p}
        /\ dpb' = IF pic[p].ref = "Unused" THEN dpb \ {p} ELSE dpb
        /\ limits' = limits
  BY Zenon DEF Bump
<1>2. Cardinality(waiting') = Cardinality(waiting) - 1
  BY <1>1, WaitingSize, FS_RemoveElement
<1>3. ASSUME Fits PROVE Fits'
  <2>1. PICK sps \in SpsChoices : Cardinality(waiting) <= sps.reorder
    BY <1>1, <1>3 DEF Fits
  <2>2. Cardinality(waiting') <= sps.reorder /\ sps \in SpsChoices'
    BY <1>2, <2>1, WaitingSize, BitstreamAssumption DEF Limits
  <2> QED
    BY <2>2 DEF Fits
<1> QED
  BY <1>1, <1>2, <1>3

-------------------------------------------------------------------------------
(* What the encoder promises with a header.                                *)
SentBegins ==
    /\ StartsCvs(nal'.nut) /\ ~Leading(nal'.nut)
    /\ nal'.sps \in SpsChoices /\ ~nal'.used
SentFollows ==
    /\ ~StartsCvs(nal'.nut) /\ nal'.sps = limits
    /\ LeadingOrTrailing(nal'.nut, nal'.truth)
    /\ IF isRASL(nal'.nut) THEN UNCHANGED <<refs, ltRefs>>
       ELSE /\ \E kept \in SUBSET refs : refs' = kept \cup {nextNo} /\ KeepsIrap(nal'.nut, kept)
            /\ \E byLsb \in SUBSET ltRefs' :
                  /\ nal'.lt = {LtEntry(q, nal'.truth, q \notin byLsb) : q \in ltRefs'}
                  /\ \A q \in byLsb : LsbNames(q)

LEMMA SendPromises ==
    ASSUME TypeOK, AUInv, SendPicture
    PROVE  nal'.nut \in Nuts /\ (SentBegins \/ SentFollows)
<1>1. nal'.nut \in Nuts /\ (StartsCvs(nal'.nut) <=> isIRAP(nal'.nut))
  BY SendPictureType, StartsIffIRAP DEF Sent
<1>2. CASE SendIrap
  <2>1. PICK nut \in {t \in Nuts : isIRAP(t)}, sps \in SpsChoices, f \in OutFlags :
          \E truth \in IrapTruths(nut), noPrior \in NoPriorFlags(nut), foll \in IrapSets(nut) :
              SendIrapAs(nut, sps, f, truth, noPrior, foll)
    BY <1>2, Zenon DEF SendIrap
  <2>2. nal'.nut = nut /\ nal'.sps = sps /\ ~nal'.used
    BY <2>1 DEF SendIrapAs
  <2>3. isIRAP(nal'.nut)
    BY <2>1, <2>2
  <2>4. ~Leading(nal'.nut)
    BY <2>3 DEF isIRAP, Leading, isRASL, isRADL, BLA_W_LP, RASL_N, RASL_R, RADL_N, RADL_R
  <2> QED
    BY <1>1, <2>2, <2>3, <2>4 DEF SentBegins
<1>3. CASE SendRasl
  <2>1. PICK nut \in {t \in Nuts : isRASL(t)}, tid \in Tids, f \in OutFlags, d \in PocReach :
          SendRaslAs(nut, tid, f, encTid0 + d)
    BY <1>3, Zenon DEF SendRasl
  <2>2. /\ nal'.nut = nut /\ nal'.truth = encTid0 + d /\ nal'.sps = limits
        /\ UNCHANGED <<refs, ltRefs>> /\ MayFollow(nut, encTid0 + d)
    BY <2>1 DEF SendRaslAs
  <2>3. isRASL(nal'.nut)
    BY <2>1, <2>2
  <2>4. ~isIRAP(nal'.nut)
    BY <2>3 DEF isIRAP, isRASL, BLA_W_LP, RASL_N, RASL_R
  <2> QED
    BY <1>1, <2>2, <2>3, <2>4 DEF SentFollows, MayFollow
<1>4. CASE SendInter
  <2>1. PICK nut \in {t \in Nuts : ~isIRAP(t) /\ ~isRASL(t)}, tid \in Tids, f \in OutFlags,
             d \in PocReach, kept \in SUBSET refs :
        \E long \in LongSets(kept) :
        \E byLsb \in SUBSET {q \in long : LsbNames(q)} :
            SendInterAs(nut, tid, f, encTid0 + d, kept, long, byLsb)
    BY <1>4, Zenon DEF SendInter
  <2>2. PICK long \in LongSets(kept) :
          \E byLsb \in SUBSET {q \in long : LsbNames(q)} :
              SendInterAs(nut, tid, f, encTid0 + d, kept, long, byLsb)
    BY <2>1, Zenon
  <2>3. PICK byLsb \in SUBSET {q \in long : LsbNames(q)} :
          SendInterAs(nut, tid, f, encTid0 + d, kept, long, byLsb)
    BY <2>2, Zenon
  <2>4. /\ nal'.nut = nut /\ nal'.truth = encTid0 + d /\ nal'.sps = limits
        /\ nal'.lt = {LtEntry(q, encTid0 + d, q \notin byLsb) : q \in long}
        /\ refs' = kept \cup {nextNo} /\ ltRefs' = long
        /\ MayFollow(nut, encTid0 + d) /\ KeepsIrap(nut, kept)
    BY <2>3 DEF SendInterAs
  <2>5. nal'.lt = {LtEntry(q, nal'.truth, q \notin byLsb) : q \in ltRefs'}
    BY <2>4, Zenon
  <2>6. byLsb \in SUBSET ltRefs' /\ \A q \in byLsb : LsbNames(q)
    BY <2>4
  <2>7. ~isIRAP(nal'.nut) /\ ~isRASL(nal'.nut)
    BY <2>1, <2>4
  <2>8. /\ \E k \in SUBSET refs : refs' = k \cup {nextNo} /\ KeepsIrap(nal'.nut, k)
        /\ LeadingOrTrailing(nal'.nut, nal'.truth)
    BY <2>4, Zenon DEF MayFollow
  <2>9. \E b \in SUBSET ltRefs' :
           /\ nal'.lt = {LtEntry(q, nal'.truth, q \notin b) : q \in ltRefs'}
           /\ \A q \in b : LsbNames(q)
    BY <2>5, <2>6, Zenon
  <2> QED
    BY <1>1, <2>4, <2>7, <2>8, <2>9, Zenon DEF SentFollows
<1> QED
  BY <1>2, <1>3, <1>4 DEF SendPicture

(* After a step that closes the access unit.                               *)
LEMMA RoomClosed ==
    ASSUME TypeOK, RoomInv, pc = "nal", NEW tid, CloseAU(tid)
    PROVE  RoomInv' /\ limits' = limits /\ pc' \in {"store", "au"}
<1>1. \/ pc' = "store" /\ limits' = limits
      \/ pc' = "au" /\ UNCHANGED <<waiting, latency, limits>>
  BY Zenon DEF CloseAU, EmplaceBack, dpbVars
<1>2. CASE pc' = "store"
  BY <1>1, <1>2 DEF RoomInv, Stable
<1>3. CASE pc' = "au" /\ UNCHANGED <<waiting, latency, limits>>
  BY <1>3, RoomKept DEF Stable
<1> QED
  BY <1>1, <1>2, <1>3

LEMMA LeadsNothing ==
    ASSUME NEW nut, Leading(nut)
    PROVE  ~isIRAP(nut) /\ ~StartsCvs(nut)
BY DEF isIRAP, Leading, isRASL, isRADL, BLA_W_LP, RASL_N, RASL_R, RADL_N, RADL_R, StartsCvs,
   isIDR, isBLA, isCRA, IDR_W_RADL, IDR_N_LP, BLA_N_LP, CRA_NUT

LEMMA AbortSend ==
    ASSUME CodeRules, TypeOK, AUInv, IdentityInv, AbortInv, FirstSliceSegment
    PROVE  AbortInv'
<1>1. /\ pc = "nal" /\ SendPicture /\ CloseAU(nal'.tid) /\ UNCHANGED <<pic, cvs, au>>
  BY DEF FirstSliceSegment
<1>2. nal'.nut \in Nuts /\ (SentBegins \/ SentFollows)
  BY <1>1, SendPromises
<1>3. RoomInv' /\ limits' = limits /\ pc' \in {"store", "au"}
  BY <1>1, RoomClosed DEF AbortInv
<1>4. nal' # Aud /\ nal' # EndOfStream
  BY <1>2, BitstreamAssumption DEF Aud, EndOfStream, NonVcl, AUD_NUT, RSV_VCL31
<1>5. Received' /\ ~Received /\ NoAbort'
  BY <1>1, <1>3, <1>4 DEF Received, NoAbort
<1>6. /\ Created' = Created /\ InCvs' = InCvs /\ InCvs \subseteq Created
      /\ \A i : OnlyLeading(i)' <=> OnlyLeading(i)
      /\ HasIrap' <=> HasIrap
  BY <1>1, SameSequence, SamePicFields DEF InCvs
<1>7. SpsInv'
  <2>1. SentFollows => Created # {}
    BY <1>6 DEF SentFollows, LeadingOrTrailing
  <2> QED
    BY <1>2, <1>3, <1>6, <2>1 DEF SpsInv, AbortInv, SentBegins, SentFollows
<1>8. Anchored'
  <2> SUFFICES ASSUME NEW i \in InCvs, OnlyLeading(i), Leading(nal'.nut)
               PROVE  i \in refs'
    BY <1>5, <1>6 DEF Anchored
  <2>1. i \in refs /\ isIRAP(pic[i].nut)
    BY <1>5 DEF AbortInv, Anchored, OnlyLeading
  <2>2. SentFollows
    BY <1>2 DEF SentBegins
  <2>3. isRASL(nal'.nut) \/ \E kept \in SUBSET refs : refs' = kept \cup {nextNo} /\ KeepsIrap(nal'.nut, kept)
    BY <2>2 DEF SentFollows
  <2>4. ASSUME NEW kept, KeepsIrap(nal'.nut, kept)
        PROVE  i \in kept
    BY <2>1, <2>4 DEF KeepsIrap
  <2> QED
    BY <2>1, <2>2, <2>3, <2>4 DEF SentFollows
<1>9. isRASL(nal'.nut) => HasIrap'
  <2> SUFFICES ASSUME isRASL(nal'.nut) PROVE HasIrap
    BY <1>6
  <2>1. Leading(nal'.nut)
    BY DEF Leading
  <2>2. LeadingOrTrailing(nal'.nut, nal'.truth)
    BY <1>2, <2>1 DEF SentBegins, SentFollows
  <2>3. PICK i \in InCvs : /\ isIRAP(pic[i].nut) /\ pic[i].nut \in {CRA_NUT, BLA_W_LP}
                           /\ \A q \in InCvs : q = i \/ Leading(pic[q].nut)
    BY <2>1, <2>2 DEF LeadingOrTrailing
  <2>4. isCRA(pic[i].nut) \/ isBLA(pic[i].nut)
    BY <2>3 DEF isCRA, isBLA, BLA_W_LP, BLA_N_LP
  <2> QED
    BY <2>3, <2>4 DEF HasIrap, OnlyLeading
<1>10. ~StartsCvs(nal'.nut) /\ ~isRASL(nal'.nut) => LongEntries'
  <2> SUFFICES ASSUME ~StartsCvs(nal'.nut), ~isRASL(nal'.nut)
               PROVE  LongEntries'
    OBVIOUS
  <2>1. PICK byLsb \in SUBSET ltRefs' :
           /\ nal'.lt = {LtEntry(q, nal'.truth, q \notin byLsb) : q \in ltRefs'}
           /\ \A q \in byLsb : LsbNames(q)
    BY <1>2 DEF SentBegins, SentFollows
  <2>2. dpb' \subseteq dpb \cup (InCvs \cap {curr})
    BY <1>1, CloseAUClosed, CurrType
       DEF Closed, IdentityInv, NumberInv, Numbered, InCvs, Created, TypeOK
  <2>3. \A q \in byLsb : \A x \in dpb' \ {q} : Lsb(pic'[x].truth) # Lsb(pic'[q].truth)
    BY <1>1, <2>1, <2>2 DEF LsbNames
  <2> QED
    BY <2>1, <2>3, <1>1 DEF LongEntries, LtEntry
<1>11. RpsInv'
  BY <1>2, <1>9, <1>10 DEF RpsInv, SentBegins, SentFollows
<1> QED
  BY <1>3, <1>5, <1>7, <1>8, <1>11 DEF AbortInv

(* A delimiter, or the end of the bitstream.                               *)
LEMMA AbortDelimiter ==
    ASSUME TypeOK, AUInv, IdentityInv, AbortInv, AccessUnitDelimiter
    PROVE  AbortInv'
<1>1. /\ pc = "nal" /\ nal' = Aud /\ CloseAU(-1)
      /\ UNCHANGED <<pic, cvs, refs, ltRefs>>
  BY DEF AccessUnitDelimiter
<1>2. RoomInv' /\ limits' = limits /\ pc' \in {"store", "au"}
  BY <1>1, RoomClosed DEF AbortInv
<1>3. ~Received' /\ ~Received /\ NoAbort'
  BY <1>1, <1>2 DEF Received, NoAbort
<1>4. Created' = Created /\ InCvs' = InCvs /\ \A i : OnlyLeading(i)' <=> OnlyLeading(i)
  BY <1>1, SameSequence, SamePicFields
<1>5. SpsInv' /\ Anchored' /\ RpsInv'
  BY <1>1, <1>2, <1>3, <1>4 DEF AbortInv, SpsInv, Anchored, RpsInv
<1> QED
  BY <1>2, <1>3, <1>5 DEF AbortInv

LEMMA AbortEnd ==
    ASSUME GuardsSuffice, TypeOK, AUInv, IdentityInv, AbortInv, EndOfBitstream
    PROVE  AbortInv'
<1>1. /\ pc = "nal" /\ nal' = EndOfStream
      /\ UNCHANGED <<pic, cvs, refs, ltRefs, limits>>
      /\ \/ pc' = "store"
         \/ pc' = "flush" /\ guard' = BumpGuard(limits) /\ UNCHANGED <<waiting, latency>>
  BY Zenon DEF EndOfBitstream, EmplaceBack, encVars
<1>2. ~Received' /\ ~Received /\ NoAbort'
  BY <1>1 DEF Received, NoAbort
<1>3. Created' = Created /\ InCvs' = InCvs /\ \A i : OnlyLeading(i)' <=> OnlyLeading(i)
  BY <1>1, SameSequence, SamePicFields
<1>4. SpsInv' /\ Anchored' /\ RpsInv'
  BY <1>1, <1>2, <1>3 DEF AbortInv, SpsInv, Anchored, RpsInv
<1>5. Fits /\ Cardinality(waiting) <= BumpGuard(limits)
  BY <1>1, FitsGuard DEF AbortInv, RoomInv
<1>6. RoomInv'
  BY <1>1, <1>5 DEF RoomInv, Stable, Fits
<1> QED
  BY <1>2, <1>4, <1>6 DEF AbortInv

-------------------------------------------------------------------------------
(* A new access unit; its picture.                                         *)
LEMMA AbortOpen ==
    ASSUME TypeOK, AUInv, IdentityInv, AbortInv, OpenAU
    PROVE  AbortInv'
<1>1. /\ pc = "au" /\ pc' = (IF nal = Aud THEN "nal" ELSE "pps") /\ nal # EndOfStream
      /\ cvs' = (IF StartsCvs(nal.nut) THEN cvs + 1 ELSE cvs)
      /\ UNCHANGED <<pic, dpb, waiting, latency, limits, nal, refs, ltRefs>>
  BY Zenon DEF OpenAU, dpbVars, encVars, AUInv
<1>2. (Received' <=> Received) /\ (Received <=> nal # Aud) /\ NoAbort'
  BY <1>1 DEF Received, NoAbort
<1>3. RoomInv'
  BY <1>1, RoomKept DEF AbortInv, Stable
<1>4. CASE StartsCvs(nal.nut)
  <2>1. Created' = Created
    BY <1>1 DEF Created
  <2>2. nal # Aud /\ ~Leading(nal.nut) /\ ~isRASL(nal.nut)
    BY <1>4, NoNextSequence, LeadsNothing DEF Leading
  <2>3. SpsInv' /\ Anchored' /\ RpsInv'
    BY <1>1, <1>2, <1>4, <2>1, <2>2 DEF AbortInv, SpsInv, Anchored, RpsInv
  <2> QED
    BY <1>2, <1>3, <2>3 DEF AbortInv
<1>5. CASE ~StartsCvs(nal.nut)
  <2>1. HeaderFrame
    BY <1>1, <1>2, <1>5, SamePicFields DEF HeaderFrame, Opening
  <2> QED
    BY <1>2, <1>3, <2>1, HeaderKept DEF AbortInv
<1> QED
  BY <1>4, <1>5

LEMMA AbortCreate ==
    ASSUME TypeOK, AUInv, PocInv, IdentityInv, MarkingInv, AbortInv, SlicePicParameterSetId
    PROVE  AbortInv'
<1>1. /\ pc = "pps" /\ pc' = "output"
      /\ UNCHANGED <<dpb, waiting, latency, nal, cvs, au, refs, ltRefs>>
      /\ limits' = IF soCVS THEN nal.sps ELSE limits
  BY DEF SlicePicParameterSetId, encVars, Setup
<1>2. /\ curr \in Picture /\ curr \notin Created /\ Created' = Created \cup {curr}
      /\ \A p \in Picture : p # curr => pic'[p] = pic[p]
      /\ pic'[curr] = NewPicture /\ cvs > 0 /\ cpb = "opened"
  BY Creates DEF IdentityInv
<1>3. nal # Aud /\ nal # EndOfStream /\ nal.nut \in Nuts /\ (StartsCvs(nal.nut) <=> isIRAP(nal.nut))
  BY <1>1, HeaderNal
<1>4. Received /\ Received' /\ NoAbort'
  BY <1>1, <1>3 DEF Received, NoAbort
<1>5. limits' \in SpsChoices /\ (~StartsCvs(nal.nut) => limits' = limits)
  <2>1. CASE StartsCvs(nal.nut)
    BY <1>1, <1>4, <2>1 DEF AbortInv, SpsInv, IdentityInv, OneSequence
  <2>2. CASE ~StartsCvs(nal.nut)
    BY <1>1, <1>4, <2>2 DEF AbortInv, SpsInv, Opening
  <2> QED
    BY <2>1, <2>2
<1>6. SpsInv'
  BY <1>1, <1>2, <1>3, <1>4, <1>5 DEF AbortInv, SpsInv, Opening
<1>7. RoomInv'
  <2>1. CASE StartsCvs(nal.nut)
    BY <1>1, <2>1 DEF AbortInv, RoomInv, Stable, Fits
  <2>2. CASE ~StartsCvs(nal.nut)
    BY <1>1, <1>5, <2>2, RoomKept DEF AbortInv, Stable
  <2> QED
    BY <2>1, <2>2
<1>8. pic'[curr].nut = nal.nut /\ InCvs' = InCvs \cup {curr}
      /\ InCvs \subseteq Created /\ \A q \in InCvs : pic'[q] = pic[q]
  BY <1>1, <1>2 DEF NewPicture, InCvs, Created
<1>9. ASSUME Leading(nal.nut), NEW i \in InCvs'
      PROVE  OnlyLeading(i)' <=> i # curr /\ OnlyLeading(i)
  <2>1. ~isIRAP(nal.nut)
    BY <1>9, LeadsNothing
  <2>2. CASE i = curr
    BY <1>8, <2>1, <2>2 DEF OnlyLeading
  <2>3. CASE i # curr
    BY <1>8, <1>9, <2>3 DEF OnlyLeading
  <2> QED
    BY <2>2, <2>3
<1>10. Anchored'
  <2> SUFFICES ASSUME NEW i \in InCvs', OnlyLeading(i)', Leading(nal.nut)
               PROVE  i \in refs
    BY <1>1, <1>4 DEF Anchored
  <2> QED
    BY <1>9 DEF AbortInv, Anchored, OnlyLeading
<1>11. isRASL(nal.nut) => HasIrap'
  <2> SUFFICES ASSUME isRASL(nal.nut) PROVE HasIrap'
    OBVIOUS
  <2>1. PICK i \in InCvs : OnlyLeading(i) /\ (isCRA(pic[i].nut) \/ isBLA(pic[i].nut))
    BY <1>4 DEF AbortInv, RpsInv, HasIrap
  <2>2. Leading(nal.nut) /\ i \in InCvs' /\ i # curr /\ pic'[i] = pic[i]
    BY <1>2, <1>8 DEF Leading
  <2>3. OnlyLeading(i)'
    BY <1>9, <2>1, <2>2
  <2> QED
    BY <2>1, <2>2, <2>3 DEF HasIrap
<1>12. ~StartsCvs(nal.nut) /\ ~isRASL(nal.nut) => LongEntries'
  <2> SUFFICES ASSUME ~StartsCvs(nal.nut), ~isRASL(nal.nut) PROVE LongEntries'
    OBVIOUS
  <2>1. LongEntries /\ curr \notin ltRefs
    BY <1>2, <1>4 DEF AbortInv, RpsInv, MarkingInv, Announced, coming
  <2>2. curr \notin dpb /\ dpb \subseteq Picture /\ ltRefs \subseteq Picture
    BY <1>2 DEF IdentityInv, NumberInv, Numbered, TypeOK, BufferTypeOK, EncoderTypeOK
  <2>3. \A p \in ltRefs \cup dpb : pic'[p].truth = pic[p].truth
    BY <1>2, <2>1, <2>2
  <2> QED
    BY <1>1, <2>1, <2>3, LongEntriesKept
<1>13. RpsInv'
  BY <1>1, <1>4, <1>11, <1>12 DEF AbortInv, RpsInv
<1> QED
  BY <1>4, <1>6, <1>7, <1>10, <1>13 DEF AbortInv

(* pic_output_flag: a RASL picture finds the picture it belongs to.        *)
LEMMA AbortOutputFlag ==
    ASSUME TypeOK, AUInv, PocInv, IdentityInv, MarkingInv, AbortInv, PicOutputFlag
    PROVE  AbortInv'
<1>1. /\ pc = "output"
      /\ \/ pc' = "header"
         \/ isRASL(nal.nut) /\ \A p \in dpb : ~isBLA(pic[p].nut) /\ ~isCRA(pic[p].nut)
      /\ pic' = pic \/ \E b \in BOOLEAN : pic' = [pic EXCEPT ![curr].out = b]
      /\ UNCHANGED <<dpb, waiting, latency, limits, nal, cvs, au, cpb, refs, ltRefs>>
  BY Zenon DEF PicOutputFlag, encVars, dpbVars
<1>2. cpb = "picture" /\ curr \in Picture /\ coming = curr /\ pic[curr].nut = nal.nut
  BY <1>1, CurrType DEF AUInv, coming, PocInv, HeaderAgrees
<1>3. nal # Aud /\ nal # EndOfStream /\ Received
  BY <1>1, HeaderNal DEF Received
<1>4. ASSUME isRASL(nal.nut)
      PROVE  \E p \in dpb : isBLA(pic[p].nut) \/ isCRA(pic[p].nut)
  <2>1. PICK i \in InCvs : OnlyLeading(i) /\ (isCRA(pic[i].nut) \/ isBLA(pic[i].nut))
    BY <1>3, <1>4 DEF AbortInv, RpsInv, HasIrap
  <2>2. Leading(nal.nut) /\ i \in refs
    BY <1>4, <2>1 DEF AbortInv, Anchored, Leading
  <2>3. i # curr
    BY <1>2, <2>1, <2>2, LeadsNothing DEF OnlyLeading
  <2>4. Held = refs \ {curr}
    BY <1>2, <1>3, <1>4 DEF MarkingInv, InStep, Settled
  <2> QED
    BY <2>1, <2>2, <2>3, <2>4 DEF Held
<1>5. pc' = "header"
  BY <1>1, <1>4
<1>6. SameFields
  BY <1>1, <1>2 DEF SameFields, TypeOK, PictureType
<1>7. HeaderFrame
  BY <1>1, <1>3, <1>5, <1>6 DEF HeaderFrame, Received, Opening
<1>8. RoomInv'
  BY <1>1, <1>5, RoomKept DEF AbortInv, Stable
<1> QED
  BY <1>5, <1>7, <1>8, HeaderKept DEF AbortInv, NoAbort

-------------------------------------------------------------------------------
(* The assertions on the reference picture set.                            *)
LEMMA LsbOfLsb ==
    ASSUME NEW poc \in Int
    PROVE  Lsb(Lsb(poc)) = Lsb(poc)
<1>1. Lsb(poc) \in 0 .. MaxPicOrderCntLsb - 1
  BY LsbType
<1>2. MaxPicOrderCntLsb \in Nat /\ MaxPicOrderCntLsb > 0
  BY MaxLsbAssumption
<1>3. \A r \in 0 .. MaxPicOrderCntLsb - 1 : r % MaxPicOrderCntLsb = r
  BY <1>2
<1> QED
  BY <1>1, <1>3 DEF Lsb

LEMMA LtPocIs ==
    ASSUME TypeOK, AUInv, PocInv, IdentityInv, pc = "header", NEW q \in dpb, NEW b \in BOOLEAN
    PROVE  LtPoc(LtEntry(q, nal.truth, b)) = IF b THEN pic[q].truth ELSE Lsb(pic[q].truth)
<1>1. currPoc = nal.truth /\ nal.truth \in Int /\ pic[q].truth \in Int
  BY DpbPocs DEF TypeOK, Coded
<1> QED
  BY <1>1, LtPocNames DEF LtPoc, LtEntry

LEMMA StPocsAre ==
    ASSUME TypeOK, AUInv, PocInv, IdentityInv, pc = "header", Kept, coming = curr
    PROVE  StPocs = {pic[q].truth : q \in (refs \ {curr}) \ ltRefs}
<1> DEFINE K == (refs \ {curr}) \ ltRefs
<1>1. currPoc = nal.truth /\ nal.truth \in Int /\ \A p \in dpb : pic[p].truth \in Int
  BY DpbPocs DEF TypeOK, Coded
<1>2. K \subseteq dpb /\ nal.st = {pic[q].truth - nal.truth : q \in K}
  BY DEF Kept, Held
<1>3. ASSUME NEW q \in K
      PROVE  currPoc + (pic[q].truth - nal.truth) = pic[q].truth
  BY <1>1, <1>2
<1> QED
  BY <1>2, <1>3 DEF StPocs

LEMMA SetPresent ==
    ASSUME TypeOK, AUInv, PocInv, IdentityInv, pc = "header", Kept, coming = curr,
           curr \notin ltRefs
    PROVE  EntriesPresent
<1>1. \A p \in dpb : pic[p].poc = pic[p].truth
  BY DpbPocs
<1>2. refs \ {curr} \subseteq dpb /\ ltRefs \subseteq dpb
  BY DEF Kept, Held, TypeOK, EncoderTypeOK
<1>3. \A v \in StPocs : StMatch(v) # {}
  <2> TAKE v \in StPocs
  <2>1. PICK q \in dpb : v = pic[q].truth
    BY <1>2, StPocsAre
  <2> QED
    BY <1>1, <2>1 DEF StMatch
<1>4. \A l \in nal.lt : LtMatch(l) # {}
  <2> TAKE l \in nal.lt
  <2>1. PICK q \in ltRefs : Names(l, q)
    BY DEF Kept
  <2>2. q \in dpb /\ l.msb \in BOOLEAN
    BY <1>2 DEF TypeOK, Coded
  <2> QED
    BY <2>1, <2>2, LongEntryFinds
<1> QED
  BY <1>3, <1>4 DEF EntriesPresent

LEMMA SetDistinct ==
    ASSUME TypeOK, AUInv, PocInv, IdentityInv, pc = "header", Kept, coming = curr,
           curr \notin ltRefs, LongEntries
    PROVE  EntriesDistinct
<1>1. /\ \A p \in dpb : pic[p].truth \in Int
      /\ \A p, q \in dpb : pic[p].truth = pic[q].truth => p = q
  BY DpbPocs
<1>2. refs \ {curr} \subseteq dpb /\ ltRefs \subseteq dpb
  BY DEF Kept, Held, TypeOK, EncoderTypeOK
<1>3. PICK B \in SUBSET ltRefs :
        /\ nal.lt = {LtEntry(q, nal.truth, q \notin B) : q \in ltRefs}
        /\ \A q \in B : \A x \in dpb \ {q} : Lsb(pic[x].truth) # Lsb(pic[q].truth)
  BY DEF LongEntries
<1> DEFINE Value(q) == IF q \notin B THEN pic[q].truth ELSE Lsb(pic[q].truth)
<1>4. ASSUME NEW l \in nal.lt
      PROVE  \E q \in ltRefs : /\ l = LtEntry(q, nal.truth, q \notin B)
                               /\ LtPoc(l) = Value(q) /\ l.msb = (q \notin B)
  <2>1. PICK q \in ltRefs : l = LtEntry(q, nal.truth, q \notin B)
    BY <1>3
  <2>2. q \in dpb /\ (q \notin B) \in BOOLEAN
    BY <1>2
  <2>3. LtPoc(l) = Value(q)
    BY <2>1, <2>2, LtPocIs
  <2>4. l.msb = (q \notin B)
    BY <2>1 DEF LtEntry
  <2> QED
    BY <2>1, <2>3, <2>4
<1>5. ASSUME NEW q \in ltRefs, NEW x \in dpb, x # q, NEW v, v = pic[x].truth \/ (x \in B /\ v = Lsb(pic[x].truth))
      PROVE  Value(q) # IF q \notin B THEN v ELSE Lsb(v)
  <2>1. /\ pic[q].truth # pic[x].truth
        /\ q \in B \/ x \in B => Lsb(pic[q].truth) # Lsb(pic[x].truth)
        /\ Lsb(Lsb(pic[x].truth)) = Lsb(pic[x].truth)
    BY <1>1, <1>2, <1>3, <1>5, LsbOfLsb
  <2>2. CASE q \in B
    <3>1. Lsb(v) = Lsb(pic[x].truth)
      BY <1>5, <2>1
    <3> QED
      BY <2>1, <2>2, <3>1
  <2>3. CASE q \notin B /\ v = pic[x].truth
    BY <2>1, <2>3
  <2>4. CASE q \notin B /\ x \in B /\ v = Lsb(pic[x].truth)
    <3>1. pic[q].truth = v => Lsb(pic[q].truth) = Lsb(pic[x].truth)
      BY <2>1, <2>4
    <3> QED
      BY <2>1, <2>4, <3>1
  <2> QED
    BY <1>5, <2>2, <2>3, <2>4
<1>6. ASSUME NEW l \in nal.lt, NEW v \in StPocs \cup {LtPoc(k) : k \in nal.lt \ {l}}
      PROVE  LtPoc(l) # IF l.msb THEN v ELSE Lsb(v)
  <2>1. PICK q \in ltRefs : /\ l = LtEntry(q, nal.truth, q \notin B)
                            /\ LtPoc(l) = Value(q) /\ l.msb = (q \notin B)
    BY <1>4
  <2>2. \E x \in dpb : x # q /\ (v = pic[x].truth \/ (x \in B /\ v = Lsb(pic[x].truth)))
    <3>1. CASE v \in StPocs
      BY <1>2, <3>1, StPocsAre
    <3>2. CASE v \in {LtPoc(k) : k \in nal.lt \ {l}}
      <4>1. PICK k \in nal.lt \ {l} : v = LtPoc(k)
        BY <3>2
      <4>2. PICK x \in ltRefs : k = LtEntry(x, nal.truth, x \notin B) /\ LtPoc(k) = Value(x)
        BY <1>4
      <4>3. x # q /\ x \in dpb
        BY <1>2, <2>1, <4>2
      <4> QED
        BY <4>1, <4>2, <4>3
    <3> QED
      BY <3>1, <3>2
  <2>3. Value(q) # IF q \notin B THEN v ELSE Lsb(v)
    BY <1>5, <2>2
  <2> QED
    BY <2>1, <2>3
<1> QED
  BY <1>6, Zenon DEF EntriesDistinct

LEMMA HeaderSane ==
    ASSUME TypeOK, AUInv, PocInv, IdentityInv, MarkingInv, RpsInv, pc = "header",
           ~isRASL(nal.nut)
    PROVE  RpsSane
<1>1. /\ nal # Aud /\ nal # EndOfStream /\ Received /\ coming = curr
      /\ (StartsCvs(nal.nut) <=> isIRAP(nal.nut))
  BY HeaderNal DEF Received, AUInv, coming
<1>2. /\ curr \notin ltRefs
      /\ IF StartsCvs(nal.nut) THEN KeptNothing ELSE Kept
  BY <1>1 DEF MarkingInv, Announced
<1>3. CASE StartsCvs(nal.nut)
  <2>1. ~nal.used /\ nal.lt = {}
    BY <1>1, <1>2, <1>3 DEF RpsInv, KeptNothing
  <2> QED
    BY <2>1 DEF RpsSane, EntriesDistinct, EntriesPresent
<1>4. CASE ~StartsCvs(nal.nut)
  <2>1. EntriesPresent /\ EntriesDistinct
    BY <1>1, <1>2, <1>4, SetPresent, SetDistinct DEF RpsInv
  <2>2. ~isBLA(nal.nut) /\ ~isCRA(nal.nut)
    BY <1>4 DEF StartsCvs
  <2> QED
    BY <2>1, <2>2 DEF RpsSane
<1> QED
  BY <1>3, <1>4

LEMMA AbortHeader ==
    ASSUME GuardsSuffice, TypeOK, AUInv, PocInv, IdentityInv, MarkingInv, AbortInv,
           SliceSegmentHeader
    PROVE  AbortInv'
<1>1. pc = "header" /\ cpb = "picture" /\ coming = curr /\ curr \in Picture
  BY CurrType DEF SliceSegmentHeader, AUInv, coming
<1>2. isRASL(nal.nut) \/ RpsSane
  BY <1>1, HeaderSane DEF AbortInv
<1>3. /\ UNCHANGED <<latency, limits, nal, cvs, refs, ltRefs>>
      /\ \/ pc' = "update" /\ StartOfSequence /\ soCVS /\ waiting' = {}
         \/ /\ pc' = (IF StartOfSequence /\ soCVS THEN "flush" ELSE "update")
            /\ waiting' = waiting /\ guard' = BumpGuard(limits)
  BY <1>1, <1>2, Zenon DEF SliceSegmentHeader, Clear, encVars
<1>4. /\ nal # Aud /\ nal # EndOfStream /\ Received
      /\ (StartsCvs(nal.nut) <=> isIRAP(nal.nut)) /\ pic[curr].nut = nal.nut
  BY <1>1, HeaderNal DEF Received, PocInv, HeaderAgrees
<1>5. StartsCvs(nal.nut) <=> StartOfSequence /\ soCVS
  BY <1>1, <1>4 DEF IdentityInv, OneSequence, PocInv, HeaderAgrees, StartOfSequence
<1>6. SameFields
  <2>1. pic' = [p \in Picture |-> IF p = curr THEN [pic[p] EXCEPT !.poc = currPoc]
                                  ELSE [pic[p] EXCEPT !.ref = Marking[p]]]
    BY DEF SliceSegmentHeader
  <2> QED
    BY <2>1 DEF SameFields, TypeOK, PictureType
<1>7. ~Received' /\ NoAbort' /\ pc' \in {"update", "flush"}
  BY <1>3 DEF Received, NoAbort
<1>8. Created' = Created /\ InCvs' = InCvs /\ \A i : OnlyLeading(i)' <=> OnlyLeading(i)
  BY <1>3, <1>6, SameSequence
<1>9. SpsInv' /\ RpsInv'
  BY <1>3, <1>7, <1>8 DEF AbortInv, SpsInv, RpsInv
<1>10. Anchored'
  <2> SUFFICES ASSUME NEW i \in InCvs, OnlyLeading(i)
               PROVE  i \in refs
    BY <1>3, <1>8 DEF Anchored
  <2>1. CASE i = curr
    <3>1. ~isRASL(nal.nut)
      BY <1>4, <2>1, LeadsNothing DEF OnlyLeading, Leading
    <3> QED
      BY <1>1, <1>4, <2>1, <3>1 DEF MarkingInv, Announced
  <2>2. CASE i # curr
    <3>1. curr \in InCvs
      BY <1>1 DEF IdentityInv, NumberInv, Numbered, InCvs, Created
    <3>2. Leading(nal.nut)
      BY <1>4, <2>2, <3>1 DEF OnlyLeading
    <3> QED
      BY <3>2 DEF AbortInv, Anchored
  <2> QED
    BY <2>1, <2>2
<1>11. RoomInv'
  <2>1. CASE waiting' = {}
    <3>1. ~Overflow' /\ Fits'
      BY <1>3, <2>1, NothingWaits
    <3>2. pc' = "flush" => Cardinality(waiting') <= guard'
      BY <1>3, <2>1, Empty, BumpGuardType
    <3> QED
      BY <3>1, <3>2 DEF RoomInv
  <2>2. CASE /\ waiting' = waiting /\ guard' = BumpGuard(limits)
             /\ pc' = (IF StartsCvs(nal.nut) THEN "flush" ELSE "update")
    <3>1. Fits /\ Cardinality(waiting) <= BumpGuard(limits)
      BY <1>1, FitsGuard DEF AbortInv, RoomInv
    <3>2. (Overflow' <=> Overflow) /\ (Fits' <=> Fits)
      BY <1>3, <2>2 DEF Overflow, reorderOverflow, latencyOverflow, Fits
    <3>3. ~StartsCvs(nal.nut) => ~Overflow
      BY <1>1 DEF AbortInv, RoomInv, Stable
    <3> QED
      BY <2>2, <3>1, <3>2, <3>3 DEF RoomInv, Stable
  <2> QED
    BY <1>3, <1>5, <2>1, <2>2
<1> QED
  BY <1>7, <1>9, <1>10, <1>11 DEF AbortInv

-------------------------------------------------------------------------------
(* The bumping loops, and the steps that leave the buffer alone.           *)
LEMMA AbortBump ==
    ASSUME TypeOK, AUInv, IdentityInv, AbortInv, StoreBump \/ FlushBump \/ UpdateBump
    PROVE  AbortInv'
<1>1. UNCHANGED <<pic, nal, cvs, refs, ltRefs>>
  BY DEF StoreBump, FlushBump, UpdateBump, encVars
<1>2. CASE StoreBump
  <2>1. pc = "store" /\ pc' = "store" /\ Bump
    BY <1>2 DEF StoreBump
  <2>2. HeaderFrame
    BY <1>1, <2>1, BumpShrinks, SamePicFields DEF HeaderFrame, Received
  <2>3. RoomInv'
    BY <2>1 DEF RoomInv, Stable
  <2> QED
    BY <2>1, <2>2, <2>3, HeaderKept DEF AbortInv, NoAbort
<1>3. CASE FlushBump
  <2>1. pc = "flush" /\ waiting # {} /\ guard \in Nat
    BY <1>3 DEF FlushBump, TypeOK
  <2>2. Cardinality(waiting) <= guard /\ Cardinality(waiting) \in Nat /\ Cardinality(waiting) # 0
    BY <2>1, WaitingSize DEF AbortInv, RoomInv
  <2>3. guard > 0
    BY <2>1, <2>2
  <2>4. Bump /\ guard' = guard - 1 /\ pc' = pc
    BY <1>3, <2>3, Zenon DEF FlushBump, GuardedBump
  <2>5. HeaderFrame
    BY <1>1, <2>4, BumpShrinks, SamePicFields DEF HeaderFrame, Received
  <2>6. Cardinality(waiting') <= guard' /\ Fits'
    BY <2>1, <2>2, <2>4, BumpShrinks DEF AbortInv, RoomInv
  <2>7. RoomInv'
    BY <2>1, <2>4, <2>6 DEF RoomInv, Stable
  <2> QED
    BY <2>1, <2>4, <2>5, <2>7, HeaderKept DEF AbortInv, NoAbort
<1>4. CASE UpdateBump
  <2>1. pc = "update" /\ ~Overflow
    BY <1>4 DEF UpdateBump, AbortInv, RoomInv, Stable
  <2>2. pc' = "ctus" /\ UNCHANGED dpbVars
    BY <1>4, <2>1, Zenon DEF UpdateBump
  <2>3. HeaderFrame
    BY <1>1, <2>1, <2>2, SamePicFields DEF HeaderFrame, Received, Opening, dpbVars
  <2>4. RoomInv'
    BY <2>1, <2>2, RoomKept DEF AbortInv, dpbVars
  <2> QED
    BY <2>2, <2>3, <2>4, HeaderKept DEF AbortInv, NoAbort
<1> QED
  BY <1>2, <1>3, <1>4

LEMMA AbortStays ==
    ASSUME TypeOK, AUInv, IdentityInv, AbortInv,
           \/ EndOfSequence \/ StoreDone \/ FinishPicture \/ LoseSlices \/ UNCHANGED vars
    PROVE  AbortInv'
<1>1. UNCHANGED <<pic, dpb, waiting, latency, limits, nal, cvs, refs, ltRefs>>
  BY DEF EndOfSequence, StoreDone, FinishPicture, LoseSlices, vars, dpbVars, encVars
<1>2. \/ pc' = pc
      \/ pc = "store" /\ pc' = "au" /\ ~Overflow
      \/ pc = "ctus" /\ pc' = "nal"
  BY DEF EndOfSequence, StoreDone, FinishPicture, LoseSlices, vars
<1>3. guard' = guard
  BY DEF EndOfSequence, StoreDone, FinishPicture, LoseSlices, vars
<1>4. HeaderFrame
  BY <1>1, <1>2, SamePicFields DEF HeaderFrame, Received, Opening
<1>5. ~Overflow => Fits
  BY FitsLimits DEF AbortInv
<1>6. RoomInv'
  BY <1>1, <1>2, <1>3, <1>5, RoomKept DEF AbortInv, Stable
<1> QED
  BY <1>2, <1>4, <1>6, HeaderKept DEF AbortInv, NoAbort

(* The ends of the flushes.                                                *)
LEMMA AbortFlushed ==
    ASSUME GuardsSuffice, TypeOK, AUInv, IdentityInv, AbortInv, Flushed \/ LastFlush \/ Finish
    PROVE  AbortInv'
<1>1. UNCHANGED <<pic, limits, nal, cvs, refs, ltRefs, latency>>
  BY DEF Flushed, LastFlush, Finish, encVars
<1>2. /\ dpb' \subseteq dpb /\ pc \in {"store", "flush"} /\ pc' \in {"update", "flush", "done"}
      /\ pc' = "update" => pc = "flush"
      /\ pc = "store" => nal = EndOfStream
  BY DEF Flushed, LastFlush, Finish, EraseUnused, Clear
<1>3. HeaderFrame
  <2>1. Received' <=> Received
    BY <1>1, <1>2 DEF Received
  <2> QED
    BY <1>1, <1>2, <2>1, SamePicFields DEF HeaderFrame, Opening
<1>4. RoomInv'
  <2>1. CASE Flushed \/ Finish
    <3>1. waiting' = {} /\ pc' # "flush"
      BY <2>1 DEF Flushed, Finish, Clear
    <3> QED
      BY <1>1, <3>1, NothingWaits DEF RoomInv
  <2>2. CASE LastFlush
    <3>1. /\ ~Overflow /\ waiting' = waiting /\ guard' = BumpGuard(limits) /\ pc' = "flush"
      BY <2>2 DEF LastFlush
    <3>2. Fits /\ Cardinality(waiting) <= BumpGuard(limits)
      BY <3>1, FitsLimits, FitsGuard DEF AbortInv
    <3> QED
      BY <3>1, <3>2 DEF RoomInv, Stable, Fits
  <2> QED
    BY <2>1, <2>2
<1> QED
  BY <1>2, <1>3, <1>4, HeaderKept DEF AbortInv, NoAbort

LEMMA AbortStep ==
    ASSUME CodeRules, GuardsSuffice, StreamInv, AbortInv, [Next]_vars
    PROVE  AbortInv'
<1>1. TypeOK /\ AUInv /\ PocInv /\ IdentityInv /\ MarkingInv
  BY DEF StreamInv
<1>2. CASE UNCHANGED vars \/ Terminated
  BY <1>1, <1>2, AbortStays DEF Terminated
<1>3. CASE FirstSliceSegment \/ AccessUnitDelimiter \/ EndOfBitstream
  BY <1>1, <1>3, AbortSend, AbortDelimiter, AbortEnd
<1>4. CASE OpenAU \/ SlicePicParameterSetId \/ PicOutputFlag \/ SliceSegmentHeader
  BY <1>1, <1>4, AbortOpen, AbortCreate, AbortOutputFlag, AbortHeader
<1> QED
  BY <1>1, <1>2, <1>3, <1>4, AbortStays, AbortBump, AbortFlushed, Zenon DEF Next

(* No runtime_assert of the picture level fails: the guards of the bumping *)
(* loops, the associated IRAP picture and the sanity of the reference      *)
(* picture set (DPB.cpp:116-126, State.cpp:396-412 and 737-750,            *)
(* ReferencePictureSet.cpp:275-350).                                       *)
THEOREM NeverAborts ==
    ASSUME CodeRules, GuardsSuffice
    PROVE  Spec => []NoAbort
<1>1. StreamInv /\ AbortInv /\ [Next]_vars => AbortInv'
  BY AbortStep
<1>2. AbortInv => NoAbort
  BY DEF AbortInv
<1> QED
  BY <1>1, <1>2, AbortInit, StreamInvariant, PTL DEF Spec
================================================================================

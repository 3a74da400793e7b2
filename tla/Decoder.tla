-------------------------------- MODULE Decoder --------------------------------
(***************************************************************************)
(* The picture level of the decoder: from the NAL units of the bitstream   *)
(* to the pictures output (Decoder/State.cpp with Structure/DPB.cpp and    *)
(* Decoder/Processes/ReferencePictureSet.cpp).  The decoder is sequential: *)
(* the parser calls a hook as it finishes each syntax element, and pc says *)
(* which hook, or which iteration of a bumping loop, comes next.           *)
(***************************************************************************)
EXTENDS Bitstream

VARIABLES
    pc,        \* the hook that runs next
    soCVS,     \* State::m_SoCVS: the sequence's first picture is not finished
    guard      \* bumpGuard of the running flush() or updateDPB()

vars == <<pic, dpb, waiting, latency, limits, prevTid0, outputNo, outputCntr,
          nal, cvs, au, cpb, refs, ltRefs, encTid0, prevTid0Set, eos, events,
          pc, soCVS, guard>>

Label == {"nal", "store", "au", "pps", "output", "header", "flush", "update",
          "ctus", "done", "aborted"}

NoPicture == [nut |-> 0, tid |-> 0, poc |-> 0, ref |-> "ShortTerm", out |-> TRUE,
              noRasl |-> FALSE, noPrior |-> FALSE, cvs |-> 0, truth |-> 0]

Init ==
    /\ pic = [p \in Picture |-> NoPicture]
    /\ dpb = {} /\ waiting = {}
    /\ latency = [p \in Picture |-> 0]
    /\ limits = NoLimits
    /\ prevTid0 = 0
    /\ outputNo = [p \in Picture |-> NotOutput]
    /\ outputCntr = 0
    /\ nal = Aud
    /\ cvs = 0 /\ au = 0 /\ cpb = "empty"
    /\ refs = {} /\ ltRefs = {} /\ encTid0 = 0 /\ prevTid0Set = {} /\ eos = FALSE /\ events = 0
    /\ pc = "nal" /\ soCVS = FALSE /\ guard = 0

-------------------------------------------------------------------------------
(* onAU: the access unit in the CPB is complete.  Its picture moves to the *)
(* DPB, a RASL picture is dropped, and an access unit that never got a     *)
(* picture is dropped when a delimiter (temporal id -1) opens another.     *)
CloseAU(tid) ==
    \/ /\ cpb = "picture" /\ ~isRASL(pic[curr].nut)
       /\ EmplaceBack(curr)
       /\ cpb' = "empty" /\ pc' = "store"
    \/ /\ cpb = "picture" /\ isRASL(pic[curr].nut)
       /\ cpb' = "empty" /\ pc' = "au" /\ UNCHANGED dpbVars
    \/ /\ cpb # "picture"
       /\ cpb' = IF tid = -1 THEN "empty" ELSE cpb
       /\ pc' = "au" /\ UNCHANGED dpbVars

FirstSliceSegment ==
    /\ pc = "nal"
    /\ SendPicture
    /\ CloseAU(nal'.tid)
    /\ UNCHANGED <<pic, cvs, au, soCVS, guard>>

AccessUnitDelimiter ==
    /\ pc = "nal" /\ au < MaxAU
    /\ nal' = Aud
    /\ CloseAU(-1)
    /\ Event
    /\ UNCHANGED <<pic, cvs, au, refs, ltRefs, encTid0, prevTid0Set, eos, soCVS, guard>>

(* The end of sequence NAL unit joins the access unit; nothing else reads  *)
(* it.                                                                     *)
EndOfSequence ==
    /\ pc = "nal" /\ cpb = "picture" /\ ~eos
    /\ eos' = TRUE
    /\ Event
    /\ UNCHANGED <<pic, dpbVars, nal, cvs, au, cpb, refs, ltRefs, encTid0, prevTid0Set,
                   pc, soCVS, guard>>

(* The bumping loop of emplaceBack.                                        *)
StoreBump ==
    /\ pc = "store" /\ Overflow
    /\ Bump
    /\ UNCHANGED <<pic, nal, cvs, au, cpb, encVars, pc, soCVS, guard>>

StoreDone ==
    /\ pc = "store" /\ ~Overflow /\ nal # EndOfStream
    /\ pc' = "au"
    /\ UNCHANGED <<pic, dpbVars, nal, cvs, au, cpb, encVars, soCVS, guard>>

(* onAU, second half: onCVS, and a new access unit if the CPB has none.    *)
StartsCvs(nut) == isIDR(nut) \/ isBLA(nut) \/ isCRA(nut)
OpenAU ==
    /\ pc = "au"
    /\ soCVS' = (soCVS \/ StartsCvs(nal.nut))
    /\ cvs' = IF StartsCvs(nal.nut) THEN cvs + 1 ELSE cvs
    /\ au' = IF cpb = "empty" THEN au + 1 ELSE au
    /\ cpb' = "opened"
    /\ pc' = IF nal = Aud THEN "nal" ELSE "pps"
    /\ UNCHANGED <<pic, dpbVars, nal, encVars, guard>>

(* The picture is created when the parameter sets are known; the first one *)
(* of a sequence sets the limits of the DPB.                               *)
NewPicture ==
    [nut |-> nal.nut, tid |-> nal.tid, poc |-> 0, ref |-> "ShortTerm", out |-> TRUE,
     noRasl |-> soCVS, noPrior |-> nal.noPrior, cvs |-> cvs, truth |-> nal.truth]

SlicePicParameterSetId ==
    /\ pc = "pps"
    /\ pic' = [pic EXCEPT ![curr] = NewPicture]
    /\ cpb' = "picture"
    /\ IF soCVS THEN Setup(nal.sps) ELSE UNCHANGED limits
    /\ pc' = "output"
    /\ UNCHANGED <<dpb, waiting, latency, prevTid0, outputNo, outputCntr,
                   nal, cvs, au, encVars, soCVS, guard>>

(* pic_output_flag, when the parameter set announces it.  For a RASL       *)
(* picture the last BLA or CRA picture of the DPB is asked; none there is  *)
(* an abort.                                                               *)
associatedIRAP == Latest({p \in dpb : isBLA(pic[p].nut) \/ isCRA(pic[p].nut)})

PicOutputFlag ==
    /\ pc = "output"
    /\ IF nal.outFlag = "absent" THEN pic' = pic /\ pc' = "header"
       ELSE IF isRASL(nal.nut) /\ \A p \in dpb : ~isBLA(pic[p].nut) /\ ~isCRA(pic[p].nut)
         THEN pic' = pic /\ pc' = "aborted"
       ELSE /\ pic' = [pic EXCEPT ![curr].out =
                         IF isRASL(nal.nut) /\ pic[associatedIRAP].noRasl
                           THEN FALSE ELSE nal.outFlag = "yes"]
            /\ pc' = "header"
    /\ UNCHANGED <<dpbVars, nal, cvs, au, cpb, encVars, soCVS, guard>>

-------------------------------------------------------------------------------
(* The reference picture set.                                              *)
StartOfSequence == isIRAP(nal.nut) /\ pic[curr].noRasl

currPoc ==
    IF StartOfSequence THEN Lsb(nal.truth)
    ELSE DerivePoc(prevTid0, Lsb(nal.truth))

(* calcPOC: the entries as POC values, or as an LSB.                       *)
StPocs == {currPoc + d : d \in nal.st}
LtPoc(l) == IF l.msb THEN l.lsb + currPoc - MaxPicOrderCntLsb * l.cycle - Lsb(nal.truth)
                     ELSE l.lsb

(* DPB::picture: the entry decoded last, whatever its marking.             *)
StMatch(v) == {p \in dpb : pic[p].poc = v}
LtMatch(l) == {p \in dpb : IF l.msb THEN pic[p].poc = LtPoc(l) ELSE Lsb(pic[p].poc) = l.lsb}

StPics == {Latest(StMatch(v)) : v \in {v \in StPocs : StMatch(v) # {}}}
LtPics == {Latest(LtMatch(l)) : l \in {l \in nal.lt : LtMatch(l) # {}}}

(* sanitize(poc): a long-term entry differs from every other entry.        *)
EntriesDistinct ==
    \A l \in nal.lt : \A v \in StPocs \cup {LtPoc(k) : k \in nal.lt \ {l}} :
        LtPoc(l) # IF l.msb THEN v ELSE Lsb(v)

(* sanitize(rps): an entry the picture refers to is in the DPB.            *)
EntriesPresent ==
    nal.used => /\ \A v \in StPocs : StMatch(v) # {}
                /\ \A l \in nal.lt : LtMatch(l) # {}

RpsSane ==
    isIDR(nal.nut) \/
    /\ EntriesDistinct
    /\ (isBLA(nal.nut) \/ isCRA(nal.nut)) => ~nal.used \/ nal.st \cup nal.lt = {}
    /\ EntriesPresent

(* Mutants of Marking: long-term entries become short-term references, or  *)
(* an IDR picture leaves the references of the previous sequence.          *)
MarkingShortOnly ==
    [p \in Picture |->
        IF isRASL(nal.nut) \/ p \notin dpb THEN pic[p].ref
        ELSE IF isIDR(nal.nut)
          THEN IF pic[curr].noRasl THEN "Unused" ELSE pic[p].ref
        ELSE IF p \in StPics \cup LtPics THEN "ShortTerm" ELSE "Unused"]
MarkingKeptByIdr ==
    [p \in Picture |->
        IF isRASL(nal.nut) \/ isIDR(nal.nut) \/ p \notin dpb THEN pic[p].ref
        ELSE IF p \in StPics THEN "ShortTerm"
        ELSE IF p \in LtPics THEN "LongTerm"
        ELSE "Unused"]

(* markAll(Unused), then makeLongTerm and makeShortTerm.  A RASL picture   *)
(* has the process masked, an IDR picture has no set.                      *)
Marking ==
    [p \in Picture |->
        IF isRASL(nal.nut) \/ p \notin dpb THEN pic[p].ref
        ELSE IF isIDR(nal.nut)
          THEN IF pic[curr].noRasl THEN "Unused" ELSE pic[p].ref
        ELSE IF p \in StPics THEN "ShortTerm"
        ELSE IF p \in LtPics THEN "LongTerm"
        ELSE "Unused"]

(* Mutant of DropsPrior: the flag is read the wrong way round.             *)
DropsPriorInverted == isCRA(nal.nut) \/ ~nal.noPrior

(* The first slice segment header: picture order count, reference picture  *)
(* set and updateDPB up to its first loop.  The first picture of a         *)
(* sequence empties the DPB, with or without output of what waits.         *)
DropsPrior == isCRA(nal.nut) \/ nal.noPrior

SliceSegmentHeader ==
    /\ pc = "header"
    /\ pic' = [p \in Picture |-> IF p = curr THEN [pic[p] EXCEPT !.poc = currPoc]
                                 ELSE [pic[p] EXCEPT !.ref = Marking[p]]]
    /\ IF ~isRASL(nal.nut) /\ ~RpsSane
         THEN pc' = "aborted" /\ UNCHANGED <<dpb, waiting, guard>>
       ELSE IF StartOfSequence /\ soCVS /\ DropsPrior
         THEN pc' = "update" /\ Clear /\ guard' = BumpGuard(limits)
       ELSE /\ pc' = IF StartOfSequence /\ soCVS THEN "flush" ELSE "update"
            /\ EraseUnused(Marking)
            /\ waiting' = waiting
            /\ guard' = BumpGuard(limits)
    /\ UNCHANGED <<latency, limits, prevTid0, outputNo, outputCntr,
                   nal, cvs, au, cpb, encVars, soCVS>>

(* One iteration of a guarded loop: flush() bumps until nothing waits,     *)
(* updateDPB() until nothing overflows.                                    *)
GuardedBump ==
    IF guard > 0
      THEN Bump /\ guard' = guard - 1 /\ pc' = pc
      ELSE pc' = "aborted" /\ UNCHANGED <<dpbVars, guard>>

FlushBump ==
    /\ pc = "flush" /\ waiting # {}
    /\ GuardedBump
    /\ UNCHANGED <<pic, nal, cvs, au, cpb, encVars, soCVS>>

Flushed ==
    /\ pc = "flush" /\ waiting = {} /\ nal # EndOfStream
    /\ EraseUnused([p \in Picture |-> pic[p].ref])
    /\ guard' = BumpGuard(limits)
    /\ pc' = "update"
    /\ UNCHANGED <<pic, waiting, latency, limits, prevTid0, outputNo, outputCntr,
                   nal, cvs, au, cpb, encVars, soCVS>>

UpdateBump ==
    /\ pc = "update"
    /\ IF Overflow THEN GuardedBump ELSE pc' = "ctus" /\ UNCHANGED <<dpbVars, guard>>
    /\ UNCHANGED <<pic, nal, cvs, au, cpb, encVars, soCVS>>

(* The slice data: all coding tree units were decoded, or the last slice   *)
(* segments of the picture are missing and m_SoCVS stays.                  *)
FinishPicture ==
    /\ pc = "ctus" /\ pc' = "nal" /\ soCVS' = FALSE
    /\ UNCHANGED <<pic, dpbVars, nal, cvs, au, cpb, encVars, guard>>

LoseSlices ==
    /\ pc = "ctus" /\ pc' = "nal"
    /\ Event
    /\ UNCHANGED <<pic, dpbVars, nal, cvs, au, cpb, refs, ltRefs, encTid0, prevTid0Set, eos,
                   soCVS, guard>>

(* The end of exec(): the last picture joins the DPB, which is flushed.    *)
EndOfBitstream ==
    /\ pc = "nal" /\ nal' = EndOfStream
    /\ \/ /\ cpb = "picture" /\ ~isRASL(pic[curr].nut)
          /\ EmplaceBack(curr) /\ cpb' = "empty" /\ pc' = "store" /\ guard' = guard
       \/ /\ ~(cpb = "picture" /\ ~isRASL(pic[curr].nut))
          /\ EraseUnused([p \in Picture |-> pic[p].ref])
          /\ cpb' = IF cpb = "picture" THEN "empty" ELSE cpb
          /\ pc' = "flush" /\ guard' = BumpGuard(limits)
          /\ UNCHANGED <<waiting, latency, limits, prevTid0, outputNo, outputCntr>>
    /\ UNCHANGED <<pic, cvs, au, encVars, soCVS>>

(* Mutant of LastFlush: exec() ends without a flush.                       *)
NoLastFlush ==
    /\ pc = "store" /\ ~Overflow /\ nal = EndOfStream
    /\ pc' = "done"
    /\ UNCHANGED <<pic, dpbVars, nal, cvs, au, cpb, encVars, soCVS, guard>>

LastFlush ==
    /\ pc = "store" /\ ~Overflow /\ nal = EndOfStream
    /\ EraseUnused([p \in Picture |-> pic[p].ref])
    /\ guard' = BumpGuard(limits)
    /\ pc' = "flush"
    /\ UNCHANGED <<pic, waiting, latency, limits, prevTid0, outputNo, outputCntr,
                   nal, cvs, au, cpb, encVars, soCVS>>

Finish ==
    /\ pc = "flush" /\ waiting = {} /\ nal = EndOfStream
    /\ Clear
    /\ pc' = "done"
    /\ UNCHANGED <<pic, latency, limits, prevTid0, outputNo, outputCntr,
                   nal, cvs, au, cpb, encVars, soCVS, guard>>

Terminated == pc \in {"done", "aborted"} /\ UNCHANGED vars

Next ==
    \/ FirstSliceSegment \/ AccessUnitDelimiter \/ EndOfSequence
    \/ StoreBump \/ StoreDone \/ OpenAU
    \/ SlicePicParameterSetId \/ PicOutputFlag \/ SliceSegmentHeader
    \/ FlushBump \/ Flushed \/ UpdateBump
    \/ FinishPicture \/ LoseSlices
    \/ EndOfBitstream \/ LastFlush \/ Finish
    \/ Terminated

Spec == Init /\ [][Next]_vars

(* exec() runs until the bitstream, a file, ends.                          *)
FairSpec == Spec /\ WF_vars(Next)

-------------------------------------------------------------------------------
(* Types.                                                                  *)
PictureType ==
    [nut : NalUnitType, tid : Int, poc : Int, ref : RefPicType, out : BOOLEAN,
     noRasl : BOOLEAN, noPrior : BOOLEAN, cvs : Nat, truth : Int]

BufferTypeOK ==
    /\ dpb \subseteq Picture /\ waiting \subseteq dpb
    /\ latency \in [Picture -> Nat]
    /\ limits \in Limits
    /\ prevTid0 \in Int
    /\ outputNo \in [Picture -> Nat \cup {NotOutput}]
    /\ outputCntr \in Nat

EncoderTypeOK ==
    /\ refs \subseteq Picture /\ ltRefs \subseteq refs
    /\ encTid0 \in Int /\ prevTid0Set \subseteq Picture /\ eos \in BOOLEAN
    /\ events \in 0 .. MaxEvents

(* Every variable has its type, and only pictures of the buffer wait.      *)
TypeOK ==
    /\ pic \in [Picture -> PictureType]
    /\ BufferTypeOK
    /\ EncoderTypeOK
    /\ nal \in Coded
    /\ cvs \in Nat /\ au \in 0 .. MaxAU /\ cpb \in {"empty", "opened", "picture"}
    /\ pc \in Label /\ soCVS \in BOOLEAN /\ guard \in Nat

(* Output order: of two pictures that were output, the one of the earlier  *)
(* sequence, or of the smaller true POC in one sequence, was output first, *)
(* whatever the order they were decoded in and whenever bumping ran        *)
(* (DPB.cpp:65-83, 254-297).                                               *)
OutputOrder ==
    \A p, q \in Created :
        /\ outputNo[p] # NotOutput
        /\ outputNo[q] # NotOutput
        /\ \/ pic[p].cvs < pic[q].cvs
           \/ pic[p].cvs = pic[q].cvs /\ pic[p].truth < pic[q].truth
        => outputNo[p] < outputNo[q]

(* The POC restored from the coded LSB is the POC the encoder gave the     *)
(* picture, although the previous sub-layer 0 picture is only recorded     *)
(* when a picture enters the DPB, one access unit later (DPB.cpp:51-54).   *)
PocDerived(p) == ~(p = curr /\ pc \in {"output", "header", "aborted"})
PocRestored == \A p \in Created : PocDerived(p) => pic[p].poc = pic[p].truth

(* When the slice data of a picture is decoded, the pictures marked as     *)
(* references are those the encoder may refer to, with the same marking.   *)
MarkingAgrees ==
    pc = "ctus" /\ ~isRASL(nal.nut) =>
        /\ {p \in dpb : pic[p].ref # "Unused"} = refs \ {curr}
        /\ {p \in dpb : pic[p].ref = "LongTerm"} = ltRefs

(* DPB::picture and DPB::mark find a picture by its POC: no two pictures   *)
(* of the buffer may share one, and once a picture's header is processed   *)
(* the buffer holds no picture of an earlier sequence.                     *)
PocIdentifies ==
    /\ \A p, q \in dpb : pic[p].poc = pic[q].poc => p = q
    /\ pc = "ctus" => \A p \in dpb : pic[p].cvs = cvs

(* No picture is lost: one that is to be output was output, waits, is      *)
(* still in the CPB, or the next sequence began with a CRA picture or with *)
(* no_output_of_prior_pics_flag.                                           *)
NothingLost ==
    \A p \in Created :
        \/ ~pic[p].out \/ isRASL(pic[p].nut)
        \/ outputNo[p] # NotOutput
        \/ p \in waiting
        \/ p = curr /\ cpb = "picture"
        \/ \E q \in Created : /\ pic[q].cvs = pic[p].cvs + 1
                              /\ isCRA(pic[q].nut) \/ pic[q].noPrior

(* The buffer keeps no picture that neither waits nor is a reference.      *)
NoLeak ==
    pc = "ctus" /\ ~isRASL(nal.nut) => dpb \subseteq waiting \cup refs

(* No runtime_assert of the picture level fails on a conforming stream: the*)
(* bumping guards, the associated IRAP picture, the reference picture set. *)
NoAbort == pc # "aborted"

(* The rules for NoRaslOutputFlag noted at State.h:40-54: a CRA picture    *)
(* sets it only as the first picture of the bitstream or the first one     *)
(* after an end of sequence NAL unit.                                      *)
NoRaslOutputFlagRule ==
    pc = "output" /\ isCRA(nal.nut) =>
        (pic[curr].noRasl <=> Created = {curr} \/ nal.afterEos)

(* A reference picture set only contains reference pictures (RPS.h:16-19): *)
(* a picture of the buffer that is unused for reference stays unused.      *)
UnusedStaysUnused ==
    [][\A p \in dpb : pic[p].ref = "Unused" => pic'[p].ref = "Unused"]_vars

(* The loops end: between two NAL units every step is one to a later hook  *)
(* or outputs a picture that waits.  None of the bumping loops, that of    *)
(* emplaceBack without a guard too, runs on without output (DPB.cpp:75,    *)
(* DPB.cpp:122, State.cpp:745).                                            *)
HooksLeft ==
    [store |-> 9, au |-> 8, pps |-> 7, output |-> 6, header |-> 5, flush |-> 4, update |-> 3,
     ctus |-> 2, nal |-> 1, done |-> 0, aborted |-> 0][pc]
EveryStepAdvances ==
    [][pc # "nal" => \/ HooksLeft' < HooksLeft
                     \/ /\ HooksLeft' = HooksLeft
                        /\ Cardinality(waiting') < Cardinality(waiting)]_vars

(* Every picture that waits leaves the buffer, and the decoder finishes.   *)
EveryPictureLeaves == \A p \in Picture : p \in waiting ~> p \notin waiting
DecodingEnds == <>(pc = "done")

(* The decoder implements PictureOutput: a picture that is to be shown     *)
(* arrives when it enters the DPB.                                         *)
Stored == {p \in Created : pic[p].out /\ ~isRASL(pic[p].nut) /\ ~(p = curr /\ cpb = "picture")}

Promise == INSTANCE PictureOutput WITH
    place <- [p \in Picture |-> IF p \in Stored
                                  THEN [cvs |-> pic[p].cvs, poc |-> pic[p].truth]
                                  ELSE [cvs |-> 0, poc |-> 0]],
    pending <- waiting,
    number <- outputNo,
    count <- outputCntr,
    sequence <- cvs

ImplementsPromise == Promise!Spec
===============================================================================

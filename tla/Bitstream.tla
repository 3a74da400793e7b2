------------------------------- MODULE Bitstream -------------------------------
(***************************************************************************)
(* The coded pictures a conforming encoder may send next.  The decoder has *)
(* no such part: it is the environment of module Decoder, and says on what *)
(* the decoder may rely.  The encoder knows what it coded (the true POC of *)
(* every picture, the pictures it still refers to); the decoder only sees  *)
(* the syntax elements of record nal.                                      *)
(***************************************************************************)
EXTENDS DPB

CONSTANTS
    Nuts,           \* the NAL unit types of the coded pictures
    Tids,           \* the temporal ids of pictures that are not IRAP
    SpsChoices,     \* the sequence parameter sets, as Limits
    IrapPocs,       \* the POC values of CRA and BLA pictures
    OutFlags,       \* "absent", "yes", "no": pic_output_flag
    FollDeltas,     \* RPS entries of CRA and BLA pictures
    MaxLongTerm,    \* bound: long-term pictures in one RPS
    MaxEvents,      \* bound: delimiters, ends of sequence, lost slices and
                    \*   pictures with pic_output_flag in one bitstream
    CodeRules       \* TRUE: the encoder also keeps what only this decoder needs

ASSUME BitstreamAssumption ==
    /\ Nuts \subseteq {t \in 0 .. RSV_VCL31 : ~isRSV(t)}
    /\ Tids \subseteq Nat
    /\ SpsChoices \subseteq Limits
    /\ IrapPocs \subseteq 0 .. MaxPicOrderCntLsb - 1
    /\ OutFlags \subseteq {"absent", "yes", "no"}
    /\ FollDeltas \subseteq Int
    /\ MaxLongTerm \in Nat
    /\ MaxEvents \in Nat
    /\ CodeRules \in BOOLEAN

VARIABLES
    nal,          \* the NAL unit being parsed
    cvs,          \* coded video sequences begun (State::Cntr::cvs)
    au,           \* access units begun (State::Cntr::au)
    cpb,          \* the access unit being decoded: "empty", "opened", "picture"
    refs,         \* encoder: the pictures it may still refer to
    ltRefs,       \* encoder: those it uses as long-term pictures
    encTid0,      \* encoder: POC of its previous sub-layer 0 picture
    prevTid0Set,  \* encoder: that picture, its RPS and what followed it
    eos,          \* encoder: an end of sequence NAL unit was sent last
    events        \* what MaxEvents bounds

encVars == <<refs, ltRefs, encTid0, prevTid0Set, eos, events>>

Event == events < MaxEvents /\ events' = events + 1
Flagged(f) == IF f = "absent" THEN events' = events ELSE Event

curr == au - 1               \* decodingNo of the picture in the CPB

Created == {p \in Picture : pic[p].cvs > 0}
InCvs == {p \in Created : pic[p].cvs = cvs}

(* The pictures of the sequence that take part in its output order.        *)
InOrder == {p \in InCvs : pic[p].out /\ ~isRASL(pic[p].nut)}

Coded == [nut : NalUnitType, tid : Int, truth : Int, sps : Limits,
          outFlag : {"absent", "yes", "no"}, noPrior : BOOLEAN,
          st : SUBSET Int, lt : SUBSET [lsb : Int, cycle : Int, msb : BOOLEAN],
          used : BOOLEAN, afterEos : BOOLEAN]

(* NAL units without a picture.                                            *)
NonVcl(nut) == [nut |-> nut, tid |-> -1, truth |-> 0, sps |-> NoLimits,
                outFlag |-> "absent", noPrior |-> FALSE,
                st |-> {}, lt |-> {}, used |-> FALSE, afterEos |-> FALSE]
Aud == NonVcl(AUD_NUT)
EndOfStream == NonVcl(63)

IsTid0(h) == h.tid = 0 /\ ~isRASL(h.nut) /\ ~isRADL(h.nut) /\ ~isSubLayerNonReference(h.nut)

-------------------------------------------------------------------------------
(* The decoding number the next coded picture will get.                    *)
nextNo == IF cpb = "opened" THEN curr ELSE au

(* num_reorder: few output pictures precede a picture in decoding order    *)
(* and follow it in output order.                                          *)
WithinReorder(truth) ==
    Cardinality({q \in InOrder : pic[q].truth > truth}) <= limits.reorder

(* SpsMaxLatencyPictures bounds the pictures that follow a picture in      *)
(* decoding order and precede it in output order.                          *)
SpsMaxLatencyPictures == limits.reorder + limits.latencyPlus1 - 1
WithinLatency(truth) ==
    limits.latencyPlus1 # 0 =>
        \A q \in {q \in InOrder : pic[q].truth > truth} :
            Cardinality({x \in InOrder : x > q /\ pic[x].truth < pic[q].truth})
                < SpsMaxLatencyPictures

(* Leading pictures precede their IRAP picture in output order and every   *)
(* trailing picture in decoding order; RASL follow CRA and BLA_W_LP only.  *)
Leading(nut) == isRASL(nut) \/ isRADL(nut)
LeadingOrTrailing(nut, truth) ==
    \E i \in InCvs :
        /\ isIRAP(pic[i].nut)
        /\ IF Leading(nut)
             THEN /\ truth < pic[i].truth
                  /\ \A q \in InCvs : q = i \/ Leading(pic[q].nut)
                  /\ isRASL(nut) => pic[i].nut \in {CRA_NUT, BLA_W_LP}
                  /\ isRADL(nut) => pic[i].nut \notin {IDR_N_LP, BLA_N_LP}
             ELSE truth > pic[i].truth

(* A long-term entry without delta_poc_msb_present_flag names a picture by *)
(* its LSB.  The standard asks that the LSB be unique since the previous   *)
(* sub-layer 0 picture; the decoder needs it unique in its whole buffer.   *)
LsbNames(q) ==
    /\ \A x \in prevTid0Set \ {q} : Lsb(pic[x].truth) # Lsb(pic[q].truth)
    /\ CodeRules => \A x \in dpb \cup (InCvs \cap {curr}) :
                        x # q => Lsb(pic[x].truth) # Lsb(pic[q].truth)

LtEntry(q, truth, msb) ==
    [lsb |-> Lsb(pic[q].truth),
     cycle |-> (Msb(truth) - Msb(pic[q].truth)) \div MaxPicOrderCntLsb,
     msb |-> msb]

(* With CodeRules a leading picture keeps its IRAP picture, which the      *)
(* decoder looks up when a RASL picture follows (State.cpp:396-412).       *)
KeepsIrap(nut, kept) ==
    CodeRules /\ Leading(nut) => \A i \in InCvs : isIRAP(pic[i].nut) => i \in kept

(* The current picture refers to no picture of a higher sub-layer, nor to  *)
(* a sub-layer non-reference picture of its own; such entries are kept for *)
(* later pictures.                                                         *)
Usable(q, tid) ==
    /\ pic[q].tid <= tid
    /\ isSubLayerNonReference(pic[q].nut) => pic[q].tid < tid

(* An IRAP picture begins a sequence: it keeps no earlier picture.         *)
IrapTruths(nut) == IF isIDR(nut) THEN {0} ELSE IrapPocs
NoPriorFlags(nut) == IF isCRA(nut) THEN {FALSE} ELSE BOOLEAN
IrapSets(nut) ==
    IF isIDR(nut) \/ (CodeRules /\ isBLA(nut)) THEN {{}} ELSE SUBSET FollDeltas

SendIrapAs(nut, sps, f, truth, noPrior, foll) ==
    /\ nal' = [nut |-> nut, tid |-> 0, truth |-> truth, sps |-> sps,
               outFlag |-> f, noPrior |-> noPrior,
               st |-> foll, lt |-> {}, used |-> FALSE, afterEos |-> eos]
    /\ refs' = {nextNo}
    /\ ltRefs' = {}
    /\ encTid0' = truth
    /\ prevTid0Set' = {nextNo}
    /\ eos' = FALSE
    /\ Flagged(f)

SendIrap ==
    \E nut \in {t \in Nuts : isIRAP(t)}, sps \in SpsChoices, f \in OutFlags :
    \E truth \in IrapTruths(nut), noPrior \in NoPriorFlags(nut), foll \in IrapSets(nut) :
        SendIrapAs(nut, sps, f, truth, noPrior, foll)

(* A picture that is not IRAP: its POC is new in the sequence and within   *)
(* reach of the previous sub-layer 0 picture.                              *)
MayFollow(nut, truth) ==
    /\ cvs > 0 /\ ~eos
    /\ \A q \in InCvs : pic[q].truth # truth
    /\ LeadingOrTrailing(nut, truth)

SendRaslAs(nut, tid, f, truth) ==
    /\ MayFollow(nut, truth)
    /\ nal' = [nut |-> nut, tid |-> tid, truth |-> truth, sps |-> limits,
               outFlag |-> f, noPrior |-> FALSE,
               st |-> {}, lt |-> {}, used |-> FALSE, afterEos |-> eos]
    /\ prevTid0Set' = prevTid0Set \cup {nextNo}
    /\ Flagged(f)
    /\ UNCHANGED <<refs, ltRefs, encTid0, eos>>

SendRasl ==
    \E nut \in {t \in Nuts : isRASL(t)}, tid \in Tids, f \in OutFlags, d \in PocReach :
        SendRaslAs(nut, tid, f, encTid0 + d)

(* The sets of long-term pictures among the pictures kept: a long-term     *)
(* picture never becomes a short-term one.                                 *)
LongSets(kept) ==
    {l \in SUBSET kept : ltRefs \cap kept \subseteq l /\ Cardinality(l) <= MaxLongTerm}

SendInterAs(nut, tid, f, truth, kept, long, byLsb) ==
    /\ MayFollow(nut, truth)
    /\ f # "no" => WithinReorder(truth) /\ WithinLatency(truth)
    /\ KeepsIrap(nut, kept)
    /\ nal' = [nut |-> nut, tid |-> tid, truth |-> truth, sps |-> limits,
               outFlag |-> f, noPrior |-> FALSE,
               st |-> {pic[q].truth - truth : q \in kept \ long},
               lt |-> {LtEntry(q, truth, q \notin byLsb) : q \in long},
               used |-> \A q \in kept : Usable(q, tid), afterEos |-> eos]
    /\ refs' = kept \cup {nextNo}
    /\ ltRefs' = long
    /\ IF IsTid0(nal')
         THEN encTid0' = truth /\ prevTid0Set' = kept \cup {nextNo}
         ELSE encTid0' = encTid0 /\ prevTid0Set' = prevTid0Set \cup {nextNo}
    /\ eos' = eos
    /\ Flagged(f)

SendInter ==
    \E nut \in {t \in Nuts : ~isIRAP(t) /\ ~isRASL(t)}, tid \in Tids, f \in OutFlags,
       d \in PocReach, kept \in SUBSET refs :
    \E long \in LongSets(kept) :
    \E byLsb \in SUBSET {q \in long : LsbNames(q)} :
        SendInterAs(nut, tid, f, encTid0 + d, kept, long, byLsb)

(* The header of the first slice segment of the next picture.              *)
SendPicture == nextNo < MaxAU /\ (SendIrap \/ SendRasl \/ SendInter)
===============================================================================

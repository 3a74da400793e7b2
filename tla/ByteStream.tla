----------------------------- MODULE ByteStream -----------------------------
(***************************************************************************)
(* From the byte stream to NAL units: the file is cut where the next start *)
(* code begins (parse and State::exec, src/Decoder/State.cpp), a piece is  *)
(* freed of its start code and of the zeros around it                      *)
(* (src/Syntax/StreamNalUnit.cpp), and emulation prevention is undone      *)
(* (src/Syntax/NalUnit.cpp).                                               *)
(*                                                                         *)
(* The file is any that Annex B and 7.4.2 allow for the units in `sent`; a *)
(* unit is its header and its payload, byte by byte.  Only bytes up to 3   *)
(* matter to any of this.                                                  *)
(***************************************************************************)
EXTENDS Integers, SequencesExt

CONSTANTS
    Bytes,          \* the bytes of payloads
    MaxBytes,       \* of a payload, before its cabac_zero_words
    ZeroWords,      \* how many cabac_zero_words may follow it
    MaxUnits,       \* NAL units of a file
    MaxZeros        \* zeros before the first and after every unit

ASSUME ByteStreamAssumption ==
    /\ Bytes \subseteq 0 .. 255
    /\ MaxBytes \in Nat \ {0} /\ ZeroWords \subseteq Nat /\ MaxUnits \in Nat /\ MaxZeros \in Nat

VARIABLES
    sent,      \* the NAL units of the file
    file,
    at,        \* the byte under the iterator of the file
    stage,
    output,    \* what was cut from the file and not consumed yet
    numBytesInNalUnit, i,
    rbsp,      \* the unit, as far as it was parsed
    units      \* the NAL units that were parsed

vars == <<sent, file, at, stage, output, numBytesInNalUnit, i, rbsp, units>>

scp24 == <<0, 0, 1>>
scp32 == <<0, 0, 0, 1>>
emulPrevent == <<0, 0, 3>>
Peeked(pattern) == IsPrefix(pattern, output)
Consumed(n) == SubSeq(output, n + 1, Len(output))

---------------------------------------------------------------------------
\* The writer.

Zeros(n) == [k \in 1 .. n |-> 0]

\* A header with the byte values that come closest to a start code, a
\* payload that does not end in zero, and its cabac_zero_words.
Header == <<0, 1>>
Payloads ==
    {Append(bytes, stop) \o Zeros(2 * words) :
        bytes \in SeqOf(Bytes, MaxBytes - 1), stop \in Bytes \ {0}, words \in ZeroWords}

\* 7.4.2: no two zeros before a byte up to 3, nor at the end.
TwoZeros(bytes) == IsSuffix(<<0, 0>>, bytes)
Written(unit) ==
    LET written[n \in 0 .. Len(unit)] ==
            IF n = 0 THEN <<>>
            ELSE IF TwoZeros(written[n - 1]) /\ unit[n] <= 3
                   THEN written[n - 1] \o <<3, unit[n]>>
                   ELSE Append(written[n - 1], unit[n])
    IN  written
Prevented(unit) ==
    LET all == Written(unit)[Len(unit)]
    IN  IF TwoZeros(all) THEN Append(all, 3) ELSE all

\* Annex B: only the first unit needs the longer start code.
Write ==
    /\ stage = "write" /\ Len(sent) < MaxUnits
    /\ \E payload \in Payloads, after \in 0 .. MaxZeros,
          before \in (IF sent = <<>> THEN 0 .. MaxZeros ELSE {0}),
          code \in (IF sent = <<>> THEN {scp32} ELSE {scp24, scp32}) :
          /\ sent' = Append(sent, Header \o payload)
          /\ file' = file \o Zeros(before) \o code \o Prevented(Header \o payload) \o Zeros(after)
    /\ UNCHANGED <<at, stage, output, numBytesInNalUnit, i, rbsp, units>>

Close ==
    /\ stage = "write" /\ sent # <<>>
    /\ stage' = "next"
    /\ UNCHANGED <<sent, file, at, output, numBytesInNalUnit, i, rbsp, units>>

---------------------------------------------------------------------------
\* parse(std::istream), State.cpp.

\* State::exec: as long as the file has not ended.
NextUnit ==
    /\ stage = "next"
    /\ IF at > Len(file) THEN stage' = "end" ELSE stage' = "search"
    /\ output' = <<>>
    /\ UNCHANGED <<sent, file, at, numBytesInNalUnit, i, rbsp, units>>

\* Looking for a start code; other bytes than 0 and 1 abort.
Search ==
    /\ stage = "search" /\ at <= Len(file)
    /\ output' = Append(output, file[at])
    /\ IF file[at] \in {0, 1}
         THEN /\ at' = at + 1
              /\ stage' = IF IsSuffix(scp24, output') THEN "payload" ELSE stage
         ELSE /\ stage' = "abort"
              /\ UNCHANGED at
    /\ UNCHANGED <<sent, file, numBytesInNalUnit, i, rbsp, units>>

\* runtime_assert before seekg: sizeof of a size_t.
SeekGuard == 8

(* Mutant of Payload: the next start code stays consumed.                  *)
PayloadWithoutSeek ==
    /\ stage = "payload" /\ at <= Len(file)
    /\ LET read == Append(output, file[at])
       IN  IF IsSuffix(scp24, read)
             THEN /\ output' = SubSeq(read, 1, Len(read) - Len(scp24))
                  /\ stage' = "prefix"
             ELSE /\ output' = read
                  /\ UNCHANGED stage
    /\ at' = at + 1
    /\ UNCHANGED <<sent, file, numBytesInNalUnit, i, rbsp, units>>

\* Everything up to the next start code, from where the next call goes on.
\* The zero byte of a longer one stays.
Payload ==
    /\ stage = "payload" /\ at <= Len(file)
    /\ LET read == Append(output, file[at])
       IN  IF IsSuffix(scp24, read)
             THEN /\ output' = SubSeq(read, 1, Len(read) - Len(scp24))
                  /\ at' = at + 1 - Len(scp24)
                  /\ stage' = IF at > SeekGuard THEN "prefix" ELSE "abort"
             ELSE /\ output' = read
                  /\ at' = at + 1
                  /\ UNCHANGED stage
    /\ UNCHANGED <<sent, file, numBytesInNalUnit, i, rbsp, units>>

EndOfFile ==
    /\ stage = "payload" /\ at > Len(file)
    /\ stage' = "prefix"
    /\ UNCHANGED <<sent, file, at, output, numBytesInNalUnit, i, rbsp, units>>

---------------------------------------------------------------------------
\* StreamNalUnit::onParse.

LeadingZero8Bits ==
    /\ stage = "prefix" /\ ~Peeked(scp24) /\ ~Peeked(scp32)
    /\ output' = Consumed(1)
    /\ UNCHANGED <<sent, file, at, stage, numBytesInNalUnit, i, rbsp, units>>

StartCodePrefix ==
    /\ stage = "prefix"
    /\ \E scp \in {scp24, scp32} :
          /\ Peeked(scp)
          /\ output' = Consumed(Len(scp))
    /\ stage' = "suffix"
    /\ UNCHANGED <<sent, file, at, numBytesInNalUnit, i, rbsp, units>>

TrailingZero8Bits ==
    /\ stage = "suffix" /\ Last(output) = 0
    /\ output' = Front(output)
    /\ UNCHANGED <<sent, file, at, stage, numBytesInNalUnit, i, rbsp, units>>

\* NumBytesInNalUnit, and the two bytes of the header.
NalUnitHeader ==
    /\ stage = "suffix" /\ Last(output) # 0
    /\ numBytesInNalUnit' = Len(output)
    /\ rbsp' = SubSeq(output, 1, 2)
    /\ output' = Consumed(2)
    /\ i' = 2
    /\ stage' = "nal"
    /\ UNCHANGED <<sent, file, at, units>>

---------------------------------------------------------------------------
\* NalUnit::onParse.

(* Mutant of EmulationPresent: not with the last bytes.                    *)
EmulationPresentInside ==
    /\ numBytesInNalUnit - i >= Len(emulPrevent) /\ Peeked(emulPrevent)
    /\ i + 3 < numBytesInNalUnit
EmulationPresent ==
    /\ numBytesInNalUnit - i >= Len(emulPrevent) /\ Peeked(emulPrevent)
    /\ i + 2 < numBytesInNalUnit

(* Mutant of EmulationPrevention: the byte that is dropped is not counted. *)
EmulationPreventionUncounted ==
    /\ stage = "nal" /\ i < numBytesInNalUnit /\ EmulationPresent
    /\ rbsp' = rbsp \o SubSeq(output, 1, 2)
    /\ output' = Consumed(3)
    /\ i' = i + 2
    /\ UNCHANGED <<sent, file, at, stage, numBytesInNalUnit, units>>

EmulationPrevention ==
    /\ stage = "nal" /\ i < numBytesInNalUnit /\ EmulationPresent
    /\ rbsp' = rbsp \o SubSeq(output, 1, 2)
    /\ output' = Consumed(3)
    /\ i' = i + 3
    /\ UNCHANGED <<sent, file, at, stage, numBytesInNalUnit, units>>

(* Mutant of RbspByte: only escaped bytes are counted.                     *)
RbspByteUncounted ==
    /\ stage = "nal" /\ i < numBytesInNalUnit /\ ~EmulationPresent
    /\ rbsp' = Append(rbsp, output[1])
    /\ output' = Consumed(1)
    /\ UNCHANGED <<sent, file, at, stage, numBytesInNalUnit, i, units>>

RbspByte ==
    /\ stage = "nal" /\ i < numBytesInNalUnit /\ ~EmulationPresent
    /\ rbsp' = Append(rbsp, output[1])
    /\ output' = Consumed(1)
    /\ i' = i + 1
    /\ UNCHANGED <<sent, file, at, stage, numBytesInNalUnit, units>>

FinishNalUnit ==
    /\ stage = "nal" /\ i >= numBytesInNalUnit
    /\ units' = Append(units, rbsp)
    /\ rbsp' = <<>>
    /\ stage' = "next"
    /\ UNCHANGED <<sent, file, at, output, numBytesInNalUnit, i>>

---------------------------------------------------------------------------
Init ==
    /\ sent = <<>> /\ file = <<>>
    /\ at = 1 /\ stage = "write" /\ output = <<>>
    /\ numBytesInNalUnit = 0 /\ i = 0
    /\ rbsp = <<>> /\ units = <<>>

Next ==
    \/ Write \/ Close
    \/ NextUnit \/ Search \/ Payload \/ EndOfFile
    \/ LeadingZero8Bits \/ StartCodePrefix \/ TrailingZero8Bits \/ NalUnitHeader
    \/ EmulationPrevention \/ RbspByte \/ FinishNalUnit

\* The program reads on by itself.
Spec == Init /\ [][Next]_vars /\ WF_vars(Next)

---------------------------------------------------------------------------
\* The loop over a unit counts the bytes it takes from the stream: what is
\* left of one is left of the other, so that no byte behind the end is read.
TypeOK ==
    /\ stage \in {"write", "next", "search", "payload", "prefix", "suffix", "nal", "end", "abort"}
    /\ at \in 1 .. Len(file) + 1
    /\ i \in Nat /\ numBytesInNalUnit \in Nat
    /\ stage = "nal" => i + Len(output) = numBytesInNalUnit

\* The units that were parsed are those sent, in order and byte for byte:
\* no payload, wherever it has zeros, is cut short or loses a byte, and no
\* zero around a unit gets into it.
UnitsRecovered == IsPrefix(units, sent)

\* What is left to do of a file: the units, the stages of the next one, and
\* the bytes of its stage.
StagesLeft ==
    [write |-> 7, next |-> 6, search |-> 5, payload |-> 4, prefix |-> 3, suffix |-> 2,
     nal |-> 1, end |-> 0, abort |-> 0][stage]
BytesLeft ==
    IF stage \in {"search", "payload"} THEN Len(file) + 1 - at
    ELSE IF stage \in {"prefix", "suffix"} THEN Len(output)
    ELSE IF stage = "nal" THEN numBytesInNalUnit - i
    ELSE 0
Left == <<Len(sent) - Len(units), StagesLeft, BytesLeft>>
Less(a, b) ==
    \E n \in 1 .. 3 : a[n] < b[n] /\ \A m \in 1 .. n - 1 : a[m] = b[m]

\* The loops end: every step of the parser leaves less to do, although the
\* file is set back behind each unit (State.cpp:104-106) and its bytes are
\* gone through once more to trim zeros and to undo emulation prevention.
EveryStepConsumes ==
    [][stage # "write" => Left' \in Seq(Nat) /\ Less(Left', Left)]_vars

\* Every unit of the file is parsed, and then the program ends.
EveryUnitParsed == <>(stage = "end" /\ units = sent)
=============================================================================

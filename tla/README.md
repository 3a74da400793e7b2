# Verification of the i265 decoder

TLA+ models of the HEVC decoder in `src/`, the TLC runs that check them on small
instances, and theorems that the TLA+ proof system checks for every value of the
constants.

The program is a single-threaded decoder: `apps/i265.cpp` opens a file and calls
`Decoder::State::exec`, which parses one stream NAL unit after another.  The
parser calls a hook of `State` as it finishes each syntax element
(`onStart`, `onFinish`); the hooks drive everything else.  Nothing runs
concurrently, so the hard behaviours are not interleavings of threads but the
order of NAL units, pictures that arrive in one order and leave in another, state
that is read one access unit after it was written, and pictures or slices that
are missing.

## Inventory

| Component | State it keeps | Operations | What makes it correct |
|---|---|---|---|
| Access unit control (`Decoder/State.cpp`, `State.h`) | `cpb`, `m_SoCVS`, counters, the process mask | the hooks of the slice header, `onAU`, `updateDPB`, `exec` | one picture per access unit; no picture lost; a new sequence empties the buffer |
| Decoded picture buffer (`Structure/DPB.cpp`) | entries with "needed for output" and latency count, limits of the active SPS, previous sub-layer 0 POC | `setup`, `emplaceBack`, `bump`, `flush`, `clear`, `eraseUnused`, look-ups, `mark` | output order; every picture leaves; a POC names one picture |
| Picture order count (`Processes/PictureOrderCount.cpp`) | none | `exec` | the POC restored is the POC coded |
| Reference picture set (`Processes/ReferencePictureSet.cpp`) | markings | `calcPOC`, `makeLongTerm`, `makeShortTerm`, `makeUnused`, `sanitize` | the marking is the encoder's |
| Loop filter scheduling (`State::onFinish(CodingTreeUnit)`) | per-unit flags | deblocking and SAO of units whose neighbours are ready | every unit filtered once, after its neighbours are decoded |
| Stream and NAL unit parsing (`State.cpp` 51-114, `Syntax/StreamNalUnit.cpp`, `Syntax/NalUnit.cpp`) | stream position | start codes, zeros around units, emulation prevention | every unit is recovered byte for byte |
| Parameter sets (`Decoder/Context.h`) | VPS, SPS, PPS by identifier | add, get | a picture decodes with the sets active when it began |
| Header and block syntax (`Syntax/*.cpp`, `*.h`) | one storage slot per element, constructed or raw | `onParse` of each structure, the hooks and processes that read elements | what is parsed was sent; nothing is read that has no value; an absent element has the inferred value |
| Reference picture set parameters, lists (`Structure/RPSP.cpp`, `ShortTermRefPicSet.cpp`, `ReferencePictureList.cpp`) | one table of sets for all SPSs | inter prediction of sets, list construction | the table holds the sets the bitstream means whenever it is read; the lists are those of the encoder |
| Slice headers, slice data (`Syntax/SliceSegmentHeader.cpp`, `SliceSegmentData.cpp`) | stored CABAC contexts | dependent slices, tiles, wavefronts | contexts are restored from the right unit |
| CABAC (`Syntax/CABAD/`) | range, offset, context variables | arithmetic decoding, binarizations | decoding inverts encoding |
| Coding tree (`CodingQuadTree.cpp`, `CodingUnit.cpp`, `QuadTree.h`) | the quad tree of each coding tree unit | partitioning, look-up by position | each block is in one coding unit, and a look-up finds it |
| Quantization parameters (`QuantizationParameters.cpp`, hooks of `State.cpp`) | `qpStatus`, the QPs of each unit | prediction, difference, chroma offset | every QP is the encoder's |
| Residual syntax (`TransformTree.cpp`, `ResidualCoding.cpp`) | the residual tree of a unit | coded block flags, coefficients | each sample is reconstructed once |
| Picture geometry (`PictureProperties.cpp`) | scan tables | raster, tile and z-scan conversion | the tables are inverse permutations |
| Prediction, transform, in-loop filters (`Processes/`) | samples | sample arithmetic | values within their bit depth |
| CVS extractor (`Decoder/Extractor.cpp`) | queue of sequences, mutex, two conditions | producer `exec`, consumer `extractCVS` | dead code: no build file names it and nothing includes it |

Components interact by direct calls.  A slice header finds its access unit
(`onAU`), which closes the one before: its picture moves from the coded picture
buffer to the decoded one, which may output pictures (`bump`).  The picture is
created when the parameter sets are known, its POC is derived from the buffer's
previous sub-layer 0 picture, the reference picture set marks the pictures of the
buffer, `updateDPB` empties or trims it, and the slice data is decoded.

## Modules

Six state machines cover the decoder from the file to the picture.  `ByteStream`
turns the file into NAL units.  `Headers` parses what is in them, element by element,
and `SliceReferences` what they say of reference pictures.  `Decoder` is the picture
level: NAL units in, pictures out.  `PictureDecoding` is one picture: slice segments
in, filtered coding tree units out; it starts where `Decoder` is at label `ctus`.
`CodingTree` is what `PictureDecoding` takes as one step, the parsing of a coding
tree unit, over a whole picture.  They meet at what one hands the next: a unit's
bytes, a header's elements, the entries of a reference picture set (the fields `st`
and `lt` of `Decoder`'s `nal` are what `SliceReferences` derives), a slice.

| Module | Models |
|---|---|
| `NalUnitTypes` | NAL unit types and their predicates (`HEVCDef.h`) |
| `PictureOrderCount` | derivation of the POC (`PictureOrderCount.cpp`) |
| `DPB` | the decoded picture buffer, each method an action (`DPB.cpp`) |
| `Bitstream` | the environment: what a conforming encoder may send |
| `Decoder` | the hooks of `State`, composing the modules above; the properties |
| `PictureOutput` | abstract specification of picture output, implemented by `Decoder` |
| `PictureScan` | tile columns and rows, raster and tile scan (`PictureProperties.cpp`) |
| `SliceDecoding` | slice segments, tiles' slices, context synchronisation (`SliceSegmentHeader.cpp`, `SliceSegmentData.cpp`, `Picture.cpp`, `Tile.h`) |
| `LoopFilter` | when deblocking and SAO run, and across which edges (`State.cpp` 460-537, `DeblockEdges.cpp`, `SampleAdaptiveOffset.cpp`) |
| `PictureDecoding` | composes the two; the properties of a picture |
| `InLoopFilters` | abstract specification of the filters' order, implemented by `PictureDecoding` |
| `QuadTree` | the index array of a quad tree, and the z-scan (`QuadTree.h`, `HEVC.h`) |
| `CodingTree` | coding quad trees of a picture and their QPs (`CodingQuadTree.cpp`, `CodingUnit.cpp`, `TransformUnit.cpp`, `QuantizationParameters.cpp`, `State.cpp`) |
| `ByteStream` | the file cut into NAL units (`State.cpp` 51-114, `StreamNalUnit.cpp`, `NalUnit.cpp`) |
| `SyntaxStructure` | what an `onParse` is: steps over storage, conditions, and running them (`Aggregator.h`, `Parser.h`) |
| `ParameterElements`, `SliceElements`, `BlockElements` | every syntax element: descriptor and constructor value (`Syntax/*.h`) |
| `ParameterSyntax`, `SliceSyntax`, `BlockSyntax` | the `onParse` handlers of parameter sets, slice segment headers and coding tree units (`Syntax/*.cpp`) |
| `DecodingReads` | which elements the hooks and the decoding processes read, and when |
| `H265Syntax` | the syntax tables of the standard, external: the reference the handlers are compared with |
| `Headers` | composes these; the properties of parsing |
| `ReferenceSets` | derivation of reference picture sets and lists, as functions (`RPSP.cpp`, `ReferencePictureSet.cpp`, `ReferencePictureList.cpp`) |
| `SliceReferences` | from SPS and slice to lists: the shared table, its hooks, and the encoder that codes the sets |
| `MCDecoder`, `MCReorder`, `MCPicture`, `MCCodingTree`, `MCHeaders`, `MCReferences`, `MCStream` | instances for TLC |
| `DecoderProofs`, `MarkingProofs` | theorems of `Decoder`, the second building on the first |
| `ScanProofs`, `PictureProofs` | theorems of `PictureScan` and `PictureDecoding`, likewise |
| `CodingTreeProofs`, `QpProofs` | theorems of `CodingTree`: its trees, and its quantization parameters |
| `StreamProofs` | theorems of `ByteStream` |
| `ReferenceProofs` | theorems of `SliceReferences` and `ReferenceSets` |

### How the state corresponds to the code: pictures

A picture is its decoding number (`Picture::decodingNo`), and `pic` maps it to the
fields of `Structure::Picture` the picture level uses, with the sequence it
belongs to and its true POC as history.  The list of the DPB is in decoding order,
so a set (`dpb`) stands for it and "the last entry that matches" is the largest
number.  `waiting` is the set of entries with `neededForOutput`, `latency` their
`picLatencyCount`, `limits` the three bounds copied by `setup`.  `prevTid0` is
`m_prevTemporalId0`; `cpb`, `au`, `cvs` and `soCVS` are the coded picture buffer,
the counters and `m_SoCVS`.  `pc` is the hook that runs next; the loops of
`emplaceBack`, `flush` and `updateDPB` take one step per `bump`, so that every
intermediate state is seen.  Logging, picture files, hashes and sample data are
left out.  `nal` is the header being parsed, with the true POC of its picture.

The decoder has no part that chooses NAL units, so `Bitstream` is the
environment.  It sends what a conforming encoder may: IRAP pictures start
sequences, leading pictures precede theirs in output order, reordering and
latency stay within the parameter set, the reference picture set is a subset of
the pictures still referred to, long-term entries are named by LSB only where the
LSB is unambiguous.  Two of its rules go beyond the standard and are switched by
`CodeRules`: that an LSB is unique in the whole buffer, and that leading pictures
keep their IRAP picture in the reference picture set.  The decoder relies on both.

### How the state corresponds to the code: one picture

`slices` is `Picture::m_slice`, `tileSlices` the `m_slice` of each tile, `ctus`
is `m_ctu` in decoding order; a slice is its position in the list.  Slice and
segment addresses are in raster scan (`Rs`) as coded, look-ups in tile scan (`Ts`)
as in the code.  `ssh` holds the fields of the header the model needs,
`firstInSegment` and `ctbAddrInTs` the parser's locals.  `cabac` and `saved` are
`m_activeCabadState` and `m_cabadState`; the context variables are abstracted
to the slice they were initialised for and the set of units they have since
learned from, which tells two context states apart exactly when the encoder
could.  `engine` says whether the arithmetic decoder stands at the beginning of a
sub-stream.  `call` is the next call of `State::onFinish(CodingTreeUnit)`: one
unit makes up to nine calls of the filters, each a step.  `offset` remembers for
each unit which deblocking had been done when its final samples were taken,
`crossed` which edges between units a filter crossed.  `enc` and `coded` are
the encoder's view, used by properties only, and by the environment that decides
where slices and segments end: a slice, and a segment, holds whole tiles or lies
within one, and with wavefronts one that begins inside a row ends in it.

Two facts the reader may not expect.  In the last row a unit is offset when its
right neighbour has not been deblocked horizontally, and offset again by the next
unit's calls (`State.cpp` 519-531): the first result is overwritten, since SAO
reads the deblocked samples and writes others, so only work is wasted; `Final`
counts the last time.  And every segment joins the picture's last slice,
`Slice::findSegment` is not used: look-ups read the header of a slice's first
segment, which is right because the filter flags of a dependent segment are those
of its slice.

### How the state corresponds to the code: coding trees

`ctus` holds the quad tree of each coding tree unit as the code does, an array with
the root at index 0 and the quarters of index i at 4i + 1 to 4i + 4; `QuadTree` is a
function of the occupied indices.  Positions are counted in coding blocks of
the smallest size; the code counts its z-scan in smallest transform blocks, which
orders coding blocks alike.  `pending` is the stack of the recursion of
`CodingQuadTree::onParse`, `cu` the unit between `onStart` and `onFinish`,
`qpStatus` the field of `State`.  A node of the tree keeps its QP and chroma
offset as sets that are empty until the code constructs the object.  The chroma
QPs are functions of QpY and offset, so the offset stands for them.  Of a unit's
transform units, those with a residual are kept, by their coded block flags: luma,
chroma, and whether the chroma residual comes with a `later` unit, as it does for
4 by 4 luma blocks.  Prediction modes, `cu_skip_flag` and coefficients are left out.

`enc` is the encoder.  It has no tree: its predictor is the QP of the last coding
unit in coding order, and a neighbour is a search through the list of its units.
A target QP per quantization group and an offset per offset group are its choices.
`elements` compares, step by step, what it sends with what the decoder parses.

### How the state corresponds to the code: the byte stream

`file` and `at` are the stream and the byte under `istream_iterator`; `output` is the
`VLA` that `parse` returns and then the range of the `StreamAccessLayer` that is not
consumed yet, `i` and `numBytesInNalUnit` the counters of `NalUnit::onParse`.  Each
iteration of a loop is a step.  The writer comes first: units with a header of the
bytes 0 and 1, the closest to a start code, a payload, cabac_zero_words, either start
code and zeros around.  `parse` tests the shorter start code first, so the zero byte of a
longer one always ends up behind the unit before, where it is stripped.

### How the state corresponds to the code: headers and blocks

A syntax structure of the code is a list of typed slots of raw storage.  `embed`
constructs an element, `parse` reads it from the bitstream, `get` hands the slot out
whether it was constructed or not.  So a structure's `onParse` is data here, a
sequence of steps `Embed`, `Parse`, `Read`, `Assign` under the conditions of the
`if`s around them, and `Execute` runs it.  `env` maps the elements that have a
value to it; what is read outside its domain is raw memory (`undefined`).  Conditions
are evaluated as `&&` and `||` do, so that an operand that is not reached is not
read.  Elements that decoding tests have values, the others only a presence; a list is one
entry.  What depends on positions and sizes (whether a block fits, a neighbour
exists) is sent with the elements as a circumstance, and so is a node of the quad trees.
The steps of `DecodingReads` are what hooks and processes read afterwards, under their
own conditions: `OpenPicture`, `StartSlice`, `DecodeBlocks`.

`H265Syntax` states the same clauses as the code's comments cite (7.3, 7.4) as
declarative rows, one per condition, which `Presence` evaluates without any order of
parsing.  The repository's README names the editions of 10/2014 and 04/2015; the
extension flags its PPS parses are those of 12/2016.  The rows are those of 12/2016, which
contain the earlier ones, except that `SpsRows` has the SPS extension flags of 04/2015
(`sps_extension_6bits`), as the code does: sequence parameter sets with the 3D or SCC
extension of 12/2016 are outside the model.

### How the state corresponds to the code: reference pictures

`table` is the table of `RPSP`, one for all sequence parameter sets, written by the hook
of every set that is parsed (`State.cpp` 309-312) and again for all sets of the SPS
the first slice of a picture activates.  `context` keeps the parsed syntax of an SPS,
`parsing` the one not finished.  An entry is two lists of a distance and its
`used_by_curr` flag, as in the code.  `meant` and `slice.meant` are the encoder's sets, functions from a
distance to whether the current picture uses that picture; `Sendable` codes them in
every way 7.3.7 has, explicitly or predicted from another set, as bits whose number
the decoder takes from its table.  `inSync` says that it read as many as were sent.
The pictures of the DPB are the long-term ones in their order and then all
short-term ones; a long-term picture is named by LSB only when no other long-term picture shares it.

## Runs

| Run | Shows |
|---|---|
| `decoder` | all safety properties, and that the bumping loops end, over four access units of seven NAL unit types, all reference picture sets, a long-term entry, and one delimiter, end of sequence, lost slice or `pic_output_flag` |
| `reorder` | the refinement of `PictureOutput`, and with it the output order, with two pictures of reordering over five access units; liveness |
| `picture` | every division of a picture of 4 by 3 units into slices and segments, untiled with and without wavefronts and with two tile layouts: scan tables, slice look-up, contexts, sub-streams, filters |
| `coding_tree` | every partition of a picture of 2 by 5 blocks, in units of 4 by 4, into coding units, with and without a residual, two QPs to choose for each quantization group |
| `coding_rows` | the same for 3 by 3 blocks in units of 2 by 2: rows of units, slices, tiles and wavefronts |
| `headers` | without the multilayer extension of the PPS, every parameter set, slice segment header and coding tree unit whose elements deviate at most twice from values that open every branch: what is parsed is what the standard sends, nothing is read without a value, absent elements are inferred as the standard says |
| `references` | two sequence parameter sets that share the table, sets sent explicitly or predicted in every way, sets of the slice's own, long-term pictures with equal LSBs, modified lists |
| `stream` | every file of up to two NAL units of the bytes 0, 1 and 3, with cabac_zero_words, both start codes and zeros around: the units come out, and every step of the parser leaves less to do |
| `cra` | a CRA picture in the middle of a stream resets the decoder (finding) |
| `latency` | the latency bound is compared with the wrong value (finding) |
| `longterm` | a long-term look-up by LSB marks an unused picture (finding) |
| `multilayer` | the multilayer extension of the PPS is not parsed (finding) |

What the properties say.  `OutputOrder`: pictures leave in output order.
`PocRestored`: the POC derived is the POC coded.  `MarkingAgrees`: the marking is
the encoder's.  `PocIdentifies`: no two pictures of the buffer share a POC and none
is of an earlier sequence.  `NothingLost`, `EveryPictureLeaves`: a picture to be
shown is shown, unless the stream says it is discarded.  `NoLeak`: the buffer,
which has no bound of its own, keeps nothing it need not.  `NoAbort`: no assertion
fails on a conforming stream.  `DecodingEnds`: the loops end.  `EveryStepAdvances`,
`EveryStepConsumes`: why they do, as a quantity every step lowers.  `ScanOrder`,
`SliceNamed`: the tables are inverse, and a unit's slice is found whatever slices
were added since.  `ContextsSynchronised`, `EngineInSync`: every unit is parsed
with the contexts and the arithmetic decoder the encoder used.
`PictureComplete`, `KeepsFilterOrder`, `FiltersAgree`: every unit passes every
filter, after what it depends on, across the edges the slices and tiles allow.

`PictureCovered`: every block is in one coding unit, which the index array finds.
`QpsAgree`: the QP and the chroma offset of every unit, whenever and wherever looked
up later, are the encoder's, though the decoder finds "the previous unit in coding
order" by geometry.  `ElementsAgree`: differences, offsets and split flags are
parsed where, and in the context, they were sent.

`ReadsDefined`: no condition of a parser, a hook or a process reads a slot that
was neither constructed nor parsed nor assigned; the conditions of reader and writer are
far apart, in different files.  `SyntaxAgrees`, `InferredAgrees`: what is parsed, and the
value of what is not, are the standard's.  `SetsAgree`: the table holds the sets of the
picture's SPS and of its slice, whatever was parsed for other SPSs in between, and the
parser read every flag of a predicted set.  `ReferencesAgree`: the pictures of the set, and
how many there are, are those meant.  `ListsAgree`: so are the lists.
`UnitsRecovered`, `EveryUnitParsed`: every NAL unit comes out byte for byte, in order, and
the program gets to the end of the file.

### Bounds

Four access units (`MaxAU`) suffice for a sequence, a picture kept from
before, and the start of the next sequence; five for two pictures of reordering.
`MaxPicOrderCntLsb` 4 or 6 makes the LSB wrap within a sequence.  `MaxEvents`
counts access unit delimiters, ends of sequence, lost slices and pictures with
`pic_output_flag`, `MaxLongTerm` the long-term entries of a set.

A picture of 4 by 3 units has a left column, a right column, two columns between
them (SAO acts two units to the left), and a top, a middle and a bottom row.  Of
the two tile layouts one has three columns that do not divide the width and a short
last row, the other a first column of one unit.  `MaxSegments` 3 bounds the
segments that end by choice; where tiles or rows force an end there are more.
Three combinations of the header's filter flags.  Tiles and wavefronts are not
combined: the parser refuses the combination (`syntaxCheck`, and `EngineInSync`
shows that the check never fails otherwise).

`coding_tree` has two coding tree units of three levels, cut by the picture's
right and lower boundary at different levels, with quantization groups of four blocks
and of a whole unit, and chroma offset groups of four.  `coding_rows` has four units of two levels, so
that the unit before is left, above or far right; its layouts divide it into
slices, tiles or wavefronts, and a unit may have two residuals (`MaxTus`), of
which the second must not send the difference again.  In both, two QPs, one at the end of
the range, make the difference wrap.

`headers`: deviations (`MaxDeviations` 2) are counted over a parameter set, its
picture, header and blocks together; two reach every pair of elements on which a condition
depends, within one structure or across two.  `Values` are the values a condition tells
apart.  Excluded, because the decoder refuses or ignores them: separate colour planes,
the 3D and SCC extensions of the PPS, and a second HRD structure without common information
(`Fixed`).  Excluded, because the decoder does not parse it: the multilayer extension of
the PPS.  The run keeps its flag at 0 (`Unvaried`), so what `SyntaxAgrees` shows there holds
for picture parameter sets without the extension; `multilayer` frees the flag, shows the
disagreement and is otherwise the same with one deviation.

`references`: sets of up to two of four distances, in up to two positions, a move of
-1 or 2 between them; three long-term pictures of which two share an LSB, two entries
per slice; lists of up to three pictures; again two deviations from the usual, of which
sending an SPS again, predicting a set, a slice's own set, long-term pictures and a modified
list are one each.

`stream`: payloads of up to three bytes of {0, 1, 3}, followed by none or two
cabac_zero_words: two emulation prevention bytes in a row, one as the last byte, and three
bytes of payload that look like one.  Other byte values take the same branches as 3 or as 1.

### Fairness

`FairSpec` of `Decoder` and `Spec` of `ByteStream` have `WF_vars(Next)`: `exec` is a loop that runs until the
stream, a file, ends, and nothing else can run in its place.  `MaxAU` bounds the
file of the first, `MaxUnits` that of the second, which is written before the program
starts.  No stronger fairness is assumed.

### Findings

`cra`.  `onAU` sets `m_SoCVS` for every CRA picture, so a CRA picture in the middle
of a sequence gets NoRaslOutputFlag 1, which discards what waits; `State.h:40-54`
and `State.cpp:339-340` give it 0.  The other properties are stated for what the
code does: `cvs` counts a sequence at every CRA picture, and `NothingLost` excepts
pictures a CRA picture discards.

`latency`.  `latencyOverflow` compares the latency count with
`sps_max_latency_increase_plus1`, not with SpsMaxLatencyPictures as its comment
says.  Pictures of a conforming stream leave out of order.  The runs and theorems
on output order therefore assume parameter sets without a latency bound
(`latencyPlus1 = 0`).

`longterm`.  A look-up by LSB returns the last picture decoded with that LSB, also
one that is unused for reference.  `CodeRules` excludes such streams from the other
runs.

`multilayer`.  `PictureParameterSet::onParse` (189-192) parses a `PpsMultilayerExtension`
when `pps_multilayer_extension_flag` is 1, and its handler is empty
(`PpsMultilayerExtension.cpp` 6-8), although the structure has 21 elements
(`PpsMultilayerExtension.h` 158-180) and the README promises the decoding process of ITU-T
H.265.  None of them is parsed; the trailing bits, or the extension data, are read from the
bits of the extension.  The SPS's own is parsed, and the 3D and SCC extensions are refused.
The extension is one of multilayer streams (Annex F); the decoder parses the parameter sets
of every layer, since nothing looks at `nuh_layer_id` once it is parsed.

## Proofs

The theorems hold for every value of the constants that satisfies the named
assumptions of the modules: `MaxLsbAssumption`, `MaxAUAssumption` and
`BitstreamAssumption` for the picture level (any number of access units, NAL unit types,
sub-layers, parameter sets, reference picture sets and events), `SizeAssumption` and
`PpsAssumption` for a picture (any size, slices, segments and proper tile layout),
`BlocksAssumption` and `QpsAssumption` for its coding trees (any size of the picture, of
the coding tree unit and of the groups, any bit depth, choice of QPs, slices, tiles or
wavefronts), `ByteStreamAssumption` for the stream (any bytes, lengths, zeros and number of units), and
`SliceReferencesAssumption` for reference pictures (any sequence parameter sets, distances,
moves between sets, long-term pictures and sizes of lists, any positive modulus of the LSB).
TLC evaluates all of them.

### The picture level

`DecoderProofs!PocIsRestored`.  For an even modulus the derivation
restores every POC within reach of the previous one.  Lemma `SplitPoc` is the
arithmetic of LSB and MSB.

`DecoderProofs!TypeCorrect`.  `TypeOK` with `AUInv` is inductive: while a header
is processed the access unit exists, so that `curr` is a picture.

`DecoderProofs!PocCorrect`.  `PocRestored` is not inductive: it says nothing of
what the next derivation will read.  `PocInv` adds that the decoder's
`prevTid0` is the encoder's `encTid0`, except between a picture's header and the
moment it is stored, one access unit later (`Tid0Agrees`); that the header being
parsed can be restored from it (`HeaderRestorable`); and that the picture in the
coded picture buffer is that of the header (`HeaderAgrees`).

`DecoderProofs!OutputCorrect`.  Assumes that no parameter set bounds the latency.  A
picture is shown only when more than `reorder` pictures of its sequence that do not
precede it have arrived (`ShownBacked`), or at a flush, after which nothing of its
sequence comes.  A picture still to come with a smaller POC would be preceded in
decoding order by all of these, more than a conforming encoder may send
(`ComingConforms`); so nothing that waits should have been shown before
what was (`WaitingAfterShown`), and the numbers are in order (`ShownInOrder`).
`Numbering`, `SequenceInv` and `LimitsInv` say which pictures these are, that
those waiting are of one sequence, and that the limits are the sequence's.  The
proof has one lemma per hook; `Frame` covers the steps that leave the queue alone.

`DecoderProofs!PromiseKept` (a refinement).  Assumes that no parameter set bounds the
latency.  The order of what was shown is not enough to implement `PictureOutput`: of
the pictures that wait one must come strictly before the others, and a picture that
arrives strictly after all that was shown.  `NumberInv` gives that: every picture has a
number of its own, created once in the coded picture buffer (`Numbered`), and within
its sequence a POC of its own (`Distinct`), which a header must not share before its
picture exists.  Each step is then one of `Arrives`, `Shows`, `Begins`, `Discards` or
`Quiet` (`WhatIsSeen`), and these are the actions of `PictureOutput` (`PromiseStep`).

`DecoderProofs!NothingIsLost`.  No assumption on the latency or the encoder beyond those
of `Bitstream`.  `NothingLost` is inductive only with the sequence of the pictures that
wait: between the header that begins a sequence and the end of the flush they are of
exactly the sequence before (`WaitingSequence`), which is what makes the header of the
current picture answer for those it drops, and the picture carries the flag its header
had (`PriorAgrees`).

`MarkingProofs!MarkingCorrect`, `PocNamesOnePicture` and `NothingLeaks`.  Assume
`CodeRules`; run `longterm` shows a look-up by LSB marking another picture without it.
The three need one another: an entry of a reference picture set finds the picture it names only if no other
picture of the buffer has its POC or, for an entry by LSB, its LSB; that needs the buffer
to hold pictures of one sequence (`OneSequence`); the flush leaves no other
behind because nothing is still marked then (`FlushedAll`); and that is the work of the
marking.  `InStep` says when marking and encoder agree, `Announced` what the header
says of the encoder's references in the meantime, `Needed` that nothing else stays, and
`Restored` that the POC of a stored picture is the true one.  `ShortEntriesFind`,
`LongEntriesFind` and `MarkingMarks` are the argument about the reference picture set.

`MarkingProofs!NeverAborts`.  Assumes `CodeRules`, as the theorems on marking, and
`GuardsSuffice`: no parameter set reorders more than ten times the smallest capacity,
which is exactly the stream excluded by the first item under "Not modelled".  The
assertions fall into three groups.  The guards of the loops that empty the buffer:
`RoomInv` says that nothing overflows wherever nothing was stored or flushed since the
last loop, and that what waits fits its parameter set, so that a loop ends before its
guard does.  That a RASL picture finds an IRAP picture: `Anchored` says that the encoder
still refers to the IRAP picture its leading pictures follow, and `Needed` that
the buffer then has it.  That an entry of a reference picture set
finds at most one picture and no picture is found twice: `LongEntries` says that a
header has one long-term entry for each picture, and one by LSB only where it is unique.

`DecoderProofs!EveryStepIsAdvance`.  No assumption beyond those of `Bitstream`.  The hooks
between two NAL units come in one order (`HooksLeft`), and a step that stays at its hook
is an iteration of a bumping loop, which outputs a picture that waits (`BumpOutputs`).
There is one whenever a loop calls `bump` (`OverflowWaits`), with a latency
bound too, and the pictures that wait are finitely many (`WaitingSize`).  The loop of `emplaceBack`, which has no guard, needs that, because
`bump` with nothing to output changes nothing.

### One picture

`ScanProofs` is about the functions of `PictureScan` alone.  The boundaries of tile
columns and rows are sums over sequences, in the model a recursive function; that they
rise from 0 to the end of the picture (`TablesRise`), that every unit lies in one tile,
that both scans are inverse to each other (`TablesProper`) and that a tile's units come
together, in order of the tiles (`TilesOrdered`), is proved for every size and every
spacing.  The library states induction with an operator as parameter, which cannot be
instantiated here; a least counterexample does the same (`LeastNatural`, from the
well-foundedness of the natural numbers).

`PictureProofs!FilterOrderKept` (a refinement) and `PictureCompleted`.
`ScheduleInv` says that the parser visits the units in tile scan (`UnitsInv`,
`ControlInv`), that exactly those vertical edges have been filtered whose unit is
done and those horizontal edges whose right neighbour is (`DeblockInv`), and that a
unit is final once the unit two to the right and one below it, or the nearest one
the picture has, is done (`OffsetInv`, `OffsetAt`).  The lemma `CallsFor` shows that
the nine conditions of `onFinish(CodingTreeUnit)` are exactly these two maps read
backwards, in every corner of the picture; `ReachBefore` that the maps wait long
enough.  What it needs of the tables, that a unit follows all units above and to the left
of it, comes from `ScanProofs`.

`PictureProofs!PictureTyped`, `ScanFollowsTiles`, `SliceAlwaysNamed`,
`ContextsAlwaysSynchronised` and `EngineAlwaysInSync`.  They are conjuncts of one
inductive invariant, `SliceInv`.  The decoder finds the slice of a unit in the list
of the unit's tile, and whether that list is empty decides if a unit is
the first of its tile.  So the invariant relates the lists: slices are in the order
of their first units and a unit belongs to the last that starts at or before it
(`SlicesInv`); a tile lists, in order, exactly slices that exist, among them that of each
of its units, and lists nothing only while none of its units was reached (`TilesInv`).
`SegmentInv` says that the header in use is that of the newest slice and is dependent
exactly if the slice did not start with it, `EngineInv` where the
arithmetic decoder stands aligned.  `ContextInv` gives what each of the two saved sets
of contexts holds and for how long: the one for wavefronts is that after the second unit
of a row for exactly as many units as the row is long.

`PictureProofs!FiltersAlwaysAgree`.  Whether an edge is crossed is decided once,
when the filter runs, from the flags of two slices.  `FlagsInv` says that the flags
of a slice's first segment, which the look-up returns, are those of the encoder for every
unit of it; `CrossedInv` that what was recorded of an edge at the time is what the
flags say now, since both units had been parsed then.

### The coding trees

`CodingTreeProofs!TreesCovered` and `PictureAlwaysCovered`.  The recursion
of `CodingQuadTree::onParse` splits a block into up to four, those that begin inside the
picture, and the index array is searched with the bits of a position.  The two have to
agree at the right and lower edge, where a node has fewer quarters and its split is
inferred.  `TreeInv` says that the nodes the recursion still has and the coding units divide
the blocks of the coding tree units begun so far: each of these blocks lies in one of
them (`HeldInv`), each of them lies on a grid of its own size, and the path to a block
inside is split down to it and then, for a node still to do, has nothing (`Begun`), for a coding unit a
leaf, nowhere beyond the picture (`Leaf`; `NodesInv`).  That nothing is in two of them need
not be said: both would end the same path.  `TreesInv`, that every index of the array lies
on a block's path, is what makes a block without quarters a leaf for the search.
`CellsNest` and `QuarterIs` relate positions to bits, `PathCell` says that two
blocks have the same index at a level exactly if they lie in the same cell of it, and
`PathDepth` that indices of different levels differ.  `QuartersAre` is the argument about
the edges: the quarters a split goes on with are exactly those cells of the next level in the
node that hold a block of the picture, and the node has no other.  The side of a block
is a recursive function in the model, a power of two that the provers do not know;
`RecursionExists`, from least counterexamples as above, gives its values.

### Quantization parameters

`QpProofs!QpsAlwaysAgree`, `ElementsAlwaysAgree` and `CodingTreeTyped`.  The encoder
predicts a group's QP from the last coding unit in its list; the decoder has no
list and finds that unit by geometry: z-scan address minus one, past groups that lie
outside the picture, the last block of what it finds as far as the picture reaches.  And
the encoder begins a group where a unit lies in another one than the unit before, the
decoder where a node is large enough or at a corner of the grid.  The theorems say that
this comes to the same.  They are conjuncts, or consequences, of `QpInv`, which together
with `TreeInv` is inductive (`QpsAlwaysKnown`):

- `OrderInv`: coding units and what the recursion still has follow each other in
  z-scan of the picture.  So every block before the next node is in a coding unit, and no
  other (`CodedBefore`), and the last coding unit holds every block from its
  corner to the next node (`LastHolds`).
- `GroupsInv`: of the nodes still to do that are smaller than a group only the next may be
  at a group's corner.  So no group begins unnoticed, and one begins for the encoder
  exactly where it does for the decoder (`GroupBegins`).
- `StatusInv`: `qpStatus` is fresh at a group's corner, and inside the group it is what
  was sent (`DeltaKnown`, `OffsetKnown`), though nodes that are larger than a group reset it
  once more on the way down.
- `DataInv`: what is constructed in a tree is the encoder's QP of that unit.  A unit that
  carries no difference gets the group's in `State::onFinish(CodingUnit)`; a QP
  constructed before must therefore not have missed a difference sent later in the unit.
- `TypeInv`: ranges, among them that of CuQpDeltaVal, from which follows that the sum in
  `deriveQpY` is never negative and the C++ remainder a residue (`DifferenceIs`).

A z-scan address is a sum over the bits of a position.  `SumIs`, `Expansion` and
`Composition` are the arithmetic of numbers to a base, `CoordOfAddr` and `AddrOfCoord` say that the
two conversions of `HEVC.h` are inverse, `ZMonotone` and `NodesInOrder` that the order respects position
and nesting.  `PrevGroupIs` shows that the search backwards ends at the last group
before that the picture has, `LastBlockIs` that its last block, cut at the picture's
boundary, follows all its others, `FirstIs` and `NotFirstIs` that the three conditions for taking the
slice's QP are exactly a change of slice, tile or, with wavefronts, row.  The last one holds
only without tile columns, which the parser does not accept with wavefronts
(`SliceSegmentData.cpp` 91); `QpsAssumption` states it.

### The stream

`StreamProofs!UnitsAlwaysRecovered`, `StreamTyped` and `OnlyEndsComplete`.  The
file is one that Annex B and 7.4.2 allow.  The writer first: `Encodes`
gives the position of every byte of a unit in what is written for it, from which follows
that two zeros are never followed by less than a 3 (`NoStartCode`) and that, although a
payload may end in pairs of zeros (cabac_zero_words), what is written does not end in
zero (`WrittenEnds`).  A file is then a sequence of pieces, each made of zeros, a 1, what
is written for a unit, and zeros (`Layout`, `Piece`), and where `parse` cuts it is where
a piece begins (`Cut`).  The invariant `StreamInv` follows the parser through a piece: the
search for the start code, loading up to the next one or the end of the file, the
zeros taken from the front and the back, and the loop over the unit.  In the loop
`Restored` says that the bytes parsed are the first of the unit and that the loop
stands where the next of them was written, never inside two zeros and the 3 after
them: otherwise the 3 would be taken for a byte, or a 3 of the payload be dropped.
`OnlyEndsComplete` is the safety half of `EveryUnitParsed`: neither assertion of the
stream level fails, and `exec` ends only when everything was parsed.

`StreamProofs!EveryStepIsConsumption` is what its other half rests on.  The file is set
back behind every unit, and the bytes of a unit are gone through three times: to find the
next start code, to trim zeros, to undo emulation prevention.  So no position only grows;
but the units left, the stages left of the next one and the bytes left of its stage,
in this order (`Left`, `Less`), become less with every step.  That they are natural numbers
is where the invariant comes in: there is a byte to drop as long as zeros are trimmed
(`OutputLeft`), and the loop over the unit stops at its end (`Parsing`).

### Reference pictures

`ReferenceProofs!SetsParsed` is about one set, whichever way it was coded.  The decoder
visits the pictures of the other set in three orders: for the flags those before the current
picture, then those after it, then that picture itself; for each side of the result a merge of two of these
parts, one of them backwards.  Whatever the move between the two sets, each merge is in rising
distance (`Descends`, `Ascends`), so that filtering it gives exactly the
pictures of the target on that side, in order (`PredictedAsMeant`).  A flag is one or two bits
long, and the decoder finds its end without knowing the target: `FlagsParsed` says that it stands where
the encoder stood, at every flag, provided it takes their number from the right entry.
A set sent as distances is the simpler case (`ExplicitAsMeant`).

`SetsAlwaysAgree`, `ReferencesAlwaysAgree`, `ListsAlwaysAgree` and `ReferencesTyped` are
consequences of one inductive invariant, `IInv`.  What makes the shared table
safe is not that it holds the right sets always, it does not, but when it is read:
while a sequence parameter set is parsed its sets so far are in the table (`SpsParsed`);
a stored one may have lost them, but what was kept of its syntax still codes
them, each from the ones before it (`SpsStored`, `AllCode`), so deriving them again, in order
and over any contents, restores all of them (`DerivedSets`); and from then to the end of the
picture nothing but the slices' own sets, behind them, enters the table
(`Activated`).  `HeaderSent` relates the header that
later slices of the picture repeat to what it means, `SliceDerived` what was derived of it, and `RpsDerived` that the
picture's set, taken from the first slice, is that of every other.

Of the lemmas, `LongTermDerived` shows that sums of MSB cycle differences, which
begin anew at the slice's own entries, are undone; `PicturesFound` that the search of the DPB
from its end finds the picture meant, by order count or by an LSB that no other picture
has; `UsedMoved` that splitting a set by `used_by_curr` and sorting it commute;
`TempListIs` that the temporary list repeats the pictures with their number as period,
from which follows that a list of any length, modified or not, has the right ones (`ListIs`).

### Only model-checked

`Headers`: its properties compare every element of the handlers, under the
conditions around it, with the tables of the standard.  That is evaluation, of a concrete
program on all inputs, and not an argument with an invariant; a proof would be the
trace of the run written out.  Since deviations are bounded, TLC's answer holds for
combinations of up to two of them.  All of the liveness, including `EveryUnitParsed`
and `DecodingEnds`: liveness and ENABLED are outside what the proof system handles.
What is proved of it is that the steps cannot go on for ever (`EveryStepIsConsumption`; between
two NAL units, `EveryStepIsAdvance`); that the system does not stop halfway is
TLC's deadlock check and its liveness.

## Not modelled

- `flush()` takes its guard (ten times the capacity) from the limits of the new
  sequence, set before the old one's pictures are flushed; more than ten pictures
  waiting and a new capacity of one would abort.  Beyond the bounds of the runs; the
  theorem `NeverAborts` excludes such pairs of parameter sets by `GuardsSuffice`.
- An end of sequence, filler or suffix SEI NAL unit before the first access unit
  dereferences a null access unit; no conforming stream has one.
- A BLA picture whose reference picture set names earlier pictures marks them
  as references; `CodeRules` gives
  BLA pictures an empty set.
- `bufferOverflow()` only feeds the log.  `UpdateBump` finds something to bump on
  no conforming stream, because `emplaceBack` already did.
- In `Decoder` the `used_by_curr` flags of a set are all equal; `SliceReferences` has them apart.
- Slices lost inside a picture: `m_ctu` is indexed by position, so a missing slice
  shifts every later look-up.  `LoseSlices` drops the end of a picture only.
- Samples: edges inside a unit, filter arithmetic, PCM and lossless exceptions.
- A parameter set with other contents destroys the one it replaces, to which pictures of the
  DPB keep pointers; nothing reads through them once the picture is complete.
- The loop that fills a reference picture list does not end for a P or B slice without
  pictures to refer to, nor `parse` for a file without a start code; 7.4.7.1 and Annex B forbid both.
- The 3D and SCC extensions of the parameter sets, refused in the PPS (`syntaxCheck(false)`)
  and extension data in the SPS; the colour mapping table, of which the code has no elements.
- Separate colour planes: conditions on chroma test `chroma_format_idc`, not the
  array type derived from it.
- Header elements as numbers: widths, ranges and Exponential-Golomb codes; `se(v)` uses
  floating point and is exact up to 2^24.
- VUI values that are printed only, and inferred otherwise by the standard.
- Residuals: RDPCM of chroma is applied at luma coordinates (`Residuals.cpp` 205-215),
  and cross-component prediction only to intra units (`State.cpp` 598-646), in the range
  extensions.  Seen while reading, not modelled: they are functions of samples.
- CABAC: a function of a bit string; a reference definition would repeat it.
- Motion vector candidates and sample arithmetic: functions whose interesting inputs are
  beyond enumeration.
- SEI payloads and picture hashes (compared only when a picture leaves the DPB), logging,
  the command line; `Extractor.cpp` and the buffering period SEI, which are not built.

## Plan

What is left that could be modelled: the residual quad tree of a coding unit with its
coded block flags for each chroma format (`TransformTree.cpp`), beyond one node of it in
`BlockSyntax`; merge candidates over a small motion field.

Not proved: `Headers`, for which the handlers and the standard's tables would have to be
compared without running them.

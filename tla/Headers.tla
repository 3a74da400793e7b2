------------------------------ MODULE Headers ------------------------------
(***************************************************************************)
(* The parameter sets, the slice segment headers and the coding tree units *)
(* as the decoder parses them one after the other, with what it reads of   *)
(* them in between, beside the syntax tables of the standard.              *)
(*                                                                         *)
(* A structure is parsed into fresh storage and sees the storage of the    *)
(* structures before it: env holds the elements that have a value.  The    *)
(* bitstream sends a value for every element; it starts from one that      *)
(* opens every branch and deviates from it MaxDeviations times.            *)
(***************************************************************************)
EXTENDS DecodingReads, H265Syntax, FiniteSets

CONSTANTS
    SliceTypes,
    MaxDeviations,
    Unvaried       \* elements of parameter sets that are never sent otherwise than usual
ASSUME HeadersAssumption ==
    /\ SliceTypes \subseteq {B, P, I}
    /\ MaxDeviations \in Nat
    /\ Unvaried \subseteq DOMAIN ParameterSetElements

VARIABLES
    stage,        \* the structure or the process that comes next
    spent,        \* deviations so far
    env,          \* the elements that have a value, and the value
    undefined,    \* elements read without one
    disagreement, \* elements parsed but absent from the standard's table, or the reverse
    misinferred   \* elements whose value is not the one the standard infers

vars == <<stage, spent, env, undefined, disagreement, misinferred>>

Keep(f, S) == [e \in DOMAIN f \cap S |-> f[e]]
Drop(f, S) == [e \in DOMAIN f \ S |-> f[e]]

---------------------------------------------------------------------------
\* What the bitstream sends.

ProfileElements ==
    {"general_profile_idc", "general_profile_compatibility_flag",
     "sub_layer_profile_idc", "sub_layer_profile_compatibility_flag"}
HierarchyDepths ==
    {"max_transform_hierarchy_depth_inter", "max_transform_hierarchy_depth_intra"}

\* The elements whose values beyond 0 and 1 matter.
Values(e) ==
    CASE e \in ProfileElements -> {1, 4, 5, 9}
      [] e \in HierarchyDepths -> 0 .. 2
      [] e = "chroma_format_idc" -> 0 .. 3
      [] e = "aspect_ratio_idc" -> {0, 1, ExtendedSar}
      [] e \in {"num_short_term_ref_pic_sets", "num_long_term_ref_pics_sps"} -> 0 .. 2
      [] e \in {"sao_type_idx_luma", "sao_type_idx_chroma"} -> {0, BandOffset, EdgeOffset}
      [] e = "five_minus_max_num_merge_cand" -> {0, 4}
      [] e = "inter_pred_idc" -> {PredL0, PredL1, PredBi}
      [] e = "NumPocTotalCurr" -> {1, 2}
      [] e = "sizeId" -> {1, 2}
      [] OTHER -> {0, 1}

\* Where 1 would end or narrow the parsing.
Narrowing ==
    {"cu_skip_flag", "pcm_flag", "merge_flag", "sao_merge_left_flag", "sao_merge_up_flag",
     "dependent_slice_segment_flag", "split_transform_flag", "cu_transquant_bypass_flag",
     "short_term_ref_pic_set_sps_flag", "idr", "irap", "isCuQpDeltaCoded",
     "isCuQpOffsetCoded", "end_of_slice_segment_flag", "inter_ref_pic_set_prediction_flag",
     "uniform_spacing_flag", "pps_deblocking_filter_disabled_flag",
     "slice_deblocking_filter_disabled_flag", "fixed_pic_rate_general_flag",
     "fixed_pic_rate_within_cvs_flag", "low_delay_hrd_flag", "trafoDepth", "pred_mode_flag",
     "part_mode", "parentCbfCb", "parentCbfCr", "first_slice_segment_in_pic_flag",
     "five_minus_max_num_merge_cand", "separate_colour_plane_flag",
     "pps_multilayer_extension_flag", "pps_3d_extension_flag", "pps_scc_extension_flag"}
Usual(e) ==
    CASE e \in Narrowing -> 0
      [] e \in ProfileElements -> 4
      [] e = "aspect_ratio_idc" -> ExtendedSar
      [] e \in {"num_short_term_ref_pic_sets", "num_long_term_ref_pics_sps",
                "inter_pred_idc", "NumPocTotalCurr", "sizeId"} -> 2
      [] OTHER -> 1

\* Elements whose value is fixed: chosen otherwise, or refused by the decoder.
Fixed ==
    {"slice_type", "dependent_slice_segment_flag", "separate_colour_plane_flag",
     "pps_3d_extension_flag", "pps_scc_extension_flag", "cprms_present_flag"}

\* The elements that a condition tests: where a value matters.
AllTested ==
    Tested(VpsSyntax \o SpsSyntax \o PpsSyntax \o SliceSegmentHeaderSyntax
           \o SliceSegmentDataSyntax \o OpenPictureReads \o StartSliceReads
           \o CodingTreeUnitReads)
    \cup Tested(VpsRows \o SpsRows \o PpsRows \o SliceRows \o SegmentDataRows)

\* The ways to send n elements of a structure with another value.
Deviations(sent) ==
    LET free == (DOMAIN sent \cap AllTested) \ (Fixed \cup Unvaried)
        single == UNION {{e :> v : v \in Values(e) \ {sent[e]}} : e \in free}
        deviate[n \in 0 .. MaxDeviations] ==
            IF n = 0 THEN {<<>>}
            ELSE {d \in {one @@ some : one \in single, some \in deviate[n - 1]} :
                    Cardinality(DOMAIN d) = n}
    IN  deviate

---------------------------------------------------------------------------
\* Structures: what is their own, what surrounds them (given), their steps,
\* and what the standard says of them.

Coded(table) == {e \in DOMAIN table : table[e].code # "derived"}
Structure(table, own, given, steps, rows, inferred) ==
    LET sent == [e \in Coded(table) \cup given |-> Usual(e)]
    IN  [table |-> table, given |-> given, steps |-> steps, rows |-> rows,
         inferred |-> inferred, always |-> Coded(own) \ Mentioned(rows),
         sent |-> sent, deviations |-> Deviations(sent)]

Vps == Structure(VpsElements @@ PtlElements @@ HrdElements, VpsElements @@ PtlElements,
                 {}, VpsSyntax, VpsRows, InferredSps)
Sps == Structure(SpsElements @@ SpsRangeExtensionElements @@ SpsMultilayerElements
                 @@ PtlElements @@ VuiElements @@ HrdElements @@ ScalingListElements
                 @@ StRpsElements,
                 SpsElements @@ PtlElements, {"sizeId"}, SpsSyntax, SpsRows, InferredSps)
Pps == Structure(PpsElements @@ PpsRangeExtensionElements @@ PpsMultilayerElements
                 @@ ScalingListElements,
                 PpsElements, {}, PpsSyntax, PpsRows, InferredPps)
Header == Structure(SliceSegmentHeaderElements @@ PwtElements @@ RplmElements @@ StRpsElements,
                    SliceSegmentHeaderElements, {"irap", "idr", "NumPocTotalCurr"},
                    SliceSegmentHeaderSyntax, SliceRows, InferredSlice)
SegmentData == Structure(BlockElements, BlockElements, Circumstances,
                         SliceSegmentDataSyntax, SegmentDataRows, InferredBlock)

\* What is used of the elements that came before.
UsedBy(s) == Mentioned(s.steps) \cup Tested(s.steps) \cup Tested(s.rows)
             \cup Sources(s.table, DOMAIN s.table)
             \cup Sources(s.inferred, DOMAIN s.inferred)
UsedByReads(steps) == Mentioned(steps) \cup Tested(steps)
UsedInBlocks == UsedByReads(CodingTreeUnitReads)
UsedInSegment == UsedBy(SegmentData) \cup UsedInBlocks
UsedInSlice == UsedInSegment \cup UsedByReads(StartSliceReads)
UsedInHeader == UsedInSlice \cup UsedBy(Header)
UsedInPicture == UsedInHeader \cup UsedByReads(OpenPictureReads)
UsedInPps == UsedInPicture \cup UsedBy(Pps)

\* IRAP pictures are intra and IDR pictures are IRAP; a root of a transform
\* tree is larger than 4x4, and without chroma nothing of it is coded.
Possible(sent) ==
    /\ "irap" \in DOMAIN sent =>
           (sent["idr"] = 1 => sent["irap"] = 1) /\ (sent["irap"] = 1 => sent["slice_type"] = I)
    /\ "trafoDepth" \in DOMAIN sent =>
           /\ sent["trafoDepth"] = 0 => sent["above_4x4"] = 1
           /\ env["chroma_format_idc"] = Monochrome =>
                  sent["parentCbfCb"] = 0 /\ sent["parentCbfCr"] = 0

---------------------------------------------------------------------------
\* Parsing a structure, and reading what was parsed.

Given(s, sent) == [e \in s.given |-> sent[e]]
Scope(s, sent) == Given(s, sent) @@ Drop(env, DOMAIN s.table)

\* A scaling list or a set of the PPS or of the slice hides that of the SPS.
Hidden(s, now) == IF "scaling_list_pred_mode_flag" \in DOMAIN now THEN DOMAIN s.table ELSE {}

Misinferred(s, now, values) ==
    {e \in DOMAIN now \cap DOMAIN values \cap Coded(s.table) : now[e] # values[e]}

ParseAs(s, fixed, uses, next) ==
    \E n \in 0 .. MaxDeviations - spent :
        \E d \in s.deviations[n] :
            LET sent == fixed @@ d @@ s.sent
                scope == Scope(s, sent)
            IN  /\ Possible(sent)
                /\ \E parsing \in {Execute(s.table, sent, scope, s.steps)},
                      standard \in {Presence(s.rows, s.inferred, s.always, sent, scope)} :
                      /\ env' = Keep(parsing.env @@ Drop(env, Hidden(s, parsing.env)), uses)
                      /\ undefined' = undefined \cup parsing.undefined
                      /\ disagreement' = disagreement
                              \cup (parsing.parsed \ standard.present)
                              \cup (standard.present \ parsing.parsed)
                      /\ misinferred' = misinferred
                              \cup Misinferred(s, parsing.env, standard.values)
                /\ stage' = next
                /\ spent' = spent + n

ReadBy(steps, uses, next) ==
    /\ stage' = next
    /\ env' = Keep(env, uses)
    /\ undefined' = undefined \cup Execute(<<>>, <<>>, env, steps).undefined
    /\ UNCHANGED <<spent, disagreement, misinferred>>

Init ==
    /\ stage = "parameters"
    /\ spent = 0
    /\ env = <<>>
    /\ undefined = {} /\ disagreement = {} /\ misinferred = {}

\* The decoder only prints a video parameter set.
ParseVps == stage = "parameters" /\ ParseAs(Vps, <<>>, {}, "printed")
ParseSps == stage = "parameters" /\ ParseAs(Sps, <<>>, UsedInPps, "pps")
ParsePps == stage = "pps" /\ ParseAs(Pps, <<>>, UsedInPicture, "picture")
OpenPicture == stage = "picture" /\ ReadBy(OpenPictureReads, UsedInHeader, "header")

\* An independent slice segment.
ParseHeader ==
    /\ stage = "header"
    /\ \E type \in SliceTypes :
          ParseAs(Header,
                  [slice_type |-> type, dependent_slice_segment_flag |-> 0],
                  UsedInSlice, "slice")
StartSlice == stage = "slice" /\ ReadBy(StartSliceReads, UsedInSegment, "data")

\* The header of a dependent slice segment, of which only the address and the
\* entry points are used.
ParseDependentHeader ==
    /\ stage = "header"
    /\ env["dependent_slice_segments_enabled_flag"] = 1
    /\ ParseAs(Header,
               [slice_type |-> I, dependent_slice_segment_flag |-> 1,
                first_slice_segment_in_pic_flag |-> 0],
               {"SliceAddrRs"}, "dependent")

ParseSegmentData ==
    stage = "data" /\ ParseAs(SegmentData, <<>>, UsedInBlocks, "blocks")
DecodeBlocks == stage = "blocks" /\ ReadBy(CodingTreeUnitReads, {}, "decoded")

Next ==
    \/ ParseVps \/ ParseSps \/ ParsePps \/ OpenPicture
    \/ ParseHeader \/ StartSlice \/ ParseDependentHeader
    \/ ParseSegmentData \/ DecodeBlocks

Spec == Init /\ [][Next]_vars

---------------------------------------------------------------------------
Stages ==
    {"parameters", "printed", "pps", "picture", "header", "slice", "dependent", "data",
     "blocks", "decoded"}
Elements == DOMAIN ParameterSetElements \cup DOMAIN SliceSegmentHeaderElements
            \cup DOMAIN PwtElements \cup DOMAIN RplmElements \cup DOMAIN BlockElements
            \cup Circumstances \cup {"sizeId", "irap", "idr", "NumPocTotalCurr",
                                     "within_max_depth"}

\* What is kept of the elements, and what the guards look at.
TypeOK ==
    /\ stage \in Stages
    /\ spent \in 0 .. MaxDeviations
    /\ DOMAIN env \subseteq Elements
    /\ stage = "header" => "dependent_slice_segments_enabled_flag" \in DOMAIN env
    /\ stage = "data" => "chroma_format_idc" \in DOMAIN env
    /\ undefined \subseteq Elements
    /\ disagreement \subseteq Elements
    /\ misinferred \subseteq Elements

\* Nothing is read that was neither constructed, sent nor assigned: not while
\* parsing, not when a picture is opened or a slice started, not by the
\* decoding processes and the filters.
ReadsDefined == undefined = {}

\* The decoder parses the elements that the standard says are present.
SyntaxAgrees == disagreement = {}

\* An element that is not sent has the value the standard infers.
InferredAgrees == misinferred = {}
=============================================================================

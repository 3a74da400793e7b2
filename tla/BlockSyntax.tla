---------------------------- MODULE BlockSyntax ----------------------------
(***************************************************************************)
(* How a coding tree unit is parsed: the sample adaptive offset, a coding  *)
(* quadtree down to one coding unit, its prediction units, its transform   *)
(* tree down to one node, the transform unit there and its residuals.      *)
(*                                                                         *)
(* What depends on positions and sizes is sent with the elements, as a     *)
(* circumstance: a neighbour to merge with, a block that fits, the depth   *)
(* of the node, what was already coded for the quantization group.         *)
(***************************************************************************)
EXTENDS SliceSyntax, BlockElements

\* CuPredMode: a skipped unit merges, so merge_flag is constructed from it.
ModeInter == 0
ModeSkip == 1
ModeIntra == 2
I == 2

\* sao_type_idx
BandOffset == 1
EdgeOffset == 2

\* inter_pred_idc
PredL0 == 0
PredL1 == 1
PredBi == 2

Circumstances ==
    {"left_available", "up_available", "block_fits", "above_min_size", "at_min_size",
     "pcm_size", "unaligned", "trafoDepth", "above_min_transform",
     "within_max_transform", "above_4x4", "parentCbfCb", "parentCbfCr",
     "isCuQpDeltaCoded", "isCuQpOffsetCoded", "transform_skip_size",
     "several_sub_blocks", "escape", "substream_end"}

---------------------------------------------------------------------------
\* Sample adaptive offset.  Merged parameters are copied from the neighbour.

SaoPlaneSyntax(on, type, eo_class) ==
    If(On(on),
       Parse({type})
       \o If(On(type),
             Parse({"sao_offset_abs"})
             \o If(In(type, {BandOffset}),
                   If(On("sao_offset_abs"), Parse({"sao_offset_sign"}))
                   \o Parse({"sao_band_position"}))
             \o If(NotIn(type, {BandOffset}), Parse({eo_class}))))

SaoSyntax ==
    Embed(DOMAIN SaoElements)
    \o If(On("left_available"), Parse({"sao_merge_left_flag"}))
    \o IfAll(<< <<On("up_available")>>, <<Off("sao_merge_left_flag")>> >>,
             Parse({"sao_merge_up_flag"}))
    \o IfAny(<<On("sao_merge_left_flag"), On("sao_merge_up_flag")>>,
             Assign("SaoTypeIdx", 0) \o Assign("SaoOffsetVal", 0)
             \o Assign("sao_band_position", 0) \o Assign("SaoEoClass", 0))
    \o IfAll(<< <<Off("sao_merge_left_flag")>>, <<Off("sao_merge_up_flag")>> >>,
             SaoPlaneSyntax("slice_sao_luma_flag", "sao_type_idx_luma", "sao_eo_class_luma")
             \o If(NotIn("chroma_format_idc", {Monochrome}),
                   SaoPlaneSyntax("slice_sao_chroma_flag", "sao_type_idx_chroma",
                                  "sao_eo_class_chroma"))
             \o If(On("pps_range_extension_flag"),
                   Read({"log2_sao_offset_scale_luma", "log2_sao_offset_scale_chroma"}))
             \o Read({"sao_offset_abs", "sao_offset_sign",
                      "sao_eo_class_luma", "sao_eo_class_chroma"})
             \o Assign("SaoOffsetVal", 1) \o Assign("SaoEoClass", 1))

---------------------------------------------------------------------------
\* Prediction.

\* One component of a motion vector difference.
MvdSyntax ==
    Embed(DOMAIN MvdElements \ {"lMvd"})
    \o Parse({"abs_mvd_greater0_flag"})
    \o If(On("abs_mvd_greater0_flag"),
          Parse({"abs_mvd_greater1_flag"})
          \o If(On("abs_mvd_greater1_flag"), Parse({"abs_mvd_minus2"}))
          \o Parse({"mvd_sign_flag"}))
    \o Embed({"lMvd"})

\* MaxNumMergeCand is kept as the element it is constructed from: 5 - 4 is 1.
MergeIdxSyntax == If(NotIn("MaxNumMergeCand", {4}), Parse({"merge_idx"}))

PredictionUnitSyntax ==
    Read({"MaxNumMergeCand", "num_ref_idx_l0_active_minus1",
          "num_ref_idx_l1_active_minus1"})
    \o Embed(DOMAIN PredictionUnitElements)
    \o If(On("cu_skip_flag"), MergeIdxSyntax)
    \o If(Off("cu_skip_flag"),
          Parse({"merge_flag"})
          \o If(On("merge_flag"), MergeIdxSyntax)
          \o If(Off("merge_flag"),
                If(In("slice_type", {B}), Parse({"inter_pred_idc"}))
                \o If(NotIn("inter_pred_idc", {PredL1}),
                      If(On("num_ref_idx_l0_active_minus1"), Parse({"ref_idx_l0"}))
                      \o MvdSyntax \o Parse({"mvp_l0_flag"}))
                \o If(NotIn("inter_pred_idc", {PredL0}),
                      If(On("num_ref_idx_l1_active_minus1"), Parse({"ref_idx_l1"}))
                      \o Read({"mvd_l1_zero_flag"})
                      \o IfAny(<<Off("mvd_l1_zero_flag"), NotIn("inter_pred_idc", {PredBi})>>,
                               MvdSyntax)
                      \o Parse({"mvp_l1_flag"}))))

PcmSampleSyntax ==
    Read({"pcm_sample_bit_depth_luma_minus1", "pcm_sample_bit_depth_chroma_minus1"})
    \o Embed(DOMAIN PcmElements)
    \o Parse({"pcm_sample_luma"})
    \o If(NotIn("chroma_format_idc", {Monochrome}), Parse({"pcm_sample_chroma"}))

\* The prediction modes of the parts, sent for all of them flag by flag.
IntraSyntax ==
    Embed({"prev_intra_luma_pred_flag", "mpm_idx", "rem_intra_luma_pred_mode",
           "intra_chroma_pred_mode"})
    \o Parse({"prev_intra_luma_pred_flag"})
    \o If(On("prev_intra_luma_pred_flag"), Parse({"mpm_idx"}))
    \o If(Off("prev_intra_luma_pred_flag"), Parse({"rem_intra_luma_pred_mode"}))
    \o If(NotIn("chroma_format_idc", {Monochrome}), Parse({"intra_chroma_pred_mode"}))
    \o Embed({"IntraPredModeY"})
    \o If(NotIn("chroma_format_idc", {Monochrome}), Embed({"IntraPredModeC"}))

---------------------------------------------------------------------------
\* Residuals.

\* predMode: the intra mode of the plane; a prefix that is not 0 is above 3.
ResidualSyntax(predMode) ==
    If(On("sps_range_extension_flag"),
          Read({"implicit_rdpcm_enabled_flag", "explicit_rdpcm_enabled_flag",
                "extended_precision_processing_flag",
                "persistent_rice_adaptation_enabled_flag",
                "cabac_bypass_alignment_enabled_flag"}))
    \o Embed({"ResidualCodingCIdx", "scanIdx", "transform_skip_flag", "explicit_rdpcm_flag"})
    \o If(In("CuPredMode", {ModeIntra}), Read({predMode}))
    \o IfAll(<< <<On("transform_skip_enabled_flag")>>, <<Off("cu_transquant_bypass_flag")>>,
                <<On("transform_skip_size")>> >>,
             Parse({"transform_skip_flag"}))
    \o IfAll(<< <<On("sps_range_extension_flag")>>, <<On("explicit_rdpcm_enabled_flag")>>,
                <<In("CuPredMode", {ModeInter})>>,
                <<On("transform_skip_flag"), On("cu_transquant_bypass_flag")>> >>,
             Parse({"explicit_rdpcm_flag"})
             \o If(On("explicit_rdpcm_flag"),
                   Embed({"explicit_rdpcm_dir_flag"}) \o Parse({"explicit_rdpcm_dir_flag"})))
    \o Embed({"last_sig_coeff_x_prefix", "last_sig_coeff_y_prefix"})
    \o Parse({"last_sig_coeff_x_prefix", "last_sig_coeff_y_prefix"})
    \o If(On("last_sig_coeff_x_prefix"),
          Embed({"last_sig_coeff_x_suffix"}) \o Parse({"last_sig_coeff_x_suffix"}))
    \o If(On("last_sig_coeff_y_prefix"),
          Embed({"last_sig_coeff_y_suffix"}) \o Parse({"last_sig_coeff_y_suffix"}))
    \o Embed({"LastSignificantCoeffX", "LastSignificantCoeffY", "coded_sub_block_flag",
              "sig_coeff_flag", "coeff_abs_level_greater1_flag",
              "coeff_abs_level_greater2_flag", "coeff_sign_flag",
              "coeff_abs_level_remaining"})
    \o If(On("several_sub_blocks"), Parse({"coded_sub_block_flag"}))
    \o Parse({"sig_coeff_flag", "coeff_abs_level_greater1_flag"})
    \o If(On("coeff_abs_level_greater1_flag"), Parse({"coeff_abs_level_greater2_flag"}))
    \o IfAll(<< <<Off("cu_transquant_bypass_flag")>>, <<In("CuPredMode", {ModeIntra})>>,
                <<On("sps_range_extension_flag")>>, <<On("implicit_rdpcm_enabled_flag")>>,
                <<On("transform_skip_flag")>> >>,
             Read({predMode}))
    \o Read({"sign_data_hiding_enabled_flag"})
    \o Parse({"coeff_sign_flag"})
    \o If(On("escape"), Parse({"coeff_abs_level_remaining"}))

CrossCompSyntax ==
    Embed({"log2_res_scale_abs_plus1"})
    \o Parse({"log2_res_scale_abs_plus1"})
    \o If(On("log2_res_scale_abs_plus1"),
          Embed({"res_scale_sign_flag"}) \o Parse({"res_scale_sign_flag"}))

\* The differences of a quantization group, sent once.
QpSyntax ==
    IfAll(<< <<On("cu_qp_delta_enabled_flag")>>, <<Off("isCuQpDeltaCoded")>> >>,
          Embed(DOMAIN TransformQp)
          \o Parse({"cu_qp_delta_abs"})
          \o If(On("cu_qp_delta_abs"), Parse({"cu_qp_delta_sign_flag"}))
          \o Read(DOMAIN TransformQp))
    \o IfAll(<< <<On("cu_chroma_qp_offset_enabled_flag")>>,
                <<On("parentCbfCb"), On("parentCbfCr")>>,
                <<Off("cu_transquant_bypass_flag")>>, <<Off("isCuQpOffsetCoded")>> >>,
             Embed(DOMAIN TransformChromaQp)
             \o Read({"chroma_qp_offset_list_len_minus1"})
             \o Parse({"cu_chroma_qp_offset_flag"})
             \o If(On("cu_chroma_qp_offset_flag"),
                   If(On("chroma_qp_offset_list_len_minus1"),
                      Parse({"cu_chroma_qp_offset_idx"}))
                   \o Read({"cb_qp_offset_list", "cr_qp_offset_list"})))

(***************************************************************************)
(* Mutant of CrossComponentSyntax: the scale is parsed without luma to     *)
(* predict from.                                                           *)
(***************************************************************************)
CrossComponentSyntaxWithoutLuma ==
    IfAny(<<On("above_4x4"), In("chroma_format_idc", {3})>>,
      IfAll(<< <<On("pps_range_extension_flag")>>,
               <<On("cross_component_prediction_enabled_flag")>>,
               <<In("CuPredMode", {ModeInter}), On("intra_chroma_pred_mode")>> >>,
            CrossCompSyntax))

\* Chroma predicted from luma: the mode is 4 (here: not 0) where it is sent.
CrossComponentSyntax ==
    IfAny(<<On("above_4x4"), In("chroma_format_idc", {3})>>,
      IfAll(<< <<On("pps_range_extension_flag")>>,
               <<On("cross_component_prediction_enabled_flag")>>,
               <<In("CuPredMode", {ModeInter}), On("intra_chroma_pred_mode")>>,
               <<On("cbf_luma")>> >>, CrossCompSyntax))

TransformUnitSyntax ==
    IfAny(<<On("cbf_luma"), On("parentCbfCb"), On("parentCbfCr")>>,
          QpSyntax
          \o If(On("cbf_luma"), ResidualSyntax("IntraPredModeY"))
          \o CrossComponentSyntax
          \o IfAny(<<On("parentCbfCb"), On("parentCbfCr")>>,
                   ResidualSyntax("IntraPredModeC")))

\* A node: the chroma flags of its parent hold unless the node sends its own.
\* A root has no parent and is larger than 4x4.
RootSyntax ==
    IfAny(<<Off("trafoDepth"), In("chroma_format_idc", {Monochrome})>>,
          Assign("parentCbfCb", 0) \o Assign("parentCbfCr", 0))
    \o If(Off("trafoDepth"), Assign("above_4x4", 1))

\* maxDepth > depth, where an intra block cut in four has one level more.
WithinMaxDepth ==
    LET Deeper(mode, tests) ==
            IfAll(<< <<In("CuPredMode", {mode})>> >> \o tests, Assign("within_max_depth", 1))
        intra == "max_transform_hierarchy_depth_intra"
        inter == "max_transform_hierarchy_depth_inter"
    IN  Assign("within_max_depth", 0)
        \o Deeper(ModeInter, << <<On(inter)>>, <<Off("trafoDepth"), In(inter, {2})>> >>)
        \o Deeper(ModeIntra,
                  << <<On(intra)>>,
                     <<Off("trafoDepth"), In(intra, {2}), On("IntraSplitFlag")>> >>)

CbfSyntax(cbf, parent) ==
    IfAny(<<Off("trafoDepth"), On(parent)>>,
          Embed({cbf}) \o Parse({cbf})
          \o If(Off(cbf), Assign(parent, 0)) \o If(On(cbf), Assign(parent, 1)))

TransformTreeSyntax ==
    RootSyntax \o WithinMaxDepth
    \o Read({"MaxTrafoDepth", "max_transform_hierarchy_depth_inter"})
    \o Embed({"interSplitFlag", "split_transform_flag"})
    \o If(Off("within_max_transform"), Assign("split_transform_flag", 1))
    \o IfAll(<< <<Off("trafoDepth")>>, <<On("IntraSplitFlag")>> >>,
             Assign("split_transform_flag", 1))
    \o IfAll(<< <<Off("max_transform_hierarchy_depth_inter")>>,
                <<In("CuPredMode", {ModeInter})>>, <<On("PartMode")>>, <<Off("trafoDepth")>> >>,
             Assign("interSplitFlag", 1) \o Assign("split_transform_flag", 1))
    \o IfAll(<< <<On("within_max_transform")>>, <<On("above_min_transform")>>,
                <<On("within_max_depth")>>,
                <<Off("IntraSplitFlag"), On("trafoDepth")>> >>,
             Parse({"split_transform_flag"}))
    \o IfAll(<< <<On("above_4x4"), In("chroma_format_idc", {3})>>,
                <<NotIn("chroma_format_idc", {Monochrome})>> >>,
             CbfSyntax("cbf_cb", "parentCbfCb") \o CbfSyntax("cbf_cr", "parentCbfCr"))
    \o If(Off("split_transform_flag"),
          Assign("cbf_luma", 1)
          \o IfAny(<<In("CuPredMode", {ModeIntra}), On("trafoDepth"),
                     On("parentCbfCb"), On("parentCbfCr")>>,
                Parse({"cbf_luma"}))
          \o TransformUnitSyntax)

---------------------------------------------------------------------------
\* The coding unit.

CodingUnitModeSyntax ==
    Embed({"cu_transquant_bypass_flag", "cu_skip_flag", "pcm_flag"})
    \o If(On("transquant_bypass_enable_flag"), Parse({"cu_transquant_bypass_flag"}))
    \o If(NotIn("slice_type", {I}), Parse({"cu_skip_flag"}))
    \o Embed({"CuPredMode", "PartMode", "IntraSplitFlag"})
    \o If(On("cu_skip_flag"), Assign("CuPredMode", ModeSkip) \o PredictionUnitSyntax)
    \o If(Off("cu_skip_flag"),
          If(NotIn("slice_type", {I}),
             Embed({"pred_mode_flag"}) \o Parse({"pred_mode_flag"})
             \o If(Off("pred_mode_flag"), Assign("CuPredMode", ModeInter))
             \o If(On("pred_mode_flag"), Assign("CuPredMode", ModeIntra)))
          \o If(In("slice_type", {I}), Assign("CuPredMode", ModeIntra))
          \o IfAny(<<NotIn("CuPredMode", {ModeIntra}), On("at_min_size")>>,
                Embed({"part_mode"}) \o Read({"amp_enabled_flag"}) \o Parse({"part_mode"})
                \o If(On("part_mode"), Assign("PartMode", 1))
                \o IfAll(<< <<On("part_mode")>>, <<In("CuPredMode", {ModeIntra})>> >>,
                         Assign("IntraSplitFlag", 1))))

CodingUnitPredictionSyntax ==
    If(In("CuPredMode", {ModeIntra}),
       IfAll(<< <<On("pcm_enabled_flag")>>, <<Off("PartMode")>>, <<On("pcm_size")>> >>,
             Parse({"pcm_flag"}))
       \o If(On("pcm_flag"),
             If(On("unaligned"),
                Embed({"pcm_alignment_zero_bit"}) \o Parse({"pcm_alignment_zero_bit"}))
             \o PcmSampleSyntax)
       \o If(Off("pcm_flag"), IntraSyntax))
    \o If(In("CuPredMode", {ModeInter}), PredictionUnitSyntax)

CodingUnitSyntax ==
    CodingUnitModeSyntax
    \o If(Off("cu_skip_flag"),
          CodingUnitPredictionSyntax
          \o If(Off("pcm_flag"),
                Embed({"rqt_root_cbf"})
                \o IfAll(<< <<NotIn("CuPredMode", {ModeIntra})>>,
                            <<On("PartMode"), Off("merge_flag")>> >>,
                         Parse({"rqt_root_cbf"}))
                \o If(On("rqt_root_cbf"),
                      Read({"max_transform_hierarchy_depth_intra",
                            "max_transform_hierarchy_depth_inter"})
                      \o Embed({"MaxTrafoDepth"}) \o TransformTreeSyntax)))

---------------------------------------------------------------------------
\* The quadtree (one block of it) and the coding tree unit of a segment.

QuadTreeSyntax ==
    Embed({"split_cu_flag"})
    \o IfAll(<< <<On("block_fits")>>, <<On("above_min_size")>> >>, Parse({"split_cu_flag"}))
    \o Read({"cu_qp_delta_enabled_flag", "cu_chroma_qp_offset_enabled_flag"})
    \o IfAll(<< <<On("cu_chroma_qp_offset_enabled_flag")>> >>,
             Read({"diff_cu_chroma_qp_offset_depth"}))
    \o CodingUnitSyntax

CodingTreeUnitSyntax ==
    IfAny(<<On("slice_sao_luma_flag"), On("slice_sao_chroma_flag")>>, SaoSyntax)
    \o QuadTreeSyntax

SliceSegmentDataSyntax ==
    Read({"CabacInitType", "SliceQpY"})
    \o Embed(DOMAIN SegmentDataElements)
    \o CodingTreeUnitSyntax
    \o Parse({"end_of_slice_segment_flag"})
    \o IfAll(<< <<Off("end_of_slice_segment_flag")>>,
                <<On("tiles_enabled_flag"), On("entropy_coding_sync_enabled_flag")>>,
                <<On("substream_end")>> >>,
             Parse({"end_of_sub_stream_one_bit"}))
==============================================================================

--------------------------- MODULE DecodingReads ---------------------------
(***************************************************************************)
(* What the decoding processes read of the parsed structures, under the    *)
(* conditions they read it: opening a picture, starting a slice, decoding  *)
(* the blocks of a coding tree unit and filtering them.                    *)
(***************************************************************************)
EXTENDS BlockSyntax

---------------------------------------------------------------------------
\* Opening a picture.

\* The constants of the picture: its extensions are absent unless present.
PropertiesReads ==
    Read({"sps_range_extension_flag", "pps_range_extension_flag", "chroma_format_idc",
          "separate_colour_plane_flag", "bit_depth_luma_minus8",
          "bit_depth_chroma_minus8", "pic_width_in_luma_samples",
          "pic_height_in_luma_samples", "log2_max_pic_order_cnt_lsb_minus4",
          "diff_cu_qp_delta_depth", "pps_cb_qp_offset", "pps_cr_qp_offset",
          "log2_min_luma_coding_block_size_minus3",
          "log2_diff_max_min_luma_coding_block_size",
          "log2_min_transform_block_size_minus2",
          "log2_diff_max_min_transform_block_size"})
    \o If(On("pcm_enabled_flag"),
          Read({"pcm_sample_bit_depth_luma_minus1", "pcm_sample_bit_depth_chroma_minus1",
                "log2_min_pcm_luma_coding_block_size_minus3",
                "log2_diff_max_min_pcm_luma_coding_block_size"}))
    \o If(On("pps_range_extension_flag"),
          If(On("transform_skip_enabled_flag"),
             Read({"log2_max_transform_skip_block_size_minus2"}))
          \o If(On("chroma_qp_offset_list_enabled_flag"),
                Read({"diff_cu_chroma_qp_offset_depth"})))
    \o Read({"num_tile_columns_minus1", "num_tile_rows_minus1"})
    \o IfAll(<< <<Off("uniform_spacing_flag")>>, <<On("num_tile_columns_minus1")>> >>,
             Read({"column_width_minus1"}))
    \o IfAll(<< <<Off("uniform_spacing_flag")>>, <<On("num_tile_rows_minus1")>> >>,
             Read({"row_height_minus1"}))

\* The limits of the DPB, for the highest sub-layer.
SetupReads ==
    Read({"sps_max_sub_layers_minus1", "sps_max_num_reorder_pics",
          "sps_max_latency_increase_plus1", "sps_max_dec_pic_buffering_minus1"})

\* The scaling lists of the PPS go before those of the SPS.
ScalingReads ==
    LET lists ==
            Read({"scaling_list_pred_mode_flag"})
            \o If(Off("scaling_list_pred_mode_flag"),
                  Read({"scaling_list_pred_matrix_id_delta"}))
            \o If(On("scaling_list_pred_mode_flag"), Read({"scaling_list_delta_coef"}))
            \o If(In("sizeId", {2, 3}), Read({"scaling_list_dc_coef_minus8"}))
    IN  If(On("pps_scaling_list_data_present_flag"), lists)
        \o IfAll(<< <<Off("pps_scaling_list_data_present_flag")>>,
                    <<On("scaling_list_enabled_flag")>>,
                    <<On("sps_scaling_list_data_present_flag")>> >>, lists)

\* RPSP::derive of a set: predicted from another or sent.
DeriveSetReads ==
    Read({"StRpsIdx"})
    \o If(On("inter_ref_pic_set_prediction_flag"),
          Read({"RefRpsIdx", "DeltaRps", "use_delta_flag", "used_by_curr_pic_flag"}))
    \o If(Off("inter_ref_pic_set_prediction_flag"),
          If(On("num_negative_pics"),
             Read({"used_by_curr_pic_s0_flag", "delta_poc_s0_minus1"}))
          \o If(On("num_positive_pics"),
                Read({"used_by_curr_pic_s1_flag", "delta_poc_s1_minus1"})))

OpenPictureReads ==
    If(On("num_short_term_ref_pic_sets"), DeriveSetReads)
    \o PropertiesReads \o SetupReads \o ScalingReads

---------------------------------------------------------------------------
\* Starting a slice.

StartSliceReads ==
    Read({"slice_pic_order_cnt_lsb", "SliceAddrRs", "pic_output_flag"})
    \o If(On("irap"), Read({"no_output_of_prior_pics_flag"}))
    \o If(Off("idr"),
          Read({"CurrRpsIdx", "num_long_term_sps", "num_long_term_pics"})
          \o If(Off("short_term_ref_pic_set_sps_flag"), DeriveSetReads))
    \o If(In("slice_type", Inter),
          IfAll(<< <<On("lists_modification_present_flag")>>,
                   <<NotIn("NumPocTotalCurr", {0, 1})>> >>,
                If(On("ref_pic_list_modification_flag_l0"), Read({"list_entry_l0"}))
                \o If(In("slice_type", {B}),
                      If(On("ref_pic_list_modification_flag_l1"), Read({"list_entry_l1"}))))
          \o Read({"num_ref_idx_l0_active_minus1"})
          \o If(In("slice_type", {B}), Read({"num_ref_idx_l1_active_minus1"})))

---------------------------------------------------------------------------
\* Decoding the blocks.

\* Temporal candidates, merging and motion vector prediction.
MotionReads ==
    Read({"slice_temporal_mvp_enable_flag", "log2_parallel_merge_level_minus2",
          "MaxNumMergeCand", "num_ref_idx_l0_active_minus1", "num_ref_idx_l1_active_minus1"})
    \o If(On("slice_temporal_mvp_enable_flag"),
          Read({"collocated_ref_idx", "collocated_from_l0_flag"}))
    \o If(On("merge_flag"), Read({"merge_idx"}))
    \o If(Off("merge_flag"),
          Read({"inter_pred_idc", "ref_idx_l0", "ref_idx_l1", "MvdLX", "mvp_l0_flag"})
          \o If(NotIn("inter_pred_idc", {PredL0}), Read({"mvp_l1_flag"})))

WeightedReads ==
    If(On("sps_range_extension_flag"), Read({"high_precision_offsets_enabled_flag"}))
    \o IfAll(<< <<In("slice_type", {B}), On("weighted_pred_flag")>>,
                <<In("slice_type", {P}), On("weighted_bipred_flag")>> >>,
             Read({"luma_log2_weight_denom", "LumaWeightLx", "luma_offset_l0"})
             \o If(NotIn("chroma_format_idc", {Monochrome}),
                   Read({"ChromaLog2WeightDenom", "ChromaWeightLx", "ChromaOffsetLx"})))

IntraReads ==
    Read({"constrained_intra_pred_flag", "strong_intra_smoothing_enable_flag",
          "IntraPredModeY", "cu_transquant_bypass_flag"})
    \o If(NotIn("chroma_format_idc", {Monochrome}), Read({"IntraPredModeC"}))
    \o If(On("sps_range_extension_flag"),
          Read({"implicit_rdpcm_enabled_flag", "intra_smoothing_disabled_flag"}))

QpReads ==
    Read({"SliceQpY", "slice_cb_qp_offset", "slice_cr_qp_offset"})

\* Residual modification, transform and scaling of a block with levels.
ResidualReads ==
    If(On("sps_range_extension_flag"),
       Read({"extended_precision_processing_flag", "transform_skip_rotation_enabled_flag"}))
    \o Read({"transform_skip_flag", "scaling_list_enabled_flag"})
    \o If(In("CuPredMode", {ModeInter}),
          If(On("explicit_rdpcm_flag"), Read({"explicit_rdpcm_dir_flag"})))

\* Chroma predicted from luma, of intra units in 4:4:4, where it was sent.
CrossComponentReads ==
    IfAll(<< <<In("CuPredMode", {ModeIntra})>>, <<In("chroma_format_idc", {3})>>,
             <<On("pps_range_extension_flag")>>,
             <<On("cross_component_prediction_enabled_flag")>>,
             <<On("intra_chroma_pred_mode")>>,
             <<On("log2_res_scale_abs_plus1")>> >>,
          Read({"res_scale_sign_flag"}))

BlockReads ==
    If(In("CuPredMode", {ModeInter, ModeSkip}), MotionReads \o WeightedReads)
    \o IfAll(<< <<In("CuPredMode", {ModeIntra})>>, <<Off("pcm_flag")>> >>, IntraReads)
    \o QpReads
    \o IfAll(<< <<Off("cu_skip_flag")>>, <<Off("pcm_flag")>>, <<On("rqt_root_cbf")>>,
                <<Off("split_transform_flag")>>, <<On("cbf_luma")>> >>,
             ResidualReads \o CrossComponentReads)

---------------------------------------------------------------------------
\* The loop filters.

DeblockReads ==
    Read({"loop_filter_across_tiles_enabled_flag", "pcm_loop_filter_disabled_flag",
          "slice_loop_filter_across_slices_enabled_flag",
          "slice_deblocking_filter_disabled_flag", "pcm_flag",
          "cu_transquant_bypass_flag"})
    \o If(Off("slice_deblocking_filter_disabled_flag"),
          Read({"slice_beta_offset_div2", "slice_tc_offset_div2", "CuPredMode"}))

SaoReads ==
    IfAny(<<On("slice_sao_luma_flag"), On("slice_sao_chroma_flag")>>,
          Read({"SaoTypeIdx"})
          \o If(On("SaoTypeIdx"), Read({"SaoOffsetVal", "SaoEoClass"})))

CodingTreeUnitReads == BlockReads \o DeblockReads \o SaoReads
==============================================================================

---------------------------- MODULE SliceSyntax ----------------------------
(***************************************************************************)
(* How a slice segment header is parsed, in the order of                   *)
(* SliceSegmentHeader::onParse, with the structures nested in it.  The     *)
(* NAL unit type (irap, idr), the number of pictures of the current        *)
(* reference picture set and the parameter sets are what it depends on.    *)
(***************************************************************************)
EXTENDS ParameterSyntax, SliceElements

\* slice_type
B == 0
P == 1
Inter == {B, P}
Monochrome == 0

---------------------------------------------------------------------------
\* The weights of one list: the flags of its entries, then their values.

WeightsSyntax(luma, chroma, weight, offset, chroma_weight, chroma_offset) ==
    Parse({luma})
    \o If(NotIn("chroma_format_idc", {Monochrome}), Parse({chroma}))
    \o If(On(luma), Parse({weight, offset}))
    \o IfAll(<< <<NotIn("chroma_format_idc", {Monochrome})>>, <<On(chroma)>> >>,
             Parse({chroma_weight, chroma_offset}))
    \o Read({"luma_log2_weight_denom", weight}) \o Assign("LumaWeightLx", 1)
    \o If(NotIn("chroma_format_idc", {Monochrome}),
          Read({"ChromaLog2WeightDenom", chroma, chroma_weight, chroma_offset})
          \o Assign("ChromaWeightLx", 1) \o Assign("ChromaOffsetLx", 1))

PwtSyntax ==
    If(On("sps_range_extension_flag"), Read({"high_precision_offsets_enabled_flag"}))
    \o Embed({"luma_log2_weight_denom", "luma_weight_l0_flag", "delta_luma_weight_l0",
              "luma_offset_l0", "luma_weight_l1_flag", "delta_luma_weight_l1",
              "luma_offset_l1", "LumaWeightLx"})
    \o If(NotIn("chroma_format_idc", {Monochrome}),
          Embed({"delta_chroma_weight_l0", "delta_chroma_offset_l0",
                 "delta_chroma_weight_l1", "delta_chroma_offset_l1",
                 "ChromaWeightLx", "ChromaOffsetLx"}))
    \o Parse({"luma_log2_weight_denom"})
    \o If(NotIn("chroma_format_idc", {Monochrome}),
          Parse({"delta_chroma_log2_weight_denom"}) \o Embed({"ChromaLog2WeightDenom"}))
    \o Read({"num_ref_idx_l0_active_minus1"})
    \o WeightsSyntax("luma_weight_l0_flag", "chroma_weight_l0_flag",
                     "delta_luma_weight_l0", "luma_offset_l0",
                     "delta_chroma_weight_l0", "delta_chroma_offset_l0")
    \o If(In("slice_type", {B}),
          Read({"num_ref_idx_l1_active_minus1"})
          \o WeightsSyntax("luma_weight_l1_flag", "chroma_weight_l1_flag",
                           "delta_luma_weight_l1", "luma_offset_l1",
                           "delta_chroma_weight_l1", "delta_chroma_offset_l1"))

\* The explicit order of the reference lists.
RplmSyntax ==
    Embed(DOMAIN RplmElements)
    \o Parse({"ref_pic_list_modification_flag_l0"})
    \o If(On("ref_pic_list_modification_flag_l0"),
          Read({"num_ref_idx_l0_active_minus1"}) \o Parse({"list_entry_l0"}))
    \o If(In("slice_type", {B}),
          Parse({"ref_pic_list_modification_flag_l1"})
          \o If(On("ref_pic_list_modification_flag_l1"),
                Read({"num_ref_idx_l1_active_minus1"}) \o Parse({"list_entry_l1"})))

---------------------------------------------------------------------------
\* What the header constructs first, and the identity of the segment.

SliceIdentitySyntax ==
    Embed({"no_output_of_prior_pics_flag", "dependent_slice_segment_flag",
           "slice_segment_address", "pic_output_flag", "slice_pic_order_cnt_lsb",
           "short_term_ref_pic_set_idx", "num_long_term_sps", "num_long_term_pics",
           "lt_idx_sps", "delta_poc_msb_cycle_lt", "slice_temporal_mvp_enable_flag",
           "slice_sao_luma_flag", "slice_sao_chroma_flag", "cabac_init_flag",
           "collocated_from_l0_flag", "slice_cb_qp_offset", "slice_cr_qp_offset",
           "cu_chroma_qp_offset_enabled_flag", "deblocking_filter_override_flag",
           "num_entry_point_offsets"})
    \o Parse({"first_slice_segment_in_pic_flag"})
    \o If(On("irap"), Parse({"no_output_of_prior_pics_flag"}))
    \o Parse({"slice_pic_parameter_set_id"})
    \o Embed({"num_ref_idx_l0_active_minus1", "num_ref_idx_l1_active_minus1",
              "slice_deblocking_filter_disabled_flag", "slice_beta_offset_div2",
              "slice_tc_offset_div2", "slice_loop_filter_across_slices_enabled_flag"})
    \o If(Off("first_slice_segment_in_pic_flag"),
          If(On("dependent_slice_segments_enabled_flag"),
             Parse({"dependent_slice_segment_flag"}))
          \o Parse({"slice_segment_address"}))
    \o Embed({"SliceAddrRs"})

\* The short-term set, sent or named by an index of as many bits as the sets
\* need (none for one), and the long-term pictures, one of each kind.
SliceReferenceSetsSyntax ==
    Parse({"slice_pic_order_cnt_lsb", "short_term_ref_pic_set_sps_flag"})
    \o If(Off("short_term_ref_pic_set_sps_flag"),
          If(Off("num_short_term_ref_pic_sets"), StRpsSyntax(0, TRUE))
          \o If(On("num_short_term_ref_pic_sets"), StRpsSyntax(1, TRUE)))
    \o IfAll(<< <<On("short_term_ref_pic_set_sps_flag")>>,
                <<In("num_short_term_ref_pic_sets", {2})>> >>,
             Parse({"short_term_ref_pic_set_idx"}))
    \o Embed({"CurrRpsIdx"})
    \o If(On("long_term_ref_pics_present_flag"),
          If(On("num_long_term_ref_pics_sps"), Parse({"num_long_term_sps"}))
          \o Parse({"num_long_term_pics"})
          \o IfAny(<<On("num_long_term_sps"), On("num_long_term_pics")>>,
                Embed({"delta_poc_msb_present_flag", "poc_lsb_lt",
                       "used_by_curr_pic_lt_flag"})
                \o IfAll(<< <<On("num_long_term_sps")>>,
                            <<In("num_long_term_ref_pics_sps", {2})>> >>,
                         Parse({"lt_idx_sps"}))
                \o If(On("num_long_term_pics"),
                      Parse({"poc_lsb_lt", "used_by_curr_pic_lt_flag"}))
                \o Parse({"delta_poc_msb_present_flag"})
                \o If(On("delta_poc_msb_present_flag"),
                      Parse({"delta_poc_msb_cycle_lt"}))))

\* RPSP::derive, called in the middle of the header: what it reads of it.
DeriveReads ==
    If(Off("short_term_ref_pic_set_sps_flag"), Read({"inter_ref_pic_set_prediction_flag"}))
    \o Read({"CurrRpsIdx", "num_long_term_sps", "num_long_term_pics"})
    \o If(On("num_long_term_sps"),
          Read({"lt_idx_sps", "lt_ref_pic_poc_lsb_sps", "used_by_curr_pic_lt_sps_flag"}))
    \o If(On("num_long_term_pics"), Read({"poc_lsb_lt", "used_by_curr_pic_lt_flag"}))
    \o IfAny(<<On("num_long_term_sps"), On("num_long_term_pics")>>,
             Read({"delta_poc_msb_present_flag", "delta_poc_msb_cycle_lt"}))

\* The tools of P and B slices.
SliceInterSyntax ==
    Parse({"num_ref_idx_active_override_flag"})
    \o If(On("num_ref_idx_active_override_flag"),
          Parse({"num_ref_idx_l0_active_minus1"})
          \o If(In("slice_type", {B}), Parse({"num_ref_idx_l1_active_minus1"})))
    \o IfAll(<< <<On("lists_modification_present_flag")>>,
                <<NotIn("NumPocTotalCurr", {0, 1})>> >>, RplmSyntax)
    \o If(In("slice_type", {B}), Parse({"mvd_l1_zero_flag"}))
    \o If(On("cabac_init_present_flag"), Parse({"cabac_init_flag"}))
    \o If(On("slice_temporal_mvp_enable_flag"),
          If(In("slice_type", {B}), Parse({"collocated_from_l0_flag"}))
          \o Embed({"collocated_ref_idx"})
          \o IfAll(<< <<On("collocated_from_l0_flag"), On("num_ref_idx_l1_active_minus1")>>,
                      <<Off("collocated_from_l0_flag"), On("num_ref_idx_l0_active_minus1")>> >>,
                   Parse({"collocated_ref_idx"})))
    \o IfAll(<< <<On("weighted_pred_flag"), In("slice_type", {B})>>,
                <<On("weighted_bipred_flag"), In("slice_type", {P})>> >>, PwtSyntax)
    \o Parse({"five_minus_max_num_merge_cand"})
    \o Embed({"MaxNumMergeCand"})

\* Quantization and filters.
SliceFiltersSyntax ==
    Parse({"slice_qp_delta"})
    \o If(On("pps_slice_chroma_qp_offsets_present_flag"),
          Parse({"slice_cb_qp_offset", "slice_cr_qp_offset"}))
    \o IfAll(<< <<On("pps_range_extension_flag")>>,
                <<On("chroma_qp_offset_list_enabled_flag")>> >>,
             Parse({"cu_chroma_qp_offset_enabled_flag"}))
    \o If(On("deblocking_filter_control_present_flag"),
          If(On("deblocking_filter_override_enabled_flag"),
             Parse({"deblocking_filter_override_flag"}))
          \o If(On("deblocking_filter_override_flag"),
                Parse({"slice_deblocking_filter_disabled_flag"})
                \o If(Off("slice_deblocking_filter_disabled_flag"),
                      Parse({"slice_beta_offset_div2", "slice_tc_offset_div2"}))))
    \o IfAll(<< <<On("pps_loop_filter_across_slices_enabled_flag")>>,
                <<On("slice_sao_luma_flag"), On("slice_sao_chroma_flag"),
                  Off("slice_deblocking_filter_disabled_flag")>> >>,
             Parse({"slice_loop_filter_across_slices_enabled_flag"}))
    \o Embed({"SliceQpY", "CabacInitType"}) \o Read({"init_qp_minus26", "cabac_init_flag"})

\* What only an independent slice segment sends.
IndependentSyntax ==
    If(On("num_extra_slice_header_bits"), Parse({"slice_reserved_flag"}))
    \o Parse({"slice_type"})
    \o If(On("output_flag_present_flag"), Parse({"pic_output_flag"}))
    \o If(On("separate_colour_plane_flag"), Parse({"colour_plane_id"}))
    \o If(Off("idr"),
          SliceReferenceSetsSyntax \o DeriveReads
          \o If(On("sps_temporal_mvp_enable_flag"),
                Parse({"slice_temporal_mvp_enable_flag"})))
    \o If(On("sample_adaptive_offset_enabled_flag"),
          Parse({"slice_sao_luma_flag"})
          \o If(NotIn("chroma_format_idc", {Monochrome}), Parse({"slice_sao_chroma_flag"})))
    \o If(In("slice_type", Inter), SliceInterSyntax)
    \o SliceFiltersSyntax

SliceSegmentHeaderSyntax ==
    SliceIdentitySyntax
    \o If(Off("dependent_slice_segment_flag"), IndependentSyntax)
    \o IfAny(<<On("tiles_enabled_flag"), On("entropy_coding_sync_enabled_flag")>>,
          Parse({"num_entry_point_offsets"})
          \o If(On("num_entry_point_offsets"),
                Parse({"offset_len_minus1", "entry_point_offset_minus1"})))
    \o If(On("slice_segment_header_extension_present_flag"),
          Parse({"slice_segment_header_extension_length"})
          \o If(On("slice_segment_header_extension_length"),
                Parse({"slice_segment_header_extension_data_byte"})))
==============================================================================

-------------------------- MODULE ParameterSyntax --------------------------
(***************************************************************************)
(* How the parameter sets are parsed: the onParse handlers of the video,   *)
(* sequence and picture parameter sets and of the structures nested in     *)
(* them.  A loop over a list is one step for the list; a loop that may be  *)
(* empty is an if on its count.                                            *)
(***************************************************************************)
EXTENDS ParameterElements

---------------------------------------------------------------------------
\* Hypothetical reference decoder: nested in a VPS or in a VUI, always with
\* the common information (the first structure of a VPS).

SubLayerHrdSyntax ==
    Embed(DOMAIN SubLayerHrdElements)
    \o Parse({"bit_rate_value_minus1", "cpb_size_value_minus1"})
    \o If(On("sub_pic_hrd_params_present_flag"),
          Parse({"cpb_size_du_value_minus1", "bit_rate_du_value_minus1"}))
    \o Parse({"cbr_flag"})

HrdCommonSyntax ==
    Embed({"nal_hrd_parameters_present_flag", "vcl_hrd_parameters_present_flag",
           "initial_cpb_removal_delay_length_minus1",
           "au_cpb_removal_delay_length_minus1",
           "dpb_output_delay_length_minus1", "sub_pic_hrd_params_present_flag"})
    \o Parse({"nal_hrd_parameters_present_flag", "vcl_hrd_parameters_present_flag"})
    \o IfAny(<<On("nal_hrd_parameters_present_flag"),
               On("vcl_hrd_parameters_present_flag")>>,
          Parse({"sub_pic_hrd_params_present_flag"})
          \o If(On("sub_pic_hrd_params_present_flag"),
                Parse({"tick_divisor_minus2",
                       "du_cpb_removal_delay_increment_length_minus1",
                       "sub_pic_cpb_params_in_pic_timing_sei_flag",
                       "dpb_output_delay_du_length_minus1"}))
          \o Parse({"bit_rate_scale", "cpb_size_scale"})
          \o If(On("sub_pic_hrd_params_present_flag"), Parse({"cpb_size_du_scale"}))
          \o Parse({"initial_cpb_removal_delay_length_minus1",
                    "au_cpb_removal_delay_length_minus1",
                    "dpb_output_delay_length_minus1"}))

HrdSyntax ==
    HrdCommonSyntax
    \o Embed(DOMAIN HrdSubLayers)
    \o Parse({"fixed_pic_rate_general_flag"})
    \o If(Off("fixed_pic_rate_general_flag"), Parse({"fixed_pic_rate_within_cvs_flag"}))
    \o If(On("fixed_pic_rate_within_cvs_flag"), Parse({"elemental_duration_in_tc_minus1"}))
    \o If(Off("fixed_pic_rate_within_cvs_flag"), Parse({"low_delay_hrd_flag"}))
    \o If(Off("low_delay_hrd_flag"), Parse({"cpb_cnt_minus1"}))
    \o If(On("nal_hrd_parameters_present_flag"), SubLayerHrdSyntax)
    \o If(On("vcl_hrd_parameters_present_flag"), SubLayerHrdSyntax)

---------------------------------------------------------------------------
\* Video usability information.

\* EXTENDED_SAR
ExtendedSar == 255

VuiSyntax ==
    Parse({"aspect_ratio_info_present_flag"})
    \o If(On("aspect_ratio_info_present_flag"),
          Parse({"aspect_ratio_idc"})
          \o If(In("aspect_ratio_idc", {ExtendedSar}), Parse({"sar_width", "sar_height"})))
    \o Parse({"overscan_info_present_flag"})
    \o If(On("overscan_info_present_flag"), Parse({"overscan_appropriate_flag"}))
    \o Parse({"video_signal_type_present_flag"})
    \o If(On("video_signal_type_present_flag"),
          Parse({"video_format", "video_full_range_flag", "colour_description_present_flag"})
          \o If(On("colour_description_present_flag"),
                Parse({"colour_primaries", "transfer_characteristics", "matrix_coeffs"})))
    \o Parse({"chroma_loc_info_present_flag"})
    \o If(On("chroma_loc_info_present_flag"),
          Parse({"chroma_sample_loc_type_top_field", "chroma_sample_loc_type_bottom_field"}))
    \o Parse({"neutral_chroma_indication_flag", "field_seq_flag",
              "frame_field_info_present_flag", "default_display_window_flag"})
    \o If(On("default_display_window_flag"),
          Parse({"def_disp_win_left_offset", "def_disp_win_right_offset",
                 "def_disp_win_top_offset", "def_disp_win_bottom_offset"}))
    \o Parse({"vui_timing_info_present_flag"})
    \o If(On("vui_timing_info_present_flag"),
          Parse({"vui_num_units_in_tick", "vui_time_scale",
                 "vui_poc_proportional_to_timing_flag"})
          \o If(On("vui_poc_proportional_to_timing_flag"),
                Parse({"vui_num_ticks_poc_diff_one_minus1"}))
          \o Parse({"vui_hrd_parameters_present_flag"})
          \o If(On("vui_hrd_parameters_present_flag"), HrdSyntax))
    \o Parse({"bitstream_restriction_flag"})
    \o If(On("bitstream_restriction_flag"),
          Parse(DOMAIN VuiRestrictions \ {"bitstream_restriction_flag"}))

---------------------------------------------------------------------------
\* Profile, tier and level.  The 32 compatibility flags are one element whose
\* value is the profile it declares, 0 for none.

ConstraintFlags ==
    {"general_max_12bit_constraint_flag", "general_max_10bit_constraint_flag",
     "general_max_8bit_constraint_flag", "general_max_422chroma_constraint_flag",
     "general_max_420chroma_constraint_flag", "general_max_monochrome_constraint_flag",
     "general_intra_constraint_flag", "general_one_picture_only_constraint_flag",
     "general_lower_bit_rate_constraint_flag"}
SourceFlags ==
    {"general_progressive_source_flag", "general_interlaced_source_flag",
     "general_non_packed_constraint_flag", "general_frame_only_constraint_flag"}
ProfileIn(S) ==
    <<In("general_profile_idc", S), In("general_profile_compatibility_flag", S)>>
\* The else branch of IfAny(ProfileIn(S), ...).
ProfileOutside(S) ==
    << <<NotIn("general_profile_idc", S)>>,
       <<NotIn("general_profile_compatibility_flag", S)>> >>

GeneralProfileSyntax ==
    Embed({"general_profile_space", "general_tier_flag", "general_profile_idc",
           "general_profile_compatibility_flag", "general_level_idc"} \cup SourceFlags)
    \o Parse({"general_profile_space", "general_tier_flag", "general_profile_idc",
              "general_profile_compatibility_flag"} \cup SourceFlags)
    \o IfAny(ProfileIn(4 .. 10),
          Parse(ConstraintFlags)
          \o IfAny(ProfileIn({5, 9, 10}),
                Parse({"general_max_14bit_constraint_flag", "general_reserved_zero_33bits"}))
          \o IfAll(ProfileOutside({5, 9, 10}), Parse({"general_reserved_zero_34bits"})))
    \o IfAll(ProfileOutside(4 .. 10), Parse({"general_reserved_zero_43bits"}))
    \o IfAny(ProfileIn((1 .. 5) \cup {9}), Parse({"general_inbld_flag"}))
    \o IfAll(ProfileOutside((1 .. 5) \cup {9}), Parse({"general_reserved_zero_bit"}))
    \o Parse({"general_level_idc"})

SubLayerConstraintFlags ==
    {"sub_layer_max_12bit_constraint_flag", "sub_layer_max_10bit_constraint_flag",
     "sub_layer_max_8bit_constraint_flag", "sub_layer_max_422chroma_constraint_flag",
     "sub_layer_max_420chroma_constraint_flag",
     "sub_layer_max_monochrome_constraint_flag", "sub_layer_intra_constraint_flag",
     "sub_layer_one_picture_only_constraint_flag",
     "sub_layer_lower_bit_rate_constraint_flag"}
SubLayerSourceFlags ==
    {"sub_layer_progressive_source_flag", "sub_layer_interlaced_source_flag",
     "sub_layer_non_packed_constraint_flag", "sub_layer_frame_only_constraint_flag"}
SubLayerIn(S) ==
    <<In("sub_layer_profile_idc", S), In("sub_layer_profile_compatibility_flag", S)>>
SubLayerOutside(S) ==
    << <<NotIn("sub_layer_profile_idc", S)>>,
       <<NotIn("sub_layer_profile_compatibility_flag", S)>> >>

SubLayerProfileSyntax ==
    Parse({"sub_layer_profile_space", "sub_layer_tier_flag", "sub_layer_profile_idc",
           "sub_layer_profile_compatibility_flag"} \cup SubLayerSourceFlags)
    \o IfAny(SubLayerIn(4 .. 10),
          Parse(SubLayerConstraintFlags)
          \o IfAny(SubLayerIn({5}),
                Parse({"sub_layer_max_14bit_constraint_flag",
                       "sub_layer_reserved_zero_33bits"}))
          \o IfAll(SubLayerOutside({5}), Parse({"sub_layer_reserved_zero_34bits"})))
    \o IfAll(SubLayerOutside(4 .. 10), Parse({"sub_layer_reserved_zero_43bits"}))
    \o IfAny(SubLayerIn((1 .. 5) \cup {9}), Parse({"sub_layer_inbld_flag"}))
    \o IfAll(SubLayerOutside((1 .. 5) \cup {9}), Parse({"sub_layer_reserved_zero_bit"}))

\* max_sub_layers_minus1 names the element of the enclosing parameter set.
PtlSyntax(max_sub_layers_minus1) ==
    GeneralProfileSyntax
    \o If(On(max_sub_layers_minus1),
          Parse({"sub_layer_profile_present_flag", "sub_layer_level_present_flag",
                 "reserved_zero_2bits"})
          \o Embed((DOMAIN SubLayerProfile \cup DOMAIN SubLayerLevel)
                   \cup {"sub_layer_profile_space", "sub_layer_tier_flag",
                         "sub_layer_profile_idc"})
          \o If(On("sub_layer_profile_present_flag"), SubLayerProfileSyntax)
          \o If(On("sub_layer_level_present_flag"), Parse({"sub_layer_level_idc"})))

---------------------------------------------------------------------------
\* Scaling lists: one list, whose size decides whether it has a first
\* coefficient of its own.  A list copied from another one infers it.

ScalingListSyntax ==
    Embed(DOMAIN ScalingListElements)
    \o Parse({"scaling_list_pred_mode_flag"})
    \o If(Off("scaling_list_pred_mode_flag"),
          Parse({"scaling_list_pred_matrix_id_delta"})
          \o If(In("sizeId", {2, 3}), Assign("scaling_list_dc_coef_minus8", 8)))
    \o If(On("scaling_list_pred_mode_flag"),
          If(In("sizeId", {2, 3}), Parse({"scaling_list_dc_coef_minus8"}))
          \o Parse({"scaling_list_delta_coef"}))

\* A short-term reference picture set.  The one of a slice header follows
\* the sets of the SPS (its index is their number) and may predict from any.
StRpsSyntax(idx, inSlice) ==
    Embed({"StRpsIdx", "inter_ref_pic_set_prediction_flag", "use_delta_flag"})
    \o Assign("StRpsIdx", idx)
    \o If(On("StRpsIdx"), Parse({"inter_ref_pic_set_prediction_flag"}))
    \o If(On("inter_ref_pic_set_prediction_flag"),
          Embed({"delta_idx_minus1"})
          \o (IF inSlice THEN Parse({"delta_idx_minus1"}) ELSE <<>>)
          \o Read({"StRpsIdx", "delta_idx_minus1"}) \o Embed({"RefRpsIdx"})
          \o Parse({"delta_rps_sign", "abs_delta_rps_minus1"})
          \o Embed({"DeltaRps"})
          \o Parse({"used_by_curr_pic_flag"})
          \o If(Off("used_by_curr_pic_flag"), Parse({"use_delta_flag"})))
    \o If(Off("inter_ref_pic_set_prediction_flag"),
          Parse({"num_negative_pics", "num_positive_pics"})
          \o If(On("num_negative_pics"),
                Parse({"delta_poc_s0_minus1", "used_by_curr_pic_s0_flag"}))
          \o If(On("num_positive_pics"),
                Parse({"delta_poc_s1_minus1", "used_by_curr_pic_s1_flag"})))

---------------------------------------------------------------------------
\* The video parameter set.

VpsSyntax ==
    Parse(DOMAIN VpsLayers
          \ {"vps_sub_layer_ordering_info_present_flag", "vps_max_dec_pic_buffering_minus1"})
    \o PtlSyntax("vps_max_sub_layers_minus1")
    \o Parse({"vps_sub_layer_ordering_info_present_flag",
              "vps_max_dec_pic_buffering_minus1", "vps_max_num_reorder_pics",
              "vps_max_latency_increase_plus1", "vps_max_layer_id",
              "vps_num_layer_sets_minus1"})
    \o Embed({"layer_id_included_flag"})
    \o If(On("vps_num_layer_sets_minus1"), Parse({"layer_id_included_flag"}))
    \o Parse({"vps_timing_info_present_flag"})
    \o If(On("vps_timing_info_present_flag"),
          Parse({"vps_num_units_in_tick", "vps_time_scale",
                 "vps_poc_proportional_to_timing_flag"})
          \o If(On("vps_poc_proportional_to_timing_flag"),
                Parse({"vps_num_ticks_poc_diff_one_minus1"}))
          \o Parse({"vps_num_hrd_parameters"})
          \o If(On("vps_num_hrd_parameters"),
                Parse({"hrd_layer_set_idx"}) \o Embed({"cprms_present_flag"})
                \o Read({"cprms_present_flag"}) \o HrdSyntax))
    \o Parse({"vps_extension_flag"})
    \o If(On("vps_extension_flag"), Parse({"vps_extension_data_flag"}))

---------------------------------------------------------------------------
\* The sequence parameter set, in the order of the handler.

SpsFormatSyntax ==
    Embed({"separate_colour_plane_flag", "conf_win_left_offset",
           "conf_win_right_offset", "conf_win_top_offset", "conf_win_bottom_offset",
           "sps_range_extension_flag", "sps_multilayer_extension_flag",
           "sps_extension_6bits"})
    \o Parse({"sps_video_parameter_set_id", "sps_max_sub_layers_minus1",
              "sps_temporal_id_nesting_flag"})
    \o PtlSyntax("sps_max_sub_layers_minus1")
    \o Parse({"seq_parameter_set_id", "chroma_format_idc"})
    \o If(In("chroma_format_idc", {3}), Parse({"separate_colour_plane_flag"}))
    \o Parse({"pic_width_in_luma_samples", "pic_height_in_luma_samples",
              "conformance_window_flag"})
    \o If(On("conformance_window_flag"),
          Parse({"conf_win_left_offset", "conf_win_right_offset",
                 "conf_win_top_offset", "conf_win_bottom_offset"}))
    \o Parse({"bit_depth_luma_minus8", "bit_depth_chroma_minus8",
              "log2_max_pic_order_cnt_lsb_minus4",
              "sps_sub_layer_ordering_info_present_flag",
              "sps_max_dec_pic_buffering_minus1", "sps_max_num_reorder_pics",
              "sps_max_latency_increase_plus1"})

SpsToolsSyntax ==
    Parse(DOMAIN SpsBlockSizes
          \ {"sps_max_num_reorder_pics", "sps_max_latency_increase_plus1",
             "sps_scaling_list_data_present_flag"})
    \o If(On("scaling_list_enabled_flag"),
          Parse({"sps_scaling_list_data_present_flag"})
          \o If(On("sps_scaling_list_data_present_flag"), ScalingListSyntax))
    \o Embed({"pcm_loop_filter_disabled_flag"})
    \o Parse({"amp_enabled_flag", "sample_adaptive_offset_enabled_flag",
              "pcm_enabled_flag"})
    \o If(On("pcm_enabled_flag"),
          Parse({"pcm_sample_bit_depth_luma_minus1", "pcm_sample_bit_depth_chroma_minus1",
                 "log2_min_pcm_luma_coding_block_size_minus3",
                 "log2_diff_max_min_pcm_luma_coding_block_size",
                 "pcm_loop_filter_disabled_flag"}))
    \o Parse({"num_short_term_ref_pic_sets"})
    \o If(On("num_short_term_ref_pic_sets"), StRpsSyntax(0, FALSE))
    \o If(In("num_short_term_ref_pic_sets", {2}), StRpsSyntax(1, FALSE))
    \o Parse({"long_term_ref_pics_present_flag"})
    \o If(On("long_term_ref_pics_present_flag"),
          Parse({"num_long_term_ref_pics_sps"})
          \o If(On("num_long_term_ref_pics_sps"),
                Parse({"lt_ref_pic_poc_lsb_sps", "used_by_curr_pic_lt_sps_flag"})))

SpsSyntax ==
    SpsFormatSyntax
    \o SpsToolsSyntax
    \o Parse({"sps_temporal_mvp_enable_flag", "strong_intra_smoothing_enable_flag",
              "vui_parameters_present_flag"})
    \o If(On("vui_parameters_present_flag"), VuiSyntax)
    \o Parse({"sps_extension_present_flag"})
    \o If(On("sps_extension_present_flag"),
          Parse({"sps_range_extension_flag", "sps_multilayer_extension_flag",
                 "sps_extension_6bits"}))
    \o If(On("sps_range_extension_flag"), Parse(DOMAIN SpsRangeExtensionElements))
    \o If(On("sps_multilayer_extension_flag"), Parse(DOMAIN SpsMultilayerElements))
    \o If(On("sps_extension_6bits"), Parse({"sps_extension_data_flag"}))

---------------------------------------------------------------------------
\* The picture parameter set; the 3D and SCC extensions are refused.

PpsTilesSyntax ==
    If(On("tiles_enabled_flag"),
       Parse({"num_tile_columns_minus1", "num_tile_rows_minus1", "uniform_spacing_flag"})
       \o If(Off("uniform_spacing_flag"),
             If(On("num_tile_columns_minus1"), Parse({"column_width_minus1"}))
             \o If(On("num_tile_rows_minus1"), Parse({"row_height_minus1"})))
       \o Parse({"loop_filter_across_tiles_enabled_flag"}))

PpsDeblockingSyntax ==
    Parse({"pps_loop_filter_across_slices_enabled_flag",
           "deblocking_filter_control_present_flag"})
    \o If(On("deblocking_filter_control_present_flag"),
          Parse({"deblocking_filter_override_enabled_flag",
                 "pps_deblocking_filter_disabled_flag"})
          \o If(Off("pps_deblocking_filter_disabled_flag"),
                Parse({"pps_beta_offset_div2", "pps_tc_offset_div2"})))

PpsRangeExtensionSyntax ==
    If(On("transform_skip_enabled_flag"),
       Parse({"log2_max_transform_skip_block_size_minus2"}))
    \o Parse({"cross_component_prediction_enabled_flag",
              "chroma_qp_offset_list_enabled_flag"})
    \o If(On("chroma_qp_offset_list_enabled_flag"),
          Parse({"diff_cu_chroma_qp_offset_depth", "chroma_qp_offset_list_len_minus1",
                 "cb_qp_offset_list", "cr_qp_offset_list"}))
    \o Parse({"log2_sao_offset_scale_luma", "log2_sao_offset_scale_chroma"})

\* The structure is constructed, but none of its 21 elements: its handler is empty.
PpsMultilayerExtensionSyntax == Embed({})

PpsSyntax ==
    Embed({"num_tile_columns_minus1", "num_tile_rows_minus1", "uniform_spacing_flag",
           "loop_filter_across_tiles_enabled_flag",
           "deblocking_filter_override_enabled_flag",
           "pps_deblocking_filter_disabled_flag", "pps_beta_offset_div2",
           "pps_tc_offset_div2", "diff_cu_qp_delta_depth", "pps_range_extension_flag",
           "pps_multilayer_extension_flag", "pps_3d_extension_flag",
           "pps_scc_extension_flag", "pps_extension_4bits"})
    \o Parse(DOMAIN PpsIdentityAndQp
             \cup {"transform_skip_enabled_flag", "cu_qp_delta_enabled_flag"})
    \o If(On("cu_qp_delta_enabled_flag"), Parse({"diff_cu_qp_delta_depth"}))
    \o Parse(DOMAIN PpsCodingTools
             \ {"transform_skip_enabled_flag", "cu_qp_delta_enabled_flag",
                "diff_cu_qp_delta_depth"})
    \o PpsTilesSyntax
    \o PpsDeblockingSyntax
    \o Parse({"pps_scaling_list_data_present_flag"})
    \o If(On("pps_scaling_list_data_present_flag"), ScalingListSyntax)
    \o Parse({"lists_modification_present_flag", "log2_parallel_merge_level_minus2",
              "slice_segment_header_extension_present_flag", "pps_extension_present_flag"})
    \o If(On("pps_extension_present_flag"),
          Parse({"pps_range_extension_flag", "pps_multilayer_extension_flag",
                 "pps_3d_extension_flag", "pps_scc_extension_flag",
                 "pps_extension_4bits"}))
    \o If(On("pps_range_extension_flag"), PpsRangeExtensionSyntax)
    \o If(On("pps_multilayer_extension_flag"), PpsMultilayerExtensionSyntax)
    \o If(On("pps_extension_4bits"), Parse({"pps_extension_data_flag"}))
==============================================================================

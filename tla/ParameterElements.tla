-------------------------- MODULE ParameterElements ---------------------------
(***************************************************************************)
(* The elements of the parameter sets (src/Syntax/*.h): for every one, its *)
(* descriptor and the value its constructor gives it.                      *)
(***************************************************************************)
EXTENDS SyntaxStructure

\* Layers and sub-layers; the per sub-layer lists start filled with -1, the
\* latency list with nothing.
VpsLayers ==
  [ vps_video_parameter_set_id |-> Un(0),
    vps_base_layer_internal_flag |-> U1(0),
    vps_base_layer_available_flag |-> U1(0), vps_max_layers_minus1 |-> Un(0),
    vps_max_sub_layers_minus1 |-> Un(0),
    vps_temporal_id_nesting_flag |-> U1(0),
    vps_reserved_0xffff_16bits |-> Un(0),
    vps_sub_layer_ordering_info_present_flag |-> U1(0),
    vps_max_dec_pic_buffering_minus1 |-> Ue(-1) ]

\* Layer sets and the timing of the sequence.
VpsLayerSetsAndTiming ==
  [ vps_max_num_reorder_pics |-> Ue(-1),
    vps_max_latency_increase_plus1 |-> Bare("ue"), vps_max_layer_id |-> Un(0),
    vps_num_layer_sets_minus1 |-> Ue(0), layer_id_included_flag |-> U1(0),
    vps_timing_info_present_flag |-> U1(0), vps_num_units_in_tick |-> Un(0),
    vps_time_scale |-> Un(0), vps_poc_proportional_to_timing_flag |-> U1(0),
    vps_num_ticks_poc_diff_one_minus1 |-> Ue(0) ]

\* The HRD structures a VPS carries; the flag of the first one is inferred.
VpsHrdAndExtension ==
  [ vps_num_hrd_parameters |-> Ue(0), hrd_layer_set_idx |-> Ue(0),
    cprms_present_flag |-> U1(1), vps_extension_flag |-> U1(0),
    vps_extension_data_flag |-> Bare("u1") ]

\* Which HRD parameters are present, and the lengths of the delays.
HrdPresence ==
  [ nal_hrd_parameters_present_flag |-> U1(0),
    vcl_hrd_parameters_present_flag |-> U1(0),
    sub_pic_hrd_params_present_flag |-> U1(0), tick_divisor_minus2 |-> Un(0),
    du_cpb_removal_delay_increment_length_minus1 |-> Un(0),
    sub_pic_cpb_params_in_pic_timing_sei_flag |-> U1(0),
    dpb_output_delay_du_length_minus1 |-> Un(0), bit_rate_scale |-> Un(0),
    cpb_size_scale |-> Un(0), cpb_size_du_scale |-> Un(0),
    initial_cpb_removal_delay_length_minus1 |-> Un(23),
    au_cpb_removal_delay_length_minus1 |-> Un(23),
    dpb_output_delay_length_minus1 |-> Un(23) ]

\* The lists with one entry per sub-layer, all filled on construction.
HrdSubLayers ==
  [ fixed_pic_rate_general_flag |-> U1(0),
    fixed_pic_rate_within_cvs_flag |-> U1(1),
    elemental_duration_in_tc_minus1 |-> Ue(0), low_delay_hrd_flag |-> U1(0),
    cpb_cnt_minus1 |-> Ue(0) ]

\* Lists with one entry per coded picture buffer, filled by nothing.
SubLayerHrdElements ==
  [ bit_rate_value_minus1 |-> Bare("ue"), cpb_size_value_minus1 |-> Bare("ue"),
    cpb_size_du_value_minus1 |-> Bare("ue"),
    bit_rate_du_value_minus1 |-> Bare("ue"), cbr_flag |-> U1(0) ]

\* Aspect ratio, overscan, signal type and chroma location.
VuiVideoSignal ==
  [ aspect_ratio_info_present_flag |-> U1(0), aspect_ratio_idc |-> Un(0),
    sar_width |-> Un(0), sar_height |-> Un(0),
    overscan_info_present_flag |-> U1(0), overscan_appropriate_flag |-> U1(0),
    video_signal_type_present_flag |-> U1(0), video_format |-> Un(0),
    video_full_range_flag |-> U1(0), colour_description_present_flag |-> U1(0),
    colour_primaries |-> Un(0), transfer_characteristics |-> Un(0),
    matrix_coeffs |-> Un(0), chroma_loc_info_present_flag |-> U1(0),
    chroma_sample_loc_type_top_field |-> Ue(0) ]

\* Field information, display window and timing.
VuiDisplayAndTiming ==
  [ chroma_sample_loc_type_bottom_field |-> Ue(0),
    neutral_chroma_indication_flag |-> U1(0), field_seq_flag |-> U1(0),
    frame_field_info_present_flag |-> U1(0),
    default_display_window_flag |-> U1(0), def_disp_win_left_offset |-> Ue(0),
    def_disp_win_right_offset |-> Ue(0), def_disp_win_top_offset |-> Ue(0),
    def_disp_win_bottom_offset |-> Ue(0),
    vui_timing_info_present_flag |-> U1(0), vui_num_units_in_tick |-> Un(0),
    vui_time_scale |-> Un(0), vui_poc_proportional_to_timing_flag |-> U1(0),
    vui_num_ticks_poc_diff_one_minus1 |-> Ue(0),
    vui_hrd_parameters_present_flag |-> U1(0) ]

\* The bitstream restrictions.
VuiRestrictions ==
  [ bitstream_restriction_flag |-> U1(0), tiles_fixed_structure_flag |-> U1(0),
    motion_vectors_over_pic_boundaries_flag |-> U1(0),
    restricted_ref_pic_lists_flag |-> U1(0),
    min_spatial_segmentation_idc |-> Ue(0), max_bytes_per_pic_denom |-> Ue(0),
    max_bits_per_min_cu_denom |-> Ue(0),
    log2_max_mv_length_horizontal |-> Ue(0),
    log2_max_mv_length_vertical |-> Ue(0) ]

\* The general profile and the constraints it declares.
GeneralProfile ==
  [ general_profile_space |-> Un(0), general_tier_flag |-> U1(0),
    general_profile_idc |-> Un(0),
    general_profile_compatibility_flag |-> U1(0),
    general_progressive_source_flag |-> U1(0),
    general_interlaced_source_flag |-> U1(0),
    general_non_packed_constraint_flag |-> U1(0),
    general_frame_only_constraint_flag |-> U1(0),
    general_max_12bit_constraint_flag |-> U1(0),
    general_max_10bit_constraint_flag |-> U1(0),
    general_max_8bit_constraint_flag |-> U1(0),
    general_max_422chroma_constraint_flag |-> U1(0),
    general_max_420chroma_constraint_flag |-> U1(0),
    general_max_monochrome_constraint_flag |-> U1(0),
    general_intra_constraint_flag |-> U1(0),
    general_one_picture_only_constraint_flag |-> U1(0),
    general_lower_bit_rate_constraint_flag |-> U1(0) ]

\* The reserved bits, the general level and what sub-layers are described.
GeneralLevel ==
  [ general_max_14bit_constraint_flag |-> U1(0),
    general_reserved_zero_33bits |-> Un(0),
    general_reserved_zero_34bits |-> Un(0),
    general_reserved_zero_43bits |-> Un(0), general_inbld_flag |-> U1(0),
    general_reserved_zero_bit |-> U1(0), general_level_idc |-> Un(0),
    sub_layer_profile_present_flag |-> U1(0),
    sub_layer_level_present_flag |-> U1(0), reserved_zero_2bits |-> Un(0),
    sub_layer_profile_space |-> Bare("un"), sub_layer_tier_flag |-> U1(0),
    sub_layer_profile_idc |-> Bare("un") ]

\* The profile of each sub-layer, in lists of flags.
SubLayerProfile ==
  [ sub_layer_profile_compatibility_flag |-> U1(0),
    sub_layer_progressive_source_flag |-> U1(0),
    sub_layer_interlaced_source_flag |-> U1(0),
    sub_layer_non_packed_constraint_flag |-> U1(0),
    sub_layer_frame_only_constraint_flag |-> U1(0),
    sub_layer_max_12bit_constraint_flag |-> U1(0),
    sub_layer_max_10bit_constraint_flag |-> U1(0),
    sub_layer_max_8bit_constraint_flag |-> U1(0),
    sub_layer_max_422chroma_constraint_flag |-> U1(0),
    sub_layer_max_420chroma_constraint_flag |-> U1(0) ]

\* The rest of the constraints and the level of each sub-layer.
SubLayerLevel ==
  [ sub_layer_max_monochrome_constraint_flag |-> U1(0),
    sub_layer_intra_constraint_flag |-> U1(0),
    sub_layer_one_picture_only_constraint_flag |-> U1(0),
    sub_layer_lower_bit_rate_constraint_flag |-> U1(0),
    sub_layer_max_14bit_constraint_flag |-> U1(0),
    sub_layer_reserved_zero_33bits |-> Un(0),
    sub_layer_reserved_zero_34bits |-> Un(0),
    sub_layer_reserved_zero_43bits |-> Un(0), sub_layer_inbld_flag |-> U1(0),
    sub_layer_reserved_zero_bit |-> U1(0), sub_layer_level_idc |-> Bare("un") ]

\* Identities, sample format, picture size and cropping window.
SpsIdentityAndFormat ==
  [ sps_video_parameter_set_id |-> Un(0), sps_max_sub_layers_minus1 |-> Un(0),
    sps_temporal_id_nesting_flag |-> U1(0), seq_parameter_set_id |-> Ue(0),
    chroma_format_idc |-> Ue(0), separate_colour_plane_flag |-> U1(0),
    pic_width_in_luma_samples |-> Ue(0), pic_height_in_luma_samples |-> Ue(0),
    conformance_window_flag |-> U1(0), conf_win_left_offset |-> Ue(0) ]

\* Bit depths, picture order count and the first sub-layer list.
SpsBitDepthAndOrder ==
  [ conf_win_right_offset |-> Ue(0), conf_win_top_offset |-> Ue(0),
    conf_win_bottom_offset |-> Ue(0), bit_depth_luma_minus8 |-> Ue(0),
    bit_depth_chroma_minus8 |-> Ue(0),
    log2_max_pic_order_cnt_lsb_minus4 |-> Ue(0),
    sps_sub_layer_ordering_info_present_flag |-> U1(0),
    sps_max_dec_pic_buffering_minus1 |-> Ue(-1) ]

\* Reorder and latency limits, block sizes, scaling lists.
SpsBlockSizes ==
  [ sps_max_num_reorder_pics |-> Ue(-1),
    sps_max_latency_increase_plus1 |-> Bare("ue"),
    log2_min_luma_coding_block_size_minus3 |-> Ue(0),
    log2_diff_max_min_luma_coding_block_size |-> Ue(0),
    log2_min_transform_block_size_minus2 |-> Ue(0),
    log2_diff_max_min_transform_block_size |-> Ue(0),
    max_transform_hierarchy_depth_inter |-> Ue(0),
    max_transform_hierarchy_depth_intra |-> Ue(0),
    scaling_list_enabled_flag |-> U1(0),
    sps_scaling_list_data_present_flag |-> U1(0) ]

\* AMP, SAO, PCM and the counts of reference picture sets.
SpsCodingTools ==
  [ amp_enabled_flag |-> U1(0), sample_adaptive_offset_enabled_flag |-> U1(0),
    pcm_enabled_flag |-> U1(0), pcm_sample_bit_depth_luma_minus1 |-> Un(0),
    pcm_sample_bit_depth_chroma_minus1 |-> Un(0),
    log2_min_pcm_luma_coding_block_size_minus3 |-> Ue(0),
    log2_diff_max_min_pcm_luma_coding_block_size |-> Ue(0),
    pcm_loop_filter_disabled_flag |-> U1(0),
    num_short_term_ref_pic_sets |-> Ue(0),
    long_term_ref_pics_present_flag |-> U1(0),
    num_long_term_ref_pics_sps |-> Ue(0) ]

\* Long-term candidates (their POCs filled by nothing), VUI and extensions.
SpsExtensions ==
  [ lt_ref_pic_poc_lsb_sps |-> Bare("uv"),
    used_by_curr_pic_lt_sps_flag |-> U1(0),
    sps_temporal_mvp_enable_flag |-> U1(0),
    strong_intra_smoothing_enable_flag |-> U1(0),
    vui_parameters_present_flag |-> U1(0),
    sps_extension_present_flag |-> U1(0), sps_range_extension_flag |-> U1(0),
    sps_multilayer_extension_flag |-> U1(0), sps_extension_6bits |-> Un(0) ]

\* The range extension of the SPS.
SpsRangeElements ==
  [ transform_skip_rotation_enabled_flag |-> U1(0),
    transform_skip_context_enabled_flag |-> U1(0),
    implicit_rdpcm_enabled_flag |-> U1(0),
    explicit_rdpcm_enabled_flag |-> U1(0),
    extended_precision_processing_flag |-> U1(0),
    intra_smoothing_disabled_flag |-> U1(0),
    high_precision_offsets_enabled_flag |-> U1(0),
    persistent_rice_adaptation_enabled_flag |-> U1(0) ]

\* Its last flag.
SpsRangeAlignment ==
  [ cabac_bypass_alignment_enabled_flag |-> U1(0) ]

\* The multilayer extension of the SPS.
SpsMultilayerElements ==
  [ inter_view_mv_vert_constraint_flag |-> U1(0) ]

(***************************************************************************)
(* Mutant of PpsIdentityAndQp: dependent_slice_segments_enabled_flag is    *)
(* forgotten.                                                              *)
(***************************************************************************)
PpsIdentityAndQpIndependent ==
  [ pps_pic_parameter_set_id |-> Ue(0), pps_seq_parameter_set_id |-> Ue(0),
    output_flag_present_flag |-> U1(0), num_extra_slice_header_bits |-> Un(0),
    sign_data_hiding_enabled_flag |-> U1(0), cabac_init_present_flag |-> U1(0),
    num_ref_idx_l0_default_active_minus1 |-> Ue(0),
    num_ref_idx_l1_default_active_minus1 |-> Ue(0), init_qp_minus26 |-> Se(0),
    constrained_intra_pred_flag |-> U1(0) ]

\* Identities, slice header controls, initial QP.
PpsIdentityAndQp ==
  [ pps_pic_parameter_set_id |-> Ue(0), pps_seq_parameter_set_id |-> Ue(0),
    dependent_slice_segments_enabled_flag |-> U1(0),
    output_flag_present_flag |-> U1(0), num_extra_slice_header_bits |-> Un(0),
    sign_data_hiding_enabled_flag |-> U1(0), cabac_init_present_flag |-> U1(0),
    num_ref_idx_l0_default_active_minus1 |-> Ue(0),
    num_ref_idx_l1_default_active_minus1 |-> Ue(0), init_qp_minus26 |-> Se(0),
    constrained_intra_pred_flag |-> U1(0) ]

\* Transform skip, QP offsets, weighted prediction, tiles and wavefronts.
PpsCodingTools ==
  [ transform_skip_enabled_flag |-> U1(0), cu_qp_delta_enabled_flag |-> U1(0),
    diff_cu_qp_delta_depth |-> Ue(0), pps_cb_qp_offset |-> Se(0),
    pps_cr_qp_offset |-> Se(0),
    pps_slice_chroma_qp_offsets_present_flag |-> U1(0),
    weighted_pred_flag |-> U1(0), weighted_bipred_flag |-> U1(0),
    transquant_bypass_enable_flag |-> U1(0), tiles_enabled_flag |-> U1(0),
    entropy_coding_sync_enabled_flag |-> U1(0) ]

\* The tile grid; a picture without tiles is one uniform tile.
PpsTiles ==
  [ num_tile_columns_minus1 |-> Ue(0), num_tile_rows_minus1 |-> Ue(0),
    uniform_spacing_flag |-> U1(1), column_width_minus1 |-> Ue(0),
    row_height_minus1 |-> Ue(0),
    loop_filter_across_tiles_enabled_flag |-> U1(1),
    pps_loop_filter_across_slices_enabled_flag |-> U1(0) ]

\* Deblocking control, scaling lists, list modification, header extension.
PpsDeblocking ==
  [ deblocking_filter_control_present_flag |-> U1(0),
    deblocking_filter_override_enabled_flag |-> U1(0),
    pps_deblocking_filter_disabled_flag |-> U1(0),
    pps_beta_offset_div2 |-> Se(0), pps_tc_offset_div2 |-> Se(0),
    pps_scaling_list_data_present_flag |-> U1(0),
    lists_modification_present_flag |-> U1(0),
    log2_parallel_merge_level_minus2 |-> Ue(0),
    slice_segment_header_extension_present_flag |-> U1(0) ]

\* The extension flags.
PpsExtensions ==
  [ pps_extension_present_flag |-> U1(0), pps_range_extension_flag |-> U1(0),
    pps_multilayer_extension_flag |-> U1(0), pps_3d_extension_flag |-> U1(0),
    pps_scc_extension_flag |-> U1(0), pps_extension_4bits |-> Un(0),
    pps_extension_data_flag |-> Bare("u1") ]

\* The range extension of the PPS.
PpsRangeElements ==
  [ log2_max_transform_skip_block_size_minus2 |-> Ue(0),
    cross_component_prediction_enabled_flag |-> U1(0),
    chroma_qp_offset_list_enabled_flag |-> U1(0),
    diff_cu_chroma_qp_offset_depth |-> Ue(0),
    chroma_qp_offset_list_len_minus1 |-> Ue(0), cb_qp_offset_list |-> Se(0),
    cr_qp_offset_list |-> Se(0), log2_sao_offset_scale_luma |-> Ue(0) ]

\* Its last element.
PpsRangeSaoChroma ==
  [ log2_sao_offset_scale_chroma |-> Ue(0) ]

\* The multilayer extension of the PPS, of which nothing is ever parsed.
PpsMultilayerElements ==
  [ poc_reset_info_present_flag |-> U1(0),
    pps_infer_scaling_list_flag |-> U1(0),
    pps_scaling_list_ref_layer_id |-> Un(0), num_ref_loc_offsets |-> Ue(0),
    ref_loc_offset_layer_id |-> Un(0),
    scaled_ref_layer_offset_present_flag |-> U1(0),
    scaled_ref_layer_left_offset |-> Se(0),
    scaled_ref_layer_top_offset |-> Se(0),
    scaled_ref_layer_right_offset |-> Se(0),
    scaled_ref_layer_bottom_offset |-> Se(0),
    ref_region_offset_present_flag |-> U1(0), ref_region_left_offset |-> Se(0),
    ref_region_top_offset |-> Se(0), ref_region_right_offset |-> Se(0),
    ref_region_bottom_offset |-> Se(0),
    resample_phase_set_present_flag |-> U1(0), phase_hor_luma |-> Ue(0),
    phase_ver_luma |-> Ue(0), phase_hor_chroma_plus8 |-> Ue(0),
    phase_ver_chroma_plus8 |-> Ue(0), colour_mapping_enabled_flag |-> U1(0) ]

\* One scaling list: its mode, the list it copies, its first and other coefficients.
ScalingListElements ==
  [ scaling_list_pred_mode_flag |-> Bare("u1"),
    scaling_list_pred_matrix_id_delta |-> Bare("ue"),
    scaling_list_dc_coef_minus8 |-> Bare("se"),
    scaling_list_delta_coef |-> Se(0) ]

\* A set predicted from another one: use_delta_flag starts as true.
StRpsPrediction ==
  [ inter_ref_pic_set_prediction_flag |-> U1(0), delta_idx_minus1 |-> Ue(0),
    delta_rps_sign |-> U1(0), abs_delta_rps_minus1 |-> Ue(0),
    DeltaRps |-> From("derived", "delta_rps_sign"),
    used_by_curr_pic_flag |-> U1(0), use_delta_flag |-> U1(1) ]

\* A set sent by its pictures, in lists filled by nothing.
StRpsExplicit ==
  [ num_negative_pics |-> Ue(0), num_positive_pics |-> Ue(0),
    delta_poc_s0_minus1 |-> Bare("ue"), used_by_curr_pic_s0_flag |-> U1(0),
    delta_poc_s1_minus1 |-> Bare("ue"), used_by_curr_pic_s1_flag |-> U1(0),
    StRpsIdx |-> Derived(0), RefRpsIdx |-> From("derived", "StRpsIdx") ]

\* The elements of each structure, as its aggregator lists them.
VpsElements == VpsLayers @@ VpsLayerSetsAndTiming @@ VpsHrdAndExtension
HrdElements == HrdPresence @@ HrdSubLayers @@ SubLayerHrdElements
VuiElements == VuiVideoSignal @@ VuiDisplayAndTiming @@ VuiRestrictions
PtlElements == GeneralProfile @@ GeneralLevel @@ SubLayerProfile @@ SubLayerLevel
SpsElements ==
    SpsIdentityAndFormat @@ SpsBitDepthAndOrder @@ SpsBlockSizes
    @@ SpsCodingTools @@ SpsExtensions @@ [sps_extension_data_flag |-> Bare("u1")]
SpsRangeExtensionElements == SpsRangeElements @@ SpsRangeAlignment
PpsElements ==
    PpsIdentityAndQp @@ PpsCodingTools @@ PpsTiles @@ PpsDeblocking @@ PpsExtensions
PpsRangeExtensionElements == PpsRangeElements @@ PpsRangeSaoChroma
StRpsElements == StRpsPrediction @@ StRpsExplicit

ParameterSetElements ==
    VpsElements @@ HrdElements @@ VuiElements @@ PtlElements @@ SpsElements
    @@ SpsRangeExtensionElements @@ SpsMultilayerElements @@ PpsElements
    @@ PpsRangeExtensionElements @@ PpsMultilayerElements
    @@ ScalingListElements @@ StRpsElements
===============================================================================

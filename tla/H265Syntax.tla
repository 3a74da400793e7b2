----------------------------- MODULE H265Syntax -----------------------------
(***************************************************************************)
(* The syntax tables of Rec. ITU-T H.265, clauses 7.3 and 7.4 and Annexes  *)
(* E and F, that the decoder cites: for every element that is not always   *)
(* sent, when it is, and for the elements decoding uses, what they are     *)
(* inferred to be when it is not.  External to the decoder: the tables are *)
(* declarative, one row per condition, in an order where what a condition  *)
(* tests comes first.                                                      *)
(*                                                                         *)
(* The edition is that of 12/2016, whose extension flags the decoder's PPS *)
(* has, except for the extension flags of the SPS.  There the decoder      *)
(* follows the edition of 04/2015, and so does SpsRows: six bits,          *)
(* sps_extension_6bits, where 12/2016 has sps_3d_extension_flag,           *)
(* sps_scc_extension_flag and sps_extension_4bits.                         *)
(***************************************************************************)
EXTENDS BlockSyntax

\* The elements sent under a condition, and a value inferred under one.
Row(clauses, ids) == [ids |-> ids, when |-> clauses, inferred |-> {}]
Infer(clauses, e, v) == [ids |-> {e}, when |-> clauses, inferred |-> {v}]

\* A clause of one test.
Is(t) == <<t>>
HasChroma == NotIn("chroma_format_idc", {Monochrome})

\* What an absent element counts as: a value, or that of another element.
Value(inferred, values, e) ==
    IF inferred[e].init # {} THEN CHOOSE v \in inferred[e].init : TRUE
    ELSE values[CHOOSE s \in inferred[e].from : TRUE]
InferredFrom(inferred, values, ids) ==
    {e \in ids \cap DOMAIN inferred :
        inferred[e].init # {} \/ inferred[e].from \cap DOMAIN values # {}}

Account(inferred, sent, acc, row) ==
    CASE Holds(acc.values, row.when) /\ row.inferred = {} ->
           [values |-> [e \in row.ids |-> sent[e]] @@ acc.values,
            present |-> acc.present \cup row.ids]
      [] Holds(acc.values, row.when) /\ row.inferred # {} ->
           [acc EXCEPT !.values = [e \in row.ids |-> CHOOSE v \in row.inferred : TRUE] @@ @]
      [] ~Holds(acc.values, row.when) ->
           [acc EXCEPT !.values =
               [e \in InferredFrom(inferred, acc.values, row.ids) \ acc.present |->
                   Value(inferred, acc.values, e)] @@ @]

\* What is present in a structure, and the values its elements have: those
\* sent, and those inferred for what is not.
Presence(rows, inferred, always, sent, env) ==
    Accumulate(LAMBDA acc, row : Account(inferred, sent, acc, row),
               [values |-> [e \in always |-> sent[e]] @@ env, present |-> always], rows)

---------------------------------------------------------------------------
\* 7.3.2.1, E.2.2: the video parameter set.

\* E.2.1, E.2.2 and E.2.3
HrdRows(present) == <<
    Row(<<Is(present)>>, {"nal_hrd_parameters_present_flag",
                          "vcl_hrd_parameters_present_flag",
                          "fixed_pic_rate_general_flag"}),
    Row(<<Is(present), <<On("nal_hrd_parameters_present_flag"),
                         On("vcl_hrd_parameters_present_flag")>> >>,
        {"sub_pic_hrd_params_present_flag", "bit_rate_scale", "cpb_size_scale",
         "initial_cpb_removal_delay_length_minus1", "au_cpb_removal_delay_length_minus1",
         "dpb_output_delay_length_minus1"}),
    Row(<<Is(present), Is(On("sub_pic_hrd_params_present_flag"))>>,
        {"tick_divisor_minus2", "du_cpb_removal_delay_increment_length_minus1",
         "sub_pic_cpb_params_in_pic_timing_sei_flag",
         "dpb_output_delay_du_length_minus1", "cpb_size_du_scale"}),
    Row(<<Is(present), Is(Off("fixed_pic_rate_general_flag"))>>,
        {"fixed_pic_rate_within_cvs_flag"}),
    Row(<<Is(present), <<On("fixed_pic_rate_general_flag"),
                         On("fixed_pic_rate_within_cvs_flag")>> >>,
        {"elemental_duration_in_tc_minus1"}),
    Row(<<Is(present), Is(Off("fixed_pic_rate_general_flag")),
          Is(Off("fixed_pic_rate_within_cvs_flag"))>>, {"low_delay_hrd_flag"}),
    Row(<<Is(present), Is(Off("low_delay_hrd_flag"))>>, {"cpb_cnt_minus1"}),
    Row(<<Is(present), <<On("nal_hrd_parameters_present_flag"),
                         On("vcl_hrd_parameters_present_flag")>> >>,
        {"bit_rate_value_minus1", "cpb_size_value_minus1", "cbr_flag"}),
    Row(<<Is(present), Is(On("sub_pic_hrd_params_present_flag"))>>,
        {"cpb_size_du_value_minus1", "bit_rate_du_value_minus1"}) >>

\* 7.3.3: which constraint flags a profile has.
ProfileRows(idc, flag, present, flags, bit14, z33, z34, z43, inbld, zero, with33) ==
    LET In_(S) == <<In(idc, S), In(flag, S)>>
        Not_(S) == <<Is(NotIn(idc, S)), Is(NotIn(flag, S))>>
    IN  << Row(present \o <<In_(4 .. 10)>>, flags),
           Row(present \o <<In_(with33)>>, {bit14, z33}),
           Row(present \o <<In_(4 .. 10)>> \o Not_(with33), {z34}),
           Row(present \o Not_(4 .. 10), {z43}),
           Row(present \o <<In_({1, 2, 3, 4, 5, 9})>>, {inbld}),
           Row(present \o Not_({1, 2, 3, 4, 5, 9}), {zero}) >>

SubLayerRow(max_sub_layers_minus1, present, ids) ==
    Row(<<Is(On(max_sub_layers_minus1)), Is(On(present))>>, ids)

PtlRows(max_sub_layers_minus1) ==
    ProfileRows("general_profile_idc", "general_profile_compatibility_flag", <<>>,
        ConstraintFlags, "general_max_14bit_constraint_flag",
        "general_reserved_zero_33bits", "general_reserved_zero_34bits",
        "general_reserved_zero_43bits", "general_inbld_flag",
        "general_reserved_zero_bit", {5, 9, 10})
    \o << Row(<<Is(On(max_sub_layers_minus1))>>,
              {"sub_layer_profile_present_flag", "sub_layer_level_present_flag",
               "reserved_zero_2bits"}),
          SubLayerRow(max_sub_layers_minus1, "sub_layer_profile_present_flag",
              {"sub_layer_profile_space", "sub_layer_tier_flag", "sub_layer_profile_idc",
               "sub_layer_profile_compatibility_flag"} \cup SubLayerSourceFlags),
          SubLayerRow(max_sub_layers_minus1, "sub_layer_level_present_flag",
              {"sub_layer_level_idc"}) >>
    \o ProfileRows("sub_layer_profile_idc", "sub_layer_profile_compatibility_flag",
        <<Is(On(max_sub_layers_minus1)), Is(On("sub_layer_profile_present_flag"))>>,
        SubLayerConstraintFlags, "sub_layer_max_14bit_constraint_flag",
        "sub_layer_reserved_zero_33bits", "sub_layer_reserved_zero_34bits",
        "sub_layer_reserved_zero_43bits", "sub_layer_inbld_flag",
        "sub_layer_reserved_zero_bit", {5})

VpsRows ==
    PtlRows("vps_max_sub_layers_minus1")
    \o << Row(<<Is(On("vps_num_layer_sets_minus1"))>>, {"layer_id_included_flag"}),
          Row(<<Is(On("vps_timing_info_present_flag"))>>,
              {"vps_num_units_in_tick", "vps_time_scale",
               "vps_poc_proportional_to_timing_flag", "vps_num_hrd_parameters"}),
          Row(<<Is(On("vps_poc_proportional_to_timing_flag"))>>,
              {"vps_num_ticks_poc_diff_one_minus1"}),
          Row(<<Is(On("vps_num_hrd_parameters"))>>, {"hrd_layer_set_idx"}),
          \* only before the second of the structures
          Row(<< <<>> >>, {"cprms_present_flag"}) >>
    \o HrdRows(On("vps_num_hrd_parameters"))
    \o << Row(<<Is(On("vps_extension_flag"))>>, {"vps_extension_data_flag"}) >>

---------------------------------------------------------------------------
\* E.2.1: video usability information; 7.3.2.2: the sequence parameter set.

VuiRows ==
    LET vui == On("vui_parameters_present_flag")
        Vui(e, ids) == Row(<<Is(On(e))>>, ids)
    IN  << Row(<<Is(vui)>>,
               {"aspect_ratio_info_present_flag", "overscan_info_present_flag",
                "video_signal_type_present_flag", "chroma_loc_info_present_flag",
                "neutral_chroma_indication_flag", "field_seq_flag",
                "frame_field_info_present_flag", "default_display_window_flag",
                "vui_timing_info_present_flag", "bitstream_restriction_flag"}),
           Vui("aspect_ratio_info_present_flag", {"aspect_ratio_idc"}),
           Row(<<Is(In("aspect_ratio_idc", {255}))>>, {"sar_width", "sar_height"}),
           Vui("overscan_info_present_flag", {"overscan_appropriate_flag"}),
           Vui("video_signal_type_present_flag",
               {"video_format", "video_full_range_flag", "colour_description_present_flag"}),
           Vui("colour_description_present_flag",
               {"colour_primaries", "transfer_characteristics", "matrix_coeffs"}),
           Vui("chroma_loc_info_present_flag",
               {"chroma_sample_loc_type_top_field", "chroma_sample_loc_type_bottom_field"}),
           Vui("default_display_window_flag",
               {"def_disp_win_left_offset", "def_disp_win_right_offset",
                "def_disp_win_top_offset", "def_disp_win_bottom_offset"}),
           Vui("vui_timing_info_present_flag",
               {"vui_num_units_in_tick", "vui_time_scale",
                "vui_poc_proportional_to_timing_flag", "vui_hrd_parameters_present_flag"}),
           Vui("vui_poc_proportional_to_timing_flag", {"vui_num_ticks_poc_diff_one_minus1"}) >>
        \o HrdRows(On("vui_hrd_parameters_present_flag"))
        \o << Vui("bitstream_restriction_flag",
                  {"tiles_fixed_structure_flag", "motion_vectors_over_pic_boundaries_flag",
                   "restricted_ref_pic_lists_flag", "min_spatial_segmentation_idc",
                   "max_bytes_per_pic_denom", "max_bits_per_min_cu_denom",
                   "log2_max_mv_length_horizontal", "log2_max_mv_length_vertical"}) >>

\* 7.3.4
ScalingListRows(present) == <<
    Row(present, {"scaling_list_pred_mode_flag"}),
    Row(present \o <<Is(Off("scaling_list_pred_mode_flag"))>>,
        {"scaling_list_pred_matrix_id_delta"}),
    Row(present \o <<Is(On("scaling_list_pred_mode_flag")), Is(In("sizeId", {2, 3}))>>,
        {"scaling_list_dc_coef_minus8"}),
    Row(present \o <<Is(On("scaling_list_pred_mode_flag"))>>, {"scaling_list_delta_coef"}) >>

\* 7.3.7, for the set with index 0 and for one with a set before it
StRpsRows(present, first, inSlice) ==
    LET predicted == Is(On("inter_ref_pic_set_prediction_flag"))
        sent == IF first THEN <<>> ELSE <<Is(Off("inter_ref_pic_set_prediction_flag"))>>
    IN  (IF first THEN <<>> ELSE
         << Row(present, {"inter_ref_pic_set_prediction_flag"}),
            Row(present \o <<predicted>>,
                {"delta_rps_sign", "abs_delta_rps_minus1", "used_by_curr_pic_flag"}
                \cup (IF inSlice THEN {"delta_idx_minus1"} ELSE {})),
            Row(present \o <<predicted, Is(Off("used_by_curr_pic_flag"))>>,
                {"use_delta_flag"}) >>)
        \o << Row(present \o sent, {"num_negative_pics", "num_positive_pics"}),
              Row(present \o sent \o <<Is(On("num_negative_pics"))>>,
                  {"delta_poc_s0_minus1", "used_by_curr_pic_s0_flag"}),
              Row(present \o sent \o <<Is(On("num_positive_pics"))>>,
                  {"delta_poc_s1_minus1", "used_by_curr_pic_s1_flag"}) >>

\* The extension flags are those of 04/2015.
SpsRows ==
    PtlRows("sps_max_sub_layers_minus1")
    \o << Row(<<Is(In("chroma_format_idc", {3}))>>, {"separate_colour_plane_flag"}),
          Row(<<Is(On("conformance_window_flag"))>>,
              {"conf_win_left_offset", "conf_win_right_offset",
               "conf_win_top_offset", "conf_win_bottom_offset"}),
          Row(<<Is(On("scaling_list_enabled_flag"))>>, {"sps_scaling_list_data_present_flag"}) >>
    \o ScalingListRows(<<Is(On("sps_scaling_list_data_present_flag"))>>)
    \o << Row(<<Is(On("pcm_enabled_flag"))>>,
              {"pcm_sample_bit_depth_luma_minus1", "pcm_sample_bit_depth_chroma_minus1",
               "log2_min_pcm_luma_coding_block_size_minus3",
               "log2_diff_max_min_pcm_luma_coding_block_size",
               "pcm_loop_filter_disabled_flag"}) >>
    \o StRpsRows(<<Is(On("num_short_term_ref_pic_sets"))>>, TRUE, FALSE)
    \o StRpsRows(<<Is(In("num_short_term_ref_pic_sets", {2}))>>, FALSE, FALSE)
    \o << Row(<<Is(On("long_term_ref_pics_present_flag"))>>, {"num_long_term_ref_pics_sps"}),
          Row(<<Is(On("num_long_term_ref_pics_sps"))>>,
              {"lt_ref_pic_poc_lsb_sps", "used_by_curr_pic_lt_sps_flag"}) >>
    \o VuiRows
    \o << Row(<<Is(On("sps_extension_present_flag"))>>,
              {"sps_range_extension_flag", "sps_multilayer_extension_flag",
               "sps_extension_6bits"}),
          Row(<<Is(On("sps_range_extension_flag"))>>, DOMAIN SpsRangeExtensionElements),
          Row(<<Is(On("sps_multilayer_extension_flag"))>>, DOMAIN SpsMultilayerElements),
          Row(<<Is(On("sps_extension_6bits"))>>, {"sps_extension_data_flag"}) >>

---------------------------------------------------------------------------
\* 7.3.2.3: the picture parameter set.

\* Annex F: its multilayer extension, up to the colour mapping table, of which
\* the decoder has no elements.
PpsMultilayerRows ==
    LET Sent(e, ids) == Row(<<Is(On(e))>>, ids)
    IN  << Sent("pps_multilayer_extension_flag",
                {"poc_reset_info_present_flag", "pps_infer_scaling_list_flag",
                 "num_ref_loc_offsets", "colour_mapping_enabled_flag"}),
           Sent("pps_infer_scaling_list_flag", {"pps_scaling_list_ref_layer_id"}),
           Sent("num_ref_loc_offsets",
                {"ref_loc_offset_layer_id", "scaled_ref_layer_offset_present_flag",
                 "ref_region_offset_present_flag", "resample_phase_set_present_flag"}),
           Sent("scaled_ref_layer_offset_present_flag",
                {"scaled_ref_layer_left_offset", "scaled_ref_layer_top_offset",
                 "scaled_ref_layer_right_offset", "scaled_ref_layer_bottom_offset"}),
           Sent("ref_region_offset_present_flag",
                {"ref_region_left_offset", "ref_region_top_offset",
                 "ref_region_right_offset", "ref_region_bottom_offset"}),
           Sent("resample_phase_set_present_flag",
                {"phase_hor_luma", "phase_ver_luma",
                 "phase_hor_chroma_plus8", "phase_ver_chroma_plus8"}) >>

PpsRows == <<
    Row(<<Is(On("cu_qp_delta_enabled_flag"))>>, {"diff_cu_qp_delta_depth"}),
    Row(<<Is(On("tiles_enabled_flag"))>>,
        {"num_tile_columns_minus1", "num_tile_rows_minus1", "uniform_spacing_flag",
         "loop_filter_across_tiles_enabled_flag"}),
    Row(<<Is(Off("uniform_spacing_flag")), Is(On("num_tile_columns_minus1"))>>,
        {"column_width_minus1"}),
    Row(<<Is(Off("uniform_spacing_flag")), Is(On("num_tile_rows_minus1"))>>,
        {"row_height_minus1"}),
    Row(<<Is(On("deblocking_filter_control_present_flag"))>>,
        {"deblocking_filter_override_enabled_flag", "pps_deblocking_filter_disabled_flag"}),
    Row(<<Is(On("deblocking_filter_control_present_flag")),
          Is(Off("pps_deblocking_filter_disabled_flag"))>>,
        {"pps_beta_offset_div2", "pps_tc_offset_div2"}) >>
    \o ScalingListRows(<<Is(On("pps_scaling_list_data_present_flag"))>>)
    \o << Row(<<Is(On("pps_extension_present_flag"))>>,
              {"pps_range_extension_flag", "pps_multilayer_extension_flag",
               "pps_3d_extension_flag", "pps_scc_extension_flag", "pps_extension_4bits"}),
          Row(<<Is(On("pps_range_extension_flag"))>>,
              {"cross_component_prediction_enabled_flag", "chroma_qp_offset_list_enabled_flag",
               "log2_sao_offset_scale_luma", "log2_sao_offset_scale_chroma"}),
          Row(<<Is(On("pps_range_extension_flag")), Is(On("transform_skip_enabled_flag"))>>,
              {"log2_max_transform_skip_block_size_minus2"}),
          Row(<<Is(On("chroma_qp_offset_list_enabled_flag"))>>,
              {"diff_cu_chroma_qp_offset_depth", "chroma_qp_offset_list_len_minus1",
               "cb_qp_offset_list", "cr_qp_offset_list"}) >>
    \o PpsMultilayerRows
    \o << Row(<<Is(On("pps_extension_4bits"))>>, {"pps_extension_data_flag"}) >>

---------------------------------------------------------------------------
\* 7.3.6: the slice segment header.

\* 7.3.6.3, for one list
WeightRows(used, luma, chroma, weight, offset, chroma_weight, chroma_offset) == <<
    Row(used, {luma}),
    Row(used \o <<Is(HasChroma)>>, {chroma}),
    Row(used \o <<Is(On(luma))>>, {weight, offset}),
    Row(used \o <<Is(HasChroma), Is(On(chroma))>>, {chroma_weight, chroma_offset}) >>

InterRows(independent) ==
    LET inter == Append(independent, Is(In("slice_type", Inter)))
        bi == Append(independent, Is(In("slice_type", {B})))
        lists == <<Is(On("lists_modification_present_flag")),
                   Is(NotIn("NumPocTotalCurr", {0, 1}))>>
        weighted == << <<On("weighted_pred_flag"), NotIn("slice_type", {P})>>,
                       <<On("weighted_bipred_flag"), NotIn("slice_type", {B})>> >>
    IN  << Row(inter, {"num_ref_idx_active_override_flag", "five_minus_max_num_merge_cand"}),
           Row(Append(inter, Is(On("num_ref_idx_active_override_flag"))),
               {"num_ref_idx_l0_active_minus1"}),
           Row(Append(bi, Is(On("num_ref_idx_active_override_flag"))),
               {"num_ref_idx_l1_active_minus1"}),
           Row(inter \o lists, {"ref_pic_list_modification_flag_l0"}),
           Row(inter \o lists \o <<Is(On("ref_pic_list_modification_flag_l0"))>>,
               {"list_entry_l0"}),
           Row(bi \o lists, {"ref_pic_list_modification_flag_l1"}),
           Row(bi \o lists \o <<Is(On("ref_pic_list_modification_flag_l1"))>>,
               {"list_entry_l1"}),
           Row(bi, {"mvd_l1_zero_flag"}),
           Row(Append(inter, Is(On("cabac_init_present_flag"))), {"cabac_init_flag"}),
           Row(Append(bi, Is(On("slice_temporal_mvp_enable_flag"))),
               {"collocated_from_l0_flag"}),
           Row(inter \o << Is(On("slice_temporal_mvp_enable_flag")),
                           <<On("collocated_from_l0_flag"),
                             On("num_ref_idx_l1_active_minus1")>>,
                           <<Off("collocated_from_l0_flag"),
                             On("num_ref_idx_l0_active_minus1")>> >>,
               {"collocated_ref_idx"}),
           Row(inter \o weighted, {"luma_log2_weight_denom"}),
           Row(inter \o weighted \o <<Is(HasChroma)>>, {"delta_chroma_log2_weight_denom"}) >>
        \o WeightRows(inter \o weighted, "luma_weight_l0_flag", "chroma_weight_l0_flag",
                      "delta_luma_weight_l0", "luma_offset_l0",
                      "delta_chroma_weight_l0", "delta_chroma_offset_l0")
        \o WeightRows(bi \o weighted, "luma_weight_l1_flag", "chroma_weight_l1_flag",
                      "delta_luma_weight_l1", "luma_offset_l1",
                      "delta_chroma_weight_l1", "delta_chroma_offset_l1")

LongTermRows(sets) ==
    LET some == sets \o <<Is(On("long_term_ref_pics_present_flag"))>>
        any == <<On("num_long_term_sps"), On("num_long_term_pics")>>
    IN  << Row(some \o <<Is(On("num_long_term_ref_pics_sps"))>>, {"num_long_term_sps"}),
           Row(some, {"num_long_term_pics"}),
           Row(some \o << Is(On("num_long_term_sps")),
                          Is(In("num_long_term_ref_pics_sps", {2}))>>, {"lt_idx_sps"}),
           Row(some \o <<Is(On("num_long_term_pics"))>>,
               {"poc_lsb_lt", "used_by_curr_pic_lt_flag"}),
           Row(some \o <<any>>, {"delta_poc_msb_present_flag"}),
           Row(some \o <<any, Is(On("delta_poc_msb_present_flag"))>>,
               {"delta_poc_msb_cycle_lt"}) >>

SliceRows ==
    LET independent == <<Is(Off("dependent_slice_segment_flag"))>>
        When(t, ids) == Row(Append(independent, Is(t)), ids)
        sets == Append(independent, Is(Off("idr")))
        own == Append(sets, Is(Off("short_term_ref_pic_set_sps_flag")))
    IN  << Row(<<Is(On("irap"))>>, {"no_output_of_prior_pics_flag"}),
           Row(<<Is(Off("first_slice_segment_in_pic_flag")),
                 Is(On("dependent_slice_segments_enabled_flag"))>>,
               {"dependent_slice_segment_flag"}),
           Row(<<Is(Off("first_slice_segment_in_pic_flag"))>>, {"slice_segment_address"}),
           When(On("num_extra_slice_header_bits"), {"slice_reserved_flag"}),
           Row(independent, {"slice_type", "slice_qp_delta"}),
           When(On("output_flag_present_flag"), {"pic_output_flag"}),
           When(On("separate_colour_plane_flag"), {"colour_plane_id"}),
           Row(sets, {"slice_pic_order_cnt_lsb", "short_term_ref_pic_set_sps_flag"}) >>
        \o StRpsRows(Append(own, Is(Off("num_short_term_ref_pic_sets"))), TRUE, TRUE)
        \o StRpsRows(Append(own, Is(On("num_short_term_ref_pic_sets"))), FALSE, TRUE)
        \o << Row(sets \o <<Is(On("short_term_ref_pic_set_sps_flag")),
                            Is(In("num_short_term_ref_pic_sets", {2}))>>,
                  {"short_term_ref_pic_set_idx"}) >>
        \o LongTermRows(sets)
        \o << Row(sets \o <<Is(On("sps_temporal_mvp_enable_flag"))>>,
                  {"slice_temporal_mvp_enable_flag"}),
              When(On("sample_adaptive_offset_enabled_flag"), {"slice_sao_luma_flag"}),
              Row(independent \o <<Is(On("sample_adaptive_offset_enabled_flag")),
                                   Is(HasChroma)>>, {"slice_sao_chroma_flag"}) >>
        \o InterRows(independent)
        \o << When(On("pps_slice_chroma_qp_offsets_present_flag"),
                   {"slice_cb_qp_offset", "slice_cr_qp_offset"}),
              When(On("chroma_qp_offset_list_enabled_flag"),
                   {"cu_chroma_qp_offset_enabled_flag"}),
              When(On("deblocking_filter_override_enabled_flag"),
                   {"deblocking_filter_override_flag"}),
              When(On("deblocking_filter_override_flag"),
                   {"slice_deblocking_filter_disabled_flag"}),
              Row(independent \o <<Is(On("deblocking_filter_override_flag")),
                                   Is(Off("slice_deblocking_filter_disabled_flag"))>>,
                  {"slice_beta_offset_div2", "slice_tc_offset_div2"}),
              Row(independent \o << Is(On("pps_loop_filter_across_slices_enabled_flag")),
                                    <<On("slice_sao_luma_flag"), On("slice_sao_chroma_flag"),
                                      Off("slice_deblocking_filter_disabled_flag")>> >>,
                  {"slice_loop_filter_across_slices_enabled_flag"}),
              Row(<< <<On("tiles_enabled_flag"), On("entropy_coding_sync_enabled_flag")>> >>,
                  {"num_entry_point_offsets"}),
              Row(<<Is(On("num_entry_point_offsets"))>>,
                  {"offset_len_minus1", "entry_point_offset_minus1"}),
              Row(<<Is(On("slice_segment_header_extension_present_flag"))>>,
                  {"slice_segment_header_extension_length"}),
              Row(<<Is(On("slice_segment_header_extension_length"))>>,
                  {"slice_segment_header_extension_data_byte"}) >>
---------------------------------------------------------------------------
\* 7.3.8: the coding tree unit.

\* 7.3.8.3
SaoRows ==
    LET sao == << <<On("slice_sao_luma_flag"), On("slice_sao_chroma_flag")>> >>
        own == sao \o <<Is(Off("sao_merge_left_flag")), Is(Off("sao_merge_up_flag"))>>
        Plane(on, type, eo_class) ==
            << Row(own \o on, {type}),
               Row(own \o on \o <<Is(On(type))>>, {"sao_offset_abs"}),
               Row(own \o on \o <<Is(In(type, {BandOffset})), Is(On("sao_offset_abs"))>>,
                   {"sao_offset_sign"}),
               Row(own \o on \o <<Is(In(type, {BandOffset}))>>, {"sao_band_position"}),
               Row(own \o on \o <<Is(In(type, {EdgeOffset}))>>, {eo_class}) >>
    IN  << Row(sao \o <<Is(On("left_available"))>>, {"sao_merge_left_flag"}),
           Row(sao \o <<Is(On("up_available")), Is(Off("sao_merge_left_flag"))>>,
               {"sao_merge_up_flag"}) >>
        \o Plane(<<Is(On("slice_sao_luma_flag"))>>, "sao_type_idx_luma", "sao_eo_class_luma")
        \o Plane(<<Is(On("slice_sao_chroma_flag"))>>, "sao_type_idx_chroma",
                 "sao_eo_class_chroma")

\* 7.3.8.6 and 7.3.8.9, where `unit` says that there is a prediction unit
PuRows(unit) ==
    LET motion == Append(unit, Is(Off("merge_flag")))
        list0 == Append(motion, Is(NotIn("inter_pred_idc", {PredL1})))
        list1 == Append(motion, Is(NotIn("inter_pred_idc", {PredL0})))
        Mvd(coded) ==
            << Row(coded, {"abs_mvd_greater0_flag"}),
               Row(Append(coded, Is(On("abs_mvd_greater0_flag"))),
                   {"abs_mvd_greater1_flag", "mvd_sign_flag"}),
               Row(coded \o <<Is(On("abs_mvd_greater0_flag")), Is(On("abs_mvd_greater1_flag"))>>,
                   {"abs_mvd_minus2"}) >>
    IN  << Row(Append(unit, Is(Off("cu_skip_flag"))), {"merge_flag"}),
           Infer(<<Is(On("cu_skip_flag"))>>, "merge_flag", 1),
           Row(unit \o <<Is(On("merge_flag")), Is(NotIn("five_minus_max_num_merge_cand", {4}))>>,
               {"merge_idx"}),
           Row(Append(motion, Is(In("slice_type", {B}))), {"inter_pred_idc"}),
           Row(Append(list0, Is(On("num_ref_idx_l0_active_minus1"))), {"ref_idx_l0"}) >>
        \o Mvd(list0)
        \o << Row(list0, {"mvp_l0_flag"}),
              Row(Append(list1, Is(On("num_ref_idx_l1_active_minus1"))), {"ref_idx_l1"}) >>
        \o Mvd(Append(list1, <<Off("mvd_l1_zero_flag"), NotIn("inter_pred_idc", {PredBi})>>))
        \o << Row(list1, {"mvp_l1_flag"}) >>

\* 7.3.8.5, down to the prediction of the unit
CuModeRows ==
    LET coded == Is(Off("cu_skip_flag"))
        intra == <<coded, Is(In("CuPredMode", {ModeIntra}))>>
        modes == Append(intra, Is(Off("pcm_flag")))
        pcm == Append(intra, Is(On("pcm_flag")))
    IN  << Row(<<Is(On("transquant_bypass_enable_flag"))>>, {"cu_transquant_bypass_flag"}),
           Row(<<Is(NotIn("slice_type", {I}))>>, {"cu_skip_flag"}),
           Row(<<Is(NotIn("slice_type", {I})), coded>>, {"pred_mode_flag"}),
           Infer(<<>>, "CuPredMode", ModeInter),
           Infer(<<Is(On("cu_skip_flag"))>>, "CuPredMode", ModeSkip),
           Infer(<<coded, <<On("pred_mode_flag"), In("slice_type", {I})>> >>,
                 "CuPredMode", ModeIntra),
           Row(<<coded, <<NotIn("CuPredMode", {ModeIntra}), On("at_min_size")>> >>,
               {"part_mode"}),
           Row(intra \o <<Is(On("pcm_enabled_flag")), Is(Off("part_mode")), Is(On("pcm_size"))>>,
               {"pcm_flag"}),
           Row(Append(pcm, Is(On("unaligned"))), {"pcm_alignment_zero_bit"}),
           Row(pcm, {"pcm_sample_luma"}),
           Row(Append(pcm, Is(HasChroma)), {"pcm_sample_chroma"}),
           Row(modes, {"prev_intra_luma_pred_flag"}),
           Row(Append(modes, Is(On("prev_intra_luma_pred_flag"))), {"mpm_idx"}),
           Row(Append(modes, Is(Off("prev_intra_luma_pred_flag"))),
               {"rem_intra_luma_pred_mode"}),
           Row(Append(modes, Is(HasChroma)), {"intra_chroma_pred_mode"}) >>
        \o PuRows(<<Is(NotIn("CuPredMode", {ModeIntra}))>>)

\* 7.3.8.8: one node, with MaxTrafoDepth written out for the depths 0 and 1
TransformTreeRows(tree) ==
    LET Depth(mode, tests) == Append(tests, Is(In("CuPredMode", {mode})))
        may == tree \o <<Is(On("within_max_transform")), Is(On("above_min_transform")),
                         <<On("trafoDepth"), Off("part_mode"), In("CuPredMode", {ModeInter})>> >>
        split == "split_transform_flag"
        chroma == tree \o << <<On("above_4x4"), In("chroma_format_idc", {3})>>, Is(HasChroma) >>
    IN  << Infer(tree, split, 0),
           Infer(Append(tree, Is(Off("within_max_transform"))), split, 1),
           Infer(tree \o <<Is(Off("trafoDepth")), Is(On("part_mode")),
                           Is(In("CuPredMode", {ModeIntra}))>>, split, 1),
           Infer(tree \o <<Is(Off("trafoDepth")), Is(On("part_mode")),
                           Is(In("CuPredMode", {ModeInter})),
                           Is(Off("max_transform_hierarchy_depth_inter"))>>, split, 1),
           Row(may \o Depth(ModeInter, << Is(On("max_transform_hierarchy_depth_inter")),
                   <<Off("trafoDepth"), In("max_transform_hierarchy_depth_inter", {2})>> >>),
               {split}),
           Row(may \o Depth(ModeIntra, << Is(On("max_transform_hierarchy_depth_intra")),
                   <<Off("trafoDepth"), In("max_transform_hierarchy_depth_intra", {2}),
                     On("part_mode")>> >>),
               {split}),
           Row(Append(chroma, <<Off("trafoDepth"), On("parentCbfCb")>>), {"cbf_cb"}),
           Row(Append(chroma, <<Off("trafoDepth"), On("parentCbfCr")>>), {"cbf_cr"}),
           Row(tree \o <<Is(Off(split)), <<In("CuPredMode", {ModeIntra}), On("trafoDepth"),
                                           On("cbf_cb"), On("cbf_cr")>> >>,
               {"cbf_luma"}) >>

\* 7.3.8.11
ResidualRows(unit) == <<
    Row(unit \o <<Is(On("transform_skip_enabled_flag")), Is(Off("cu_transquant_bypass_flag")),
                  Is(On("transform_skip_size"))>>, {"transform_skip_flag"}),
    Row(unit \o <<Is(In("CuPredMode", {ModeInter})), Is(On("explicit_rdpcm_enabled_flag")),
                  <<On("transform_skip_flag"), On("cu_transquant_bypass_flag")>> >>,
        {"explicit_rdpcm_flag"}),
    Row(Append(unit, Is(On("explicit_rdpcm_flag"))), {"explicit_rdpcm_dir_flag"}),
    Row(unit, {"last_sig_coeff_x_prefix", "last_sig_coeff_y_prefix", "sig_coeff_flag",
               "coeff_abs_level_greater1_flag", "coeff_sign_flag"}),
    Row(Append(unit, Is(On("last_sig_coeff_x_prefix"))), {"last_sig_coeff_x_suffix"}),
    Row(Append(unit, Is(On("last_sig_coeff_y_prefix"))), {"last_sig_coeff_y_suffix"}),
    Row(Append(unit, Is(On("several_sub_blocks"))), {"coded_sub_block_flag"}),
    Row(Append(unit, Is(On("coeff_abs_level_greater1_flag"))),
        {"coeff_abs_level_greater2_flag"}),
    Row(Append(unit, Is(On("escape"))), {"coeff_abs_level_remaining"}) >>

\* 7.3.8.10, 7.3.8.12 and 7.3.8.14
TransformUnitRows(tree) ==
    LET leaf == Append(tree, Is(Off("split_transform_flag")))
        unit == Append(leaf, <<On("cbf_luma"), On("cbf_cb"), On("cbf_cr")>>)
        offset == unit \o <<Is(On("cu_chroma_qp_offset_enabled_flag")),
                            <<On("cbf_cb"), On("cbf_cr")>>,
                            Is(Off("cu_transquant_bypass_flag")), Is(Off("isCuQpOffsetCoded"))>>
        cross == unit \o << <<On("above_4x4"), In("chroma_format_idc", {3})>>,
                            Is(On("cross_component_prediction_enabled_flag")),
                            Is(On("cbf_luma")),
                            <<In("CuPredMode", {ModeInter}), On("intra_chroma_pred_mode")>> >>
    IN  << Row(unit \o <<Is(On("cu_qp_delta_enabled_flag")), Is(Off("isCuQpDeltaCoded"))>>,
               {"cu_qp_delta_abs"}),
           Row(unit \o <<Is(On("cu_qp_delta_abs"))>>, {"cu_qp_delta_sign_flag"}),
           Row(offset, {"cu_chroma_qp_offset_flag"}),
           Row(offset \o <<Is(On("cu_chroma_qp_offset_flag")),
                           Is(On("chroma_qp_offset_list_len_minus1"))>>,
               {"cu_chroma_qp_offset_idx"}),
           Row(cross, {"log2_res_scale_abs_plus1"}),
           Row(Append(cross, Is(On("log2_res_scale_abs_plus1"))), {"res_scale_sign_flag"}) >>
        \o ResidualRows(unit)

\* 7.3.8.1, 7.3.8.4, 7.3.8.5
SegmentDataRows ==
    LET coded == <<Is(Off("cu_skip_flag")), Is(Off("pcm_flag"))>>
        tree == coded \o <<Is(On("rqt_root_cbf"))>>
    IN  SaoRows
        \o << Row(<<Is(On("block_fits")), Is(On("above_min_size"))>>, {"split_cu_flag"}) >>
        \o CuModeRows
        \o << Row(coded \o <<Is(NotIn("CuPredMode", {ModeIntra})),
                             <<On("part_mode"), Off("merge_flag")>> >>, {"rqt_root_cbf"}) >>
        \o TransformTreeRows(tree) \o TransformUnitRows(tree)
        \o << Row(<<Is(Off("end_of_slice_segment_flag")), Is(On("substream_end")),
                    <<On("tiles_enabled_flag"), On("entropy_coding_sync_enabled_flag")>> >>,
                  {"end_of_sub_stream_one_bit"}) >>

---------------------------------------------------------------------------
\* 7.4: what decoding uses of an element that is not sent.

InferredSps ==
    [separate_colour_plane_flag |-> U1(0), conf_win_left_offset |-> Ue(0),
     conf_win_right_offset |-> Ue(0), conf_win_top_offset |-> Ue(0),
     conf_win_bottom_offset |-> Ue(0), pcm_loop_filter_disabled_flag |-> U1(0),
     sps_range_extension_flag |-> U1(0), sps_multilayer_extension_flag |-> U1(0),
     sps_extension_6bits |-> Un(0), inter_ref_pic_set_prediction_flag |-> U1(0),
     use_delta_flag |-> U1(1), fixed_pic_rate_within_cvs_flag |-> U1(1),
     low_delay_hrd_flag |-> U1(0), cpb_cnt_minus1 |-> Ue(0)]

InferredPps ==
    [num_tile_columns_minus1 |-> Ue(0), num_tile_rows_minus1 |-> Ue(0),
     uniform_spacing_flag |-> U1(1), loop_filter_across_tiles_enabled_flag |-> U1(1),
     diff_cu_qp_delta_depth |-> Ue(0), deblocking_filter_override_enabled_flag |-> U1(0),
     pps_deblocking_filter_disabled_flag |-> U1(0), pps_beta_offset_div2 |-> Se(0),
     pps_tc_offset_div2 |-> Se(0), pps_range_extension_flag |-> U1(0),
     pps_extension_4bits |-> Un(0)]

InferredSlice ==
    [e \in {"dependent_slice_segment_flag", "slice_segment_address",
            "slice_pic_order_cnt_lsb", "short_term_ref_pic_set_idx", "num_long_term_sps",
            "num_long_term_pics", "lt_idx_sps", "delta_poc_msb_cycle_lt",
            "slice_temporal_mvp_enable_flag", "slice_sao_luma_flag",
            "slice_sao_chroma_flag", "cabac_init_flag", "collocated_ref_idx",
            "slice_cb_qp_offset", "slice_cr_qp_offset", "cu_chroma_qp_offset_enabled_flag",
            "deblocking_filter_override_flag", "num_entry_point_offsets",
            "inter_ref_pic_set_prediction_flag", "luma_weight_l0_flag",
            "luma_weight_l1_flag", "delta_luma_weight_l0", "luma_offset_l0",
            "delta_luma_weight_l1", "luma_offset_l1",
            "ref_pic_list_modification_flag_l0", "ref_pic_list_modification_flag_l1"}
        |-> Ue(0)]
    @@ [pic_output_flag |-> U1(1), collocated_from_l0_flag |-> U1(1), use_delta_flag |-> U1(1),
        num_ref_idx_l0_active_minus1 |-> From("ue", "num_ref_idx_l0_default_active_minus1"),
        num_ref_idx_l1_active_minus1 |-> From("ue", "num_ref_idx_l1_default_active_minus1"),
        slice_deblocking_filter_disabled_flag |->
            From("u1", "pps_deblocking_filter_disabled_flag"),
        slice_beta_offset_div2 |-> From("se", "pps_beta_offset_div2"),
        slice_tc_offset_div2 |-> From("se", "pps_tc_offset_div2"),
        slice_loop_filter_across_slices_enabled_flag |->
            From("u1", "pps_loop_filter_across_slices_enabled_flag")]

InferredBlock ==
    [e \in {"cu_transquant_bypass_flag", "cu_skip_flag", "part_mode", "pcm_flag",
            "merge_flag", "merge_idx", "inter_pred_idc", "ref_idx_l0", "ref_idx_l1",
            "cu_qp_delta_abs", "cu_qp_delta_sign_flag", "cu_chroma_qp_offset_flag",
            "transform_skip_flag", "explicit_rdpcm_flag", "sao_merge_left_flag",
            "sao_merge_up_flag", "sao_type_idx_luma", "sao_type_idx_chroma",
            "sao_offset_abs", "sao_offset_sign", "log2_res_scale_abs_plus1"}
        |-> Ae(0)]
    @@ [rqt_root_cbf |-> Ae(1), cbf_luma |-> Ae(1),
        cbf_cb |-> From("ae", "parentCbfCb"), cbf_cr |-> From("ae", "parentCbfCr")]
==============================================================================

---------------------------- MODULE SliceElements -----------------------------
(***************************************************************************)
(* The elements of a slice segment header and of the structures inside it: *)
(* their descriptors and the values their constructors give them.          *)
(***************************************************************************)
EXTENDS SyntaxStructure

\* Which segment this is; prior pictures are discarded unless the flag says so.
SliceIdentity ==
  [ first_slice_segment_in_pic_flag |-> U1(0),
    no_output_of_prior_pics_flag |-> U1(1),
    slice_pic_parameter_set_id |-> Ue(0),
    dependent_slice_segment_flag |-> U1(0), slice_segment_address |-> Uv(0),
    slice_reserved_flag |-> U1(0), slice_type |-> Ue(0) ]

\* Output, order count and the short-term set of the picture.
SliceReferenceSets ==
  [ pic_output_flag |-> U1(1), colour_plane_id |-> Un(0),
    slice_pic_order_cnt_lsb |-> Uv(0),
    short_term_ref_pic_set_sps_flag |-> U1(0),
    short_term_ref_pic_set_idx |-> Uv(0), num_long_term_sps |-> Ue(0),
    num_long_term_pics |-> Ue(0) ]

(***************************************************************************)
(* Mutant of SliceLongTermPictures: nobody fills the list of MSB cycles.   *)
(***************************************************************************)
SliceLongTermPicturesUnfilled ==
  [ lt_idx_sps |-> Uv(0), poc_lsb_lt |-> Uv(0),
    used_by_curr_pic_lt_flag |-> U1(0), delta_poc_msb_present_flag |-> U1(0),
    delta_poc_msb_cycle_lt |-> Bare("ue") ]

\* The long-term pictures; their lists start with zeros.
SliceLongTermPictures ==
  [ lt_idx_sps |-> Uv(0), poc_lsb_lt |-> Uv(0),
    used_by_curr_pic_lt_flag |-> U1(0), delta_poc_msb_present_flag |-> U1(0),
    delta_poc_msb_cycle_lt |-> Ue(0) ]

\* SAO and motion tools; the list sizes start as those of the PPS.
SliceInterTools ==
  [ slice_temporal_mvp_enable_flag |-> U1(0), slice_sao_luma_flag |-> U1(0),
    slice_sao_chroma_flag |-> U1(0),
    num_ref_idx_active_override_flag |-> U1(0),
    num_ref_idx_l0_active_minus1 |-> From("ue", "num_ref_idx_l0_default_active_minus1"),
    num_ref_idx_l1_active_minus1 |-> From("ue", "num_ref_idx_l1_default_active_minus1"),
    mvd_l1_zero_flag |-> U1(0), cabac_init_flag |-> U1(0) ]

\* The collocated picture, merge candidates and QP offsets.
SliceQuantization ==
  [ collocated_from_l0_flag |-> U1(1), collocated_ref_idx |-> Ue(0),
    five_minus_max_num_merge_cand |-> Ue(0), slice_qp_delta |-> Se(0),
    slice_cb_qp_offset |-> Se(0), slice_cr_qp_offset |-> Se(0),
    cu_chroma_qp_offset_enabled_flag |-> U1(0),
    deblocking_filter_override_flag |-> U1(0) ]

(***************************************************************************)
(* Mutant of SliceFiltersAndEntries: the deblocking filter starts enabled, *)
(* whatever the PPS says.                                                  *)
(***************************************************************************)
SliceFiltersAndEntriesEnabled ==
  [ slice_deblocking_filter_disabled_flag |-> U1(0),
    slice_beta_offset_div2 |-> From("se", "pps_beta_offset_div2"),
    slice_tc_offset_div2 |-> From("se", "pps_tc_offset_div2"),
    slice_loop_filter_across_slices_enabled_flag |->
        From("u1", "pps_loop_filter_across_slices_enabled_flag"),
    num_entry_point_offsets |-> Ue(0), offset_len_minus1 |-> Ue(0),
    entry_point_offset_minus1 |-> Uv(0) ]

\* Filters (started from the PPS) and entry points.
SliceFiltersAndEntries ==
  [ slice_deblocking_filter_disabled_flag |-> From("u1", "pps_deblocking_filter_disabled_flag"),
    slice_beta_offset_div2 |-> From("se", "pps_beta_offset_div2"),
    slice_tc_offset_div2 |-> From("se", "pps_tc_offset_div2"),
    slice_loop_filter_across_slices_enabled_flag |->
        From("u1", "pps_loop_filter_across_slices_enabled_flag"),
    num_entry_point_offsets |-> Ue(0), offset_len_minus1 |-> Ue(0),
    entry_point_offset_minus1 |-> Uv(0) ]

\* The header extension and the values derived from the header.
SliceDerived ==
  [ slice_segment_header_extension_length |-> Ue(0),
    slice_segment_header_extension_data_byte |-> Un(0),
    MaxNumMergeCand |-> From("derived", "five_minus_max_num_merge_cand"),
    SliceAddrRs |-> From("derived", "slice_segment_address"),
    CurrRpsIdx |-> From("derived", "short_term_ref_pic_set_idx"),
    SliceQpY |-> From("derived", "slice_qp_delta"),
    CabacInitType |-> From("derived", "slice_type") ]

\* Denominators and the luma weights of list 0.
PwtLuma0 ==
  [ luma_log2_weight_denom |-> Ue(0), delta_chroma_log2_weight_denom |-> Se(0),
    ChromaLog2WeightDenom |-> From("derived", "delta_chroma_log2_weight_denom"),
    luma_weight_l0_flag |-> U1(0), chroma_weight_l0_flag |-> U1(0),
    delta_luma_weight_l0 |-> Se(0), luma_offset_l0 |-> Se(0) ]

\* Chroma weights of list 0, first elements of list 1.
PwtChroma0 ==
  [ delta_chroma_weight_l0 |-> Se(0), delta_chroma_offset_l0 |-> Se(0),
    luma_weight_l1_flag |-> U1(0), chroma_weight_l1_flag |-> U1(0),
    delta_luma_weight_l1 |-> Se(0) ]

\* The rest of list 1 and the derived luma weights.
PwtList1 ==
  [ luma_offset_l1 |-> Se(0), delta_chroma_weight_l1 |-> Se(0),
    delta_chroma_offset_l1 |-> Se(0), LumaWeightLx |-> Derived(0) ]

\* The derived chroma weights and offsets, zero until set.
PwtDerived ==
  [ ChromaWeightLx |-> Derived(0), ChromaOffsetLx |-> Derived(0) ]

\* The explicit order of the reference lists; an entry not sent is 0.
RplmElements ==
  [ ref_pic_list_modification_flag_l0 |-> U1(0), list_entry_l0 |-> Uv(0),
    ref_pic_list_modification_flag_l1 |-> U1(0), list_entry_l1 |-> Uv(0) ]

SliceSegmentHeaderElements ==
    SliceIdentity @@ SliceReferenceSets @@ SliceLongTermPictures @@ SliceInterTools
    @@ SliceQuantization @@ SliceFiltersAndEntries @@ SliceDerived
PwtElements == PwtLuma0 @@ PwtChroma0 @@ PwtList1 @@ PwtDerived
===============================================================================

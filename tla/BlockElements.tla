---------------------------- MODULE BlockElements -----------------------------
(***************************************************************************)
(* The elements of the coding tree: their descriptors and the values their *)
(* constructors give them.                                                 *)
(***************************************************************************)
EXTENDS SyntaxStructure

\* Skipping and prediction mode; the mode itself is unset until set.
CuModes ==
  [ cu_transquant_bypass_flag |-> Ae(0), cu_skip_flag |-> Ae(0),
    pred_mode_flag |-> Ae(0), CuPredMode |-> Bare("derived") ]

\* The partition of the block, 2Nx2N (0) until set.
CuPartition ==
  [ part_mode |-> Ae(0), PartMode |-> Derived(0) ]

\* PCM and the prediction of the luma intra mode, kept per part.
CuPcmAndLumaMode ==
  [ pcm_flag |-> Ae(0), pcm_alignment_zero_bit |-> Un(0),
    prev_intra_luma_pred_flag |-> Ae(0), mpm_idx |-> Ae(0) ]

\* The intra modes sent for luma (rem_) and chroma, kept per part.
CuIntraModes ==
  [ rem_intra_luma_pred_mode |-> Ae(0), intra_chroma_pred_mode |-> Ae(0),
    rqt_root_cbf |-> Ae(1) ]

\* What is derived for the coding unit once it is parsed.
CuDerived ==
  [ IntraSplitFlag |-> Derived(0),
    MaxTrafoDepth |-> From("derived", "CuPredMode"),
    IntraPredModeY |-> From("derived", "prev_intra_luma_pred_flag"),
    IntraPredModeC |-> From("derived", "intra_chroma_pred_mode"),
    QpY |-> Derived(0), QpC |-> Derived(0) ]

\* The motion of the block; merge_flag is constructed from the mode (set on a skip).
PuMotion ==
  [ MvLX |-> Derived(0), MvCLX |-> Derived(0), PredFlagLX |-> Derived(0),
    RefIdxLX |-> Derived(0), merge_idx |-> Ae(0),
    merge_flag |-> From("ae", "CuPredMode") ]

\* Direction and reference indices.
PuReferences ==
  [ inter_pred_idc |-> Ae(0), ref_idx_l0 |-> Ae(0), ref_idx_l1 |-> Ae(0) ]

\* Motion vector predictors and the difference of the motion vectors.
PuPredictors ==
  [ mvp_l0_flag |-> Ae(0), mvp_l1_flag |-> Ae(0), MvdLX |-> Derived(0) ]

\* The magnitude of one motion vector difference; the greater-0 flags are filled by nothing.
MvdMagnitude ==
  [ abs_mvd_greater0_flag |-> Bare("ae"), abs_mvd_greater1_flag |-> Ae(0),
    abs_mvd_minus2 |-> Ae(-1) ]

\* Its sign, and the difference itself.
MvdValue ==
  [ mvd_sign_flag |-> Ae(0),
    lMvd |-> From("derived", "abs_mvd_greater0_flag") ]

\* Merging with a neighbour and the type of each plane.
SaoMergeAndType ==
  [ sao_merge_left_flag |-> Ae(0), sao_merge_up_flag |-> Ae(0),
    sao_type_idx_luma |-> Ae(0), sao_type_idx_chroma |-> Ae(0) ]

\* The offsets, bands and edge classes sent.
SaoOffsets ==
  [ sao_offset_abs |-> Ae(0), sao_offset_sign |-> Ae(0),
    sao_band_position |-> Ae(0), sao_eo_class_luma |-> Ae(0),
    sao_eo_class_chroma |-> Ae(0) ]

\* The parameters of the block, sent or merged; the offsets are filled by nothing.
SaoParameters ==
  [ SaoTypeIdx |-> Derived(0), SaoOffsetVal |-> Bare("derived"),
    SaoEoClass |-> Derived(0) ]

\* Splitting and coded block flags.
TransformTreeElements ==
  [ interSplitFlag |-> Derived(0), split_transform_flag |-> Ae(0),
    cbf_cb |-> Ae(0), cbf_cr |-> Ae(0), cbf_luma |-> Ae(0) ]

\* The QP difference of a quantization group.
TransformQp ==
  [ cu_qp_delta_abs |-> Ae(0), cu_qp_delta_sign_flag |-> Ae(0) ]

\* The chroma QP offset of a quantization group.
TransformChromaQp ==
  [ cu_chroma_qp_offset_flag |-> Ae(0), cu_chroma_qp_offset_idx |-> Ae(0) ]

\* The scale of the prediction of a chroma residual from luma.
CrossCompElements ==
  [ log2_res_scale_abs_plus1 |-> Ae(0), res_scale_sign_flag |-> Ae(0) ]

\* The plane, the scan and the bypass modes of a transform block.
ResidualModes ==
  [ ResidualCodingCIdx |-> Derived(0), scanIdx |-> Derived(0),
    transform_skip_flag |-> Ae(0), explicit_rdpcm_flag |-> Ae(0) ]

\* The position of the last coefficient: prefixes.
ResidualLastPrefix ==
  [ explicit_rdpcm_dir_flag |-> Ae(0), last_sig_coeff_x_prefix |-> Ae(0),
    last_sig_coeff_y_prefix |-> Ae(0), last_sig_coeff_x_suffix |-> Ae(0) ]

\* The position of the last coefficient: suffixes and the position itself.
ResidualLastSuffix ==
  [ last_sig_coeff_y_suffix |-> Ae(0),
    LastSignificantCoeffX |-> From("derived", "last_sig_coeff_x_prefix"),
    LastSignificantCoeffY |-> From("derived", "last_sig_coeff_y_prefix"),
    coded_sub_block_flag |-> Ae(0) ]

\* The flags of the coefficients of a sub-block.
ResidualLevels ==
  [ sig_coeff_flag |-> Ae(0), coeff_abs_level_greater1_flag |-> Ae(0),
    coeff_abs_level_greater2_flag |-> Ae(0) ]

\* Signs.
ResidualSigns ==
  [ coeff_sign_flag |-> Ae(0) ]

\* What is left of a level above its flags.
ResidualRemaining ==
  [ coeff_abs_level_remaining |-> Ae(0) ]

\* Samples sent as such.
PcmElements ==
  [ pcm_sample_luma |-> Uv(0), pcm_sample_chroma |-> Uv(0) ]

\* Splitting a coding block; inferred from its size.
QuadTreeElements ==
  [ split_cu_flag |-> Ae(0) ]

\* Ends of segments and of their substreams.
SegmentDataElements ==
  [ end_of_slice_segment_flag |-> Ae(0), end_of_sub_stream_one_bit |-> Ae(0) ]

CodingUnitElements ==
    CuModes @@ CuPartition @@ CuPcmAndLumaMode @@ CuIntraModes @@ CuDerived
PredictionUnitElements == PuMotion @@ PuReferences @@ PuPredictors
MvdElements == MvdMagnitude @@ MvdValue
SaoElements == SaoMergeAndType @@ SaoOffsets @@ SaoParameters
TransformUnitElements == TransformQp @@ TransformChromaQp
ResidualElements ==
    ResidualModes @@ ResidualLastPrefix @@ ResidualLastSuffix
    @@ ResidualLevels @@ ResidualSigns @@ ResidualRemaining
BlockElements ==
    CodingUnitElements @@ PredictionUnitElements @@ MvdElements @@ SaoElements
    @@ TransformTreeElements @@ TransformUnitElements @@ CrossCompElements
    @@ ResidualElements @@ PcmElements @@ QuadTreeElements @@ SegmentDataElements
===============================================================================

----------------------------- MODULE MCHeaders -----------------------------
(***************************************************************************)
(* Headers with slices of every type.                                      *)
(***************************************************************************)
EXTENDS Headers

MCSliceTypes == {B, P, I}

\* The PPS is never sent with its multilayer extension.
NoMultilayer == {"pps_multilayer_extension_flag"}
=============================================================================

------------------------------ MODULE MCStream ------------------------------
(***************************************************************************)
(* Two NAL units, with the bytes that start codes and emulation prevention *)
(* are made of.                                                            *)
(***************************************************************************)
EXTENDS ByteStream

MCBytes == {0, 1, 3}
MCZeroWords == {0, 2}
=============================================================================

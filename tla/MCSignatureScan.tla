---------------------------- MODULE MCSignatureScan ----------------------------
(****************************************************************************)
(* Every memory of five bytes over two values, every pair of signatures of up   *)
(* to three bytes.                                                              *)
(****************************************************************************)
EXTENDS SignatureScan
================================================================================

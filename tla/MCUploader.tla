------------------------------ MODULE MCUploader ------------------------------
(***************************************************************************)
(* Uploader for TLC: three requests.                                       *)
(***************************************************************************)
EXTENDS Uploader

CONSTANTS r1, r2, r3
=============================================================================

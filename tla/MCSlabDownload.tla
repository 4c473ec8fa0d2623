---------------------------- MODULE MCSlabDownload ----------------------------
(***************************************************************************)
(* SlabDownload for TLC: two sectors of three are needed, one of which has *)
(* a copy; or both of two that have copies.                                *)
(***************************************************************************)
EXTENDS SlabDownload

CONSTANTS s1, s2, s3, a1, a2, b1, c1

MCOn == [s \in Sectors |-> CASE s = s1 -> {a1, a2} [] s = s2 -> {b1} [] s = s3 -> {c1}]
MCOnCopies == [s \in Sectors |-> IF s = s1 THEN {a1, a2} ELSE {b1, c1}]
=============================================================================

----------------------------- MODULE MCSlabStore ------------------------------
(***************************************************************************)
(* SlabStore for TLC: buffers of three bytes.  The first upload fills a    *)
(* buffer alone, or the rest of that of the second and the beginning of    *)
(* another; the second fits in a buffer or overflows.                      *)
(***************************************************************************)
EXTENDS SlabStore

CONSTANTS u1, u2, k1, k2, j1

MCLength == [u \in Uploads |-> IF u = u1 THEN 3 ELSE 2]
MCKey == [u \in Uploads |-> IF u = u2 THEN k2 ELSE k1]
MCPart == [u \in Uploads |-> IF u = u2 THEN 1 ELSE 0]
=============================================================================

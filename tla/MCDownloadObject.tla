--------------------------- MODULE MCDownloadObject ---------------------------
(***************************************************************************)
(* DownloadObject for TLC: every range of objects of up to three slabs,    *)
(* with a limit of two bytes: full slabs only, with a partial slab at the  *)
(* end or twice, with a scarce slab, and with a slab above the limit.      *)
(***************************************************************************)
EXTENDS DownloadObject

full(n) == [length |-> n, kind |-> "full"]
partial(n) == [length |-> n, kind |-> "partial"]
scarce(n) == [length |-> n, kind |-> "scarce"]

MCObjects ==
  {<<full(1), full(1), full(1)>>, <<full(2), full(1), full(1)>>,
   <<full(1), full(1), partial(2)>>, <<full(2), partial(1), partial(1)>>,
   <<full(1), scarce(1), full(1)>>, <<full(1), full(3)>>}
=============================================================================

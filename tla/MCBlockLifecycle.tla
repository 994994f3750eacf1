--------------------------- MODULE MCBlockLifecycle ---------------------------
(* Four blocks: when one of the two in the middle fails, there are blocks  *)
(* before and behind it in the list.                                       *)
EXTENDS BlockLifecycle
=============================================================================

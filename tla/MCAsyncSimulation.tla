-------------------------- MODULE MCAsyncSimulation --------------------------
(* Results of two pieces and three triggers: one to be computed, one sent  *)
(* meanwhile, one that overwrites it.                                      *)
EXTENDS AsyncSimulation
=============================================================================

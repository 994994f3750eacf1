------------------------------ MODULE MCPipeline ------------------------------
(* Instance of Pipeline for TLC: batches of all sizes, and notifications of  *)
(* 1 and of 0, by which none is to be sent.                                  *)
EXTENDS Pipeline

AllBatches == 1 .. NumElements
AllSignals == {0, 1}
=============================================================================

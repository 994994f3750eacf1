------------------------------ MODULE MCLogSink ------------------------------
(* A ring buffer of two elements, enough for the counters to wrap, for     *)
(* writes that are dropped and for batches that fill the buffer.           *)
EXTENDS LogSink
=============================================================================

---------------------------- MODULE DroppingQueue ----------------------------
(***************************************************************************)
(* What a ring buffer between two simulations promises: a queue that never *)
(* refuses a batch.  When there is no room for the batch, as many of the   *)
(* oldest elements are discarded as the batch has, those of the batch      *)
(* itself included.  Elements are numbered in the order they are written.  *)
(***************************************************************************)
EXTENDS Integers, Sequences

CONSTANT Capacity

VARIABLES
  queue,     (* the elements that can be read, the oldest first           *)
  written    (* number of elements written so far                         *)

vars == <<queue, written>>

Init == queue = <<>> /\ written = 0

\* The batch behind what is stored already.
With(k) == [i \in 1 .. Len(queue) + k |->
              IF i <= Len(queue) THEN queue[i] ELSE written + i - Len(queue)]

Write ==
  \E k \in 1 .. Capacity :
    /\ written' = written + k
    /\ queue' = IF Len(queue) + k <= Capacity
                  THEN With(k)
                  ELSE [i \in 1 .. Len(queue) |-> With(k)[i + k]]

Read ==
  /\ queue # <<>>
  /\ queue' = [i \in 1 .. Len(queue) - 1 |-> queue[i + 1]]
  /\ UNCHANGED written

Next == Write \/ Read

Spec == Init /\ [][Next]_vars
=============================================================================

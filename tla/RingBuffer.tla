----------------------------- MODULE RingBuffer -----------------------------
(***************************************************************************)
(* The ring buffer of modules/pipelines/RingBuffer.cpp, a shared object    *)
(* that blocks of several simulations find by its name.  An insertion of a *)
(* whole batch and the reading of one element are critical sections of     *)
(* data_mutex, and a single step each.  Its marker, and the block that     *)
(* reads relative to it, are left out.                                     *)
(*                                                                         *)
(* Elements are numbered in the order they are written, and 0 stands for   *)
(* the initial contents of the memory.                                     *)
(***************************************************************************)
EXTENDS Integers, Sequences

CONSTANT NumElements

ASSUME CapacityAssumption == NumElements \in Nat \ {0}

VARIABLES
  data, ReadCounter, WriteCounter, ElementsPending,
  written     (* history: number of elements written                      *)

buffer == <<data, ReadCounter, WriteCounter, ElementsPending, written>>

Slot == 0 .. NumElements - 1

BufferInit ==
  /\ data = [s \in Slot |-> 0]
  /\ ReadCounter = 0 /\ WriteCounter = 0 /\ ElementsPending = 0
  /\ written = 0

Wrap(c) == IF c >= NumElements THEN c - NumElements ELSE c

\* How far slot s is behind WriteCounter.
Ahead(s) == IF s >= WriteCounter THEN s - WriteCounter ELSE s - WriteCounter + NumElements

\* Mutant: only as many elements are discarded as there is no room for.
DiscardMissing(k) ==
  IF NumElements - ElementsPending < k
    THEN /\ ReadCounter' = Wrap(ReadCounter + k - (NumElements - ElementsPending))
         /\ UNCHANGED ElementsPending
    ELSE UNCHANGED ReadCounter /\ ElementsPending' = ElementsPending + k

\* Without room for the batch its whole length is discarded, which may be more
\* than what is pending: elements_pending is below zero until the batch is
\* counted, and ReadCounter passes some of the new elements.
Discard(k) ==
  IF NumElements - ElementsPending < k
    THEN ReadCounter' = Wrap(ReadCounter + k) /\ UNCHANGED ElementsPending
    ELSE UNCHANGED ReadCounter /\ ElementsPending' = ElementsPending + k

\* insertElements: the blocks check that a batch is not larger than the buffer.
InsertElements(k) ==
  /\ Discard(k)
  /\ data' = [s \in Slot |-> IF Ahead(s) < k THEN written + Ahead(s) + 1 ELSE data[s]]
  /\ WriteCounter' = Wrap(WriteCounter + k)
  /\ written' = written + k

\* Mutant: the end of the buffer is one slot further.
NoElementBehind ==
  /\ ElementsPending > 0
  /\ ReadCounter' = IF ReadCounter > NumElements THEN 0 ELSE ReadCounter + 1
  /\ ElementsPending' = ElementsPending - 1
  /\ UNCHANGED <<data, WriteCounter, written>>

\* GetElementCopy, successful or not.
GetElementCopy ==
  /\ ElementsPending > 0
  /\ ReadCounter' = Wrap(ReadCounter + 1)
  /\ ElementsPending' = ElementsPending - 1
  /\ UNCHANGED <<data, WriteCounter, written>>

BufferEmpty == ElementsPending < 1

-----------------------------------------------------------------------------
\* The elements that can be read.
Pending == [i \in 1 .. ElementsPending |-> data[Wrap(ReadCounter + i - 1)]]
=============================================================================

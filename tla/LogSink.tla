------------------------------- MODULE LogSink -------------------------------
(***************************************************************************)
(* The threaded log sink of log.c: a ring buffer between one user thread   *)
(* (in ORTD a real-time thread) and the sink thread, which hands every     *)
(* element to a callback (file or stream writer).                          *)
(*                                                                         *)
(* The data goes through the buffer without a lock: only the number of     *)
(* pending elements is protected, by elements_pending_mutex.  Control      *)
(* signals (1 terminate, 2 flush, 3 reset) go through the single variable  *)
(* special_signal, protected by thread_mutex, which is also the mutex of   *)
(* the condition variable the sink thread waits on.                        *)
(*                                                                         *)
(* A critical section without a waiting point is one step.  thread_mutex   *)
(* is held across steps in one place only: in log_ringbuffer_avait_signal  *)
(* between the test of the condition and pthread_cond_wait.                *)
(*                                                                         *)
(* Elements are numbered in the order of their acceptance.                 *)
(***************************************************************************)
EXTENDS Integers, Sequences

CONSTANTS
  NumElements,  (* capacity of the ring buffer                            *)
  AutoFlush,    (* autoflushInterval                                      *)
  MaxBatch,     (* bound on the elements of one write                     *)
  MaxElements,  (* bound on the elements written in all                   *)
  MaxSignals    (* bound on the flush and reset calls                     *)

ASSUME CapacityAssumption == NumElements \in Nat \ {0}
ASSUME BoundsAssumption ==
  /\ AutoFlush \in Nat /\ MaxBatch \in Nat \ {0}
  /\ MaxElements \in Nat /\ MaxSignals \in Nat

VARIABLES
  \* the ring buffer, struct ringbuffer_t
  buf, write_cnt, read_cnt,
  elements_pending,
  special_signal,
  wakeup,      (* wakeup_slave_counter                                     *)
  \* the user thread
  upc,         (* what it does next                                        *)
  batch,       (* numElementsToWrite of the write it is in                 *)
  copied,      (* elements of the batch already in the buffer              *)
  sending,     (* the signal it is about to send                           *)
  accepted,    (* elements accepted by writes that are complete            *)
  signals,     (* flush and reset calls so far                             *)
  \* the sink thread
  rpc,         (* what it does next                                        *)
  mode,        (* the control signal being processed, 0: none              *)
  element,     (* oneelebuf                                                *)
  delivered,   (* the elements handed to the callback (flag 2)             *)
  resets,      (* per handled reset (flag 5): elements delivered before    *)
  failed,      (* the callback refused to open (flag 1)                    *)
  \* history
  flushAt,     (* elements accepted before the last flush request          *)
  resetAsked,  (* a reset was requested                                    *)
  takenAt      (* elements accepted when the sink thread took a signal     *)

ring    == <<buf, write_cnt, read_cnt, elements_pending>>
user    == <<upc, batch, copied, sending, accepted, signals, flushAt, resetAsked>>
sink    == <<mode, element, delivered, resets, failed, takenAt>>
vars    == <<ring, special_signal, wakeup, user, rpc, sink>>

Slot == 0 .. NumElements - 1

\* Mutant: wraps one slot too late.
WrapLate(cnt) == IF cnt > NumElements THEN 0 ELSE cnt

\* Counters of the buffer wrap "to first position when end is reached".
Wrap(cnt) == IF cnt >= NumElements THEN 0 ELSE cnt

\* thread_mutex is free for the user thread.
MutexFree == rpc # "towait"

\* pthread_cond_signal: nothing happens unless the sink thread waits.
CondSignal == rpc' = IF rpc = "waiting" THEN "await" ELSE rpc

Init ==
  /\ buf = [s \in Slot |-> 0] /\ write_cnt = 0 /\ read_cnt = 0
  /\ elements_pending = 0 /\ special_signal = 0 /\ wakeup = 0
  /\ upc = "idle" /\ batch = 0 /\ copied = 0 /\ sending = 0
  /\ accepted = 0 /\ signals = 0 /\ flushAt = 0 /\ resetAsked = FALSE /\ takenAt = 0
  /\ rpc = "open" /\ mode = 0 /\ element = 0
  /\ delivered = <<>> /\ resets = <<>> /\ failed = FALSE

-----------------------------------------------------------------------------
(* The user thread                                                         *)

\* Mutant: one slot more than is free.
WriteOneMore(n) ==
  /\ upc = "idle"
  /\ MutexFree
  /\ accepted + n <= MaxElements
  /\ IF NumElements - elements_pending < n - 1
       THEN UNCHANGED <<upc, batch>>
       ELSE upc' = "copy" /\ batch' = n
  /\ UNCHANGED <<ring, special_signal, wakeup, copied, sending, accepted, signals,
                 flushAt, resetAsked, rpc, sink>>

\* log_ringbuffer_write up to the decision: without enough free slots the
\* elements are dropped.
Write(n) ==
  /\ upc = "idle"
  /\ MutexFree
  /\ accepted + n <= MaxElements
  /\ IF NumElements - elements_pending < n
       THEN UNCHANGED <<upc, batch>>
       ELSE upc' = "copy" /\ batch' = n
  /\ UNCHANGED <<ring, special_signal, wakeup, copied, sending, accepted, signals,
                 flushAt, resetAsked, rpc, sink>>

\* Mutant: the source pointer is not moved on.
CopyFirst ==
  /\ upc = "copy"
  /\ buf' = [buf EXCEPT ![write_cnt] = accepted + 1]
  /\ write_cnt' = Wrap(write_cnt + 1)
  /\ copied' = copied + 1
  /\ upc' = IF copied + 1 = batch THEN "publish" ELSE "copy"
  /\ UNCHANGED <<read_cnt, elements_pending, special_signal, wakeup, batch, sending,
                 accepted, signals, flushAt, resetAsked, rpc, sink>>

\* One round of the copy loop, without a lock.
CopyElement ==
  /\ upc = "copy"
  /\ buf' = [buf EXCEPT ![write_cnt] = accepted + copied + 1]
  /\ write_cnt' = Wrap(write_cnt + 1)
  /\ copied' = copied + 1
  /\ upc' = IF copied + 1 = batch THEN "publish" ELSE "copy"
  /\ UNCHANGED <<read_cnt, elements_pending, special_signal, wakeup, batch, sending,
                 accepted, signals, flushAt, resetAsked, rpc, sink>>

Publish ==
  /\ upc = "publish"
  /\ elements_pending' = elements_pending + batch
  /\ accepted' = accepted + batch
  /\ batch' = 0 /\ copied' = 0
  /\ upc' = "notify"
  /\ UNCHANGED <<buf, write_cnt, read_cnt, special_signal, wakeup, sending, signals,
                 flushAt, resetAsked, rpc, sink>>

\* The end of log_ringbuffer_write: the sink thread is notified now and then,
\* without thread_mutex.
Notify ==
  /\ upc = "notify"
  /\ IF wakeup > AutoFlush
       THEN wakeup' = 0 /\ CondSignal
       ELSE wakeup' = wakeup + 1 /\ UNCHANGED rpc
  /\ upc' = "idle"
  /\ UNCHANGED <<ring, special_signal, batch, copied, sending, accepted, signals,
                 flushAt, resetAsked, sink>>

\* log_sink_flush: log_ringbuffer_flush, then the flush signal.
SinkFlush ==
  /\ upc = "idle"
  /\ signals < MaxSignals
  /\ CondSignal
  /\ signals' = signals + 1
  /\ flushAt' = accepted
  /\ sending' = 2
  /\ upc' = "send"
  /\ UNCHANGED <<ring, special_signal, wakeup, batch, copied, accepted, resetAsked, sink>>

\* log_sink_reset
SinkReset ==
  /\ upc = "idle"
  /\ signals < MaxSignals
  /\ signals' = signals + 1
  /\ resetAsked' = TRUE
  /\ sending' = 3
  /\ upc' = "send"
  /\ UNCHANGED <<ring, special_signal, wakeup, batch, copied, accepted, flushAt, rpc, sink>>

\* log_sink_del up to the termination signal.
SinkDel ==
  /\ upc = "idle"
  /\ CondSignal
  /\ sending' = 1
  /\ upc' = "send"
  /\ UNCHANGED <<ring, special_signal, wakeup, batch, copied, accepted, signals,
                 flushAt, resetAsked, sink>>

\* log_ringbuffer_send_signal: the signal is set under thread_mutex, the
\* condition is signalled after the unlock.
SetSignal ==
  /\ upc = "send"
  /\ MutexFree
  /\ special_signal' = sending
  /\ upc' = "sent"
  /\ UNCHANGED <<ring, wakeup, batch, copied, sending, accepted, signals, flushAt,
                 resetAsked, rpc, sink>>

\* Mutants: the condition is signalled for no signal; for termination only.
SignalSilent ==
  /\ upc = "sent"
  /\ upc' = IF sending = 1 THEN "joining" ELSE "idle"
  /\ sending' = 0
  /\ UNCHANGED <<ring, special_signal, wakeup, batch, copied, accepted, signals,
                 flushAt, resetAsked, rpc, sink>>

SignalTermination ==
  /\ upc = "sent"
  /\ IF sending = 1 THEN CondSignal ELSE UNCHANGED rpc
  /\ upc' = IF sending = 1 THEN "joining" ELSE "idle"
  /\ sending' = 0
  /\ UNCHANGED <<ring, special_signal, wakeup, batch, copied, accepted, signals,
                 flushAt, resetAsked, sink>>

SignalSent ==
  /\ upc = "sent"
  /\ CondSignal
  /\ upc' = IF sending = 1 THEN "joining" ELSE "idle"
  /\ sending' = 0
  /\ UNCHANGED <<ring, special_signal, wakeup, batch, copied, accepted, signals,
                 flushAt, resetAsked, sink>>

\* The end of log_sink_del: the thread is joined, the buffer freed.
Join ==
  /\ upc = "joining"
  /\ rpc = "exited"
  /\ upc' = "gone"
  /\ UNCHANGED <<ring, special_signal, wakeup, batch, copied, sending, accepted,
                 signals, flushAt, resetAsked, rpc, sink>>

-----------------------------------------------------------------------------
(* The sink thread                                                         *)

\* Callback flag 1.
Open ==
  /\ rpc = "open"
  /\ \/ rpc' = "read" /\ UNCHANGED failed
     \/ rpc' = "exited" /\ failed' = TRUE
  /\ UNCHANGED <<ring, special_signal, wakeup, user, mode, element, delivered, resets, takenAt>>

\* The test that log_ringbuffer_read starts with.  When the buffer is empty a
\* blocking read waits, a non-blocking one (mode # 0) ends the drain loop.
Read ==
  /\ rpc = "read"
  /\ rpc' = IF elements_pending > 0 THEN "copy"
            ELSE IF mode = 0 THEN "await" ELSE "control"
  /\ UNCHANGED <<ring, special_signal, wakeup, user, sink>>

\* Mutant: a signal is carried out at once, the buffer is not drained.
AwaitNoDrain ==
  /\ rpc = "await"
  /\ IF elements_pending = 0 /\ special_signal = 0
       THEN rpc' = "towait" /\ UNCHANGED <<special_signal, mode, takenAt>>
       ELSE /\ rpc' = IF special_signal > 0 THEN "control" ELSE "copy"
            /\ mode' = special_signal
            /\ special_signal' = 0
            /\ takenAt' = IF special_signal > 0 THEN accepted ELSE takenAt
  /\ UNCHANGED <<ring, wakeup, user, element, delivered, resets, failed>>

\* log_ringbuffer_avait_signal: thread_mutex is taken and the condition
\* tested.  A signal, once taken, is cleared; it comes before the data.
Await ==
  /\ rpc = "await"
  /\ IF elements_pending = 0 /\ special_signal = 0
       THEN rpc' = "towait" /\ UNCHANGED <<special_signal, mode, takenAt>>
       ELSE /\ rpc' = IF special_signal > 0 THEN "read" ELSE "copy"
            /\ mode' = special_signal
            /\ special_signal' = 0
            /\ takenAt' = IF special_signal > 0 THEN accepted ELSE takenAt
  /\ UNCHANGED <<ring, wakeup, user, element, delivered, resets, failed>>

\* pthread_cond_wait lets go of thread_mutex.
Wait ==
  /\ rpc = "towait"
  /\ rpc' = "waiting"
  /\ UNCHANGED <<ring, special_signal, wakeup, user, sink>>

\* POSIX lets pthread_cond_wait return without a signal.
SpuriousWakeup ==
  /\ rpc = "waiting"
  /\ rpc' = "await"
  /\ UNCHANGED <<ring, special_signal, wakeup, user, sink>>

\* The rest of log_ringbuffer_read, the copy without a lock.
TakeElement ==
  /\ rpc = "copy"
  /\ element' = buf[read_cnt]
  /\ read_cnt' = Wrap(read_cnt + 1)
  /\ rpc' = "release"
  /\ UNCHANGED <<buf, write_cnt, elements_pending, special_signal, wakeup, user, mode,
                 delivered, resets, failed, takenAt>>

\* Mutant: the element stays pending.
ReleaseNothing ==
  /\ rpc = "release"
  /\ rpc' = "deliver"
  /\ UNCHANGED <<ring, special_signal, wakeup, user, sink>>

Release ==
  /\ rpc = "release"
  /\ elements_pending' = elements_pending - 1
  /\ rpc' = "deliver"
  /\ UNCHANGED <<buf, write_cnt, read_cnt, special_signal, wakeup, user, sink>>

\* Mutant: the drain loop ends after one element.
DeliverOne ==
  /\ rpc = "deliver"
  /\ delivered' = Append(delivered, element)
  /\ rpc' = IF mode = 0 THEN "read" ELSE "control"
  /\ UNCHANGED <<ring, special_signal, wakeup, user, mode, element, resets, failed, takenAt>>

\* Callback flag 2.
Deliver ==
  /\ rpc = "deliver"
  /\ delivered' = Append(delivered, element)
  /\ rpc' = "read"
  /\ UNCHANGED <<ring, special_signal, wakeup, user, mode, element, resets, failed, takenAt>>

\* The buffer is drained: callback flag 4 (flush), 5 (reset) or 4 and 3 (close).
Control ==
  /\ rpc = "control"
  /\ resets' = IF mode = 3 THEN Append(resets, Len(delivered)) ELSE resets
  /\ rpc' = IF mode = 1 THEN "exited" ELSE "read"
  /\ mode' = 0
  /\ UNCHANGED <<ring, special_signal, wakeup, user, element, delivered, failed, takenAt>>

-----------------------------------------------------------------------------

\* The user thread on its way through a call, and the sink thread.
UserStep == CopyElement \/ Publish \/ Notify \/ SetSignal \/ SignalSent \/ Join
SinkStep == Open \/ Read \/ Await \/ Wait \/ TakeElement \/ Release \/ Deliver \/ Control

UserCall == (\E n \in 1 .. MaxBatch : Write(n)) \/ SinkFlush \/ SinkReset \/ SinkDel

\* After log_sink_del there is nothing left to do.
Gone == upc = "gone" /\ UNCHANGED vars

Next == UserCall \/ UserStep \/ SinkStep \/ SpuriousWakeup \/ Gone

\* Both threads keep running inside the code; nobody has to call it, and
\* nobody can rely on spurious wakeups.
Spec == Init /\ [][Next]_vars /\ WF_vars(UserStep) /\ WF_vars(SinkStep)

-----------------------------------------------------------------------------

TypeOK ==
  /\ buf \in [Slot -> Nat] /\ write_cnt \in Slot /\ read_cnt \in Slot
  /\ elements_pending \in 0 .. NumElements
  /\ special_signal \in 0 .. 3 /\ wakeup \in Nat
  /\ upc \in {"idle", "copy", "publish", "notify", "send", "sent", "joining", "gone"}
  /\ batch \in Nat /\ copied \in Nat /\ sending \in 0 .. 3
  /\ accepted \in Nat /\ signals \in Nat
  /\ flushAt \in Nat /\ resetAsked \in BOOLEAN /\ takenAt \in Nat
  /\ rpc \in {"open", "read", "await", "towait", "waiting", "copy", "release", "deliver",
              "control", "exited"}
  /\ mode \in 0 .. 3 /\ element \in Nat
  /\ delivered \in Seq(Nat) /\ resets \in Seq(Nat) /\ failed \in BOOLEAN

\* The two threads copy without a lock, and never the same slot: the sink
\* thread does not read a slot the user thread is filling.
NoTornElement == upc = "copy" /\ rpc = "copy" => write_cnt # read_cnt

\* The callback gets the accepted elements in order, without gap or repetition,
\* although writer and reader only share the count of pending elements.
InOrder == \A i \in 1 .. Len(delivered) : delivered[i] = i

\* When log_sink_del returns, every accepted element has reached the callback
\* (unless the callback could not be opened).
NothingLeftBehind == upc = "gone" /\ ~failed => Len(delivered) = accepted

\* A control signal (flush, reset, termination) is carried out after every
\* element that was accepted when the sink thread took it: of the elements
\* written before a reset was requested none ends up in the new file.
ControlAfterData == rpc = "control" => Len(delivered) >= takenAt

\* The sink implements the channel it promises.
Channel == INSTANCE LogChannel WITH
  sent  <- accepted,
  got   <- delivered,
  state <- IF failed THEN "failed" ELSE IF rpc = "exited" THEN "closed" ELSE "open"
ChannelSpec == Channel!Spec

\* log_sink_del returns: the termination signal always gets through.
DelReturns == upc = "joining" ~> upc = "gone"

\* After log_sink_flush everything accepted before it reaches the callback, no
\* matter how the wakeups of the ring buffer itself are lost.
FlushDelivers ==
  \A k \in 1 .. MaxElements :
    upc = "sent" /\ flushAt = k ~> failed \/ Len(delivered) >= k

\* log_dfilewriter_reset: "close the current file and rename it to *.finished
\* then open a new one".  Once asked for it has happened when the sink is gone.
ResetCarriedOut == upc = "gone" /\ ~failed /\ resetAsked => resets # <<>>

=============================================================================

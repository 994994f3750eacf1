---------------------------- MODULE LogSinkProofs ----------------------------
(***************************************************************************)
(* Proofs about the log sink, for every capacity and every bound: the      *)
(* inductive invariant IInv, the safety properties that follow from it,    *)
(* and the implementation of LogChannel.                                   *)
(*                                                                         *)
(* The idea: the slots of the buffer are split between the threads.  The   *)
(* elements still stored follow read_cnt, those of the write in progress   *)
(* follow them, and together they never exceed the capacity, because       *)
(* elements_pending goes up only after the copy of the user thread and     *)
(* down only after the copy of the sink thread.                            *)
(***************************************************************************)
EXTENDS LogSink, TLAPS

\* The type invariant in two parts: flags, and everything else.
Flags == resetAsked \in BOOLEAN /\ failed \in BOOLEAN
Types ==
  /\ buf \in [Slot -> Nat] /\ write_cnt \in Slot /\ read_cnt \in Slot
  /\ elements_pending \in 0 .. NumElements
  /\ special_signal \in 0 .. 3 /\ wakeup \in Nat
  /\ upc \in {"idle", "copy", "publish", "notify", "send", "sent", "joining", "gone"}
  /\ batch \in Nat /\ copied \in Nat /\ sending \in 0 .. 3
  /\ accepted \in Nat /\ signals \in Nat
  /\ flushAt \in Nat /\ takenAt \in Nat
  /\ rpc \in {"open", "read", "await", "towait", "waiting", "copy", "release", "deliver",
              "control", "exited"}
  /\ mode \in 0 .. 3 /\ element \in Nat
  /\ delivered \in Seq(Nat) /\ resets \in Seq(Nat)

\* The slot that is i slots behind slot r.
Behind(r, i) == IF r + i >= NumElements THEN r + i - NumElements ELSE r + i

\* Elements taken out of the buffer, elements still stored in it.
Taken  == Len(delivered) + (IF rpc \in {"release", "deliver"} THEN 1 ELSE 0)
Stored == elements_pending - (IF rpc = "release" THEN 1 ELSE 0)

\* What the user thread is doing, and that its batch has room.
Batch ==
  /\ upc \notin {"copy", "publish"} => batch = 0 /\ copied = 0
  /\ upc = "copy" => copied < batch
  /\ upc = "publish" => copied = batch
  /\ elements_pending + batch <= NumElements

\* No accepted element is lost between the counters of the two threads.
Accounting ==
  /\ rpc \in {"copy", "release"} => elements_pending > 0
  /\ accepted = Taken + Stored
  /\ write_cnt = Behind(read_cnt, Stored + copied)

\* What the buffer, oneelebuf and the callback's record contain.
Content ==
  /\ \A i \in 0 .. Stored + copied - 1 : buf[Behind(read_cnt, i)] = Taken + i + 1
  /\ rpc \in {"release", "deliver"} => element = Len(delivered) + 1
  /\ \A i \in 1 .. Len(delivered) : delivered[i] = i

\* How signals are carried out, and how the sink ends.
Signals ==
  /\ upc \in {"send", "sent"} => sending # 0
  /\ rpc = "open" => delivered = <<>> /\ ~failed
  /\ failed => rpc = "exited"
  /\ special_signal = 1 \/ mode = 1 \/ (rpc = "exited" /\ ~failed) =>
       \/ upc \in {"joining", "gone"}
       \/ upc = "sent" /\ sending = 1
  /\ (rpc = "control" /\ mode = 1) \/ (rpc = "exited" /\ ~failed) => elements_pending = 0
  /\ upc = "gone" => rpc = "exited"
  /\ mode # 0 => takenAt <= accepted
  /\ rpc = "control" => Len(delivered) >= takenAt

IInv == Types /\ Flags /\ Batch /\ Accounting /\ Content /\ Signals

-----------------------------------------------------------------------------

\* One slot further, and then i more: the wrapping of the counters is the
\* addition of a ring.
LEMMA BehindNext ==
  ASSUME NEW r \in Slot, NEW i \in 0 .. NumElements - 1
  PROVE  /\ Wrap(r + 1) \in Slot
         /\ Behind(Wrap(r + 1), i) = Behind(r, i + 1)
         /\ Wrap(Behind(r, i) + 1) = Behind(r, i + 1)
         /\ Behind(r, i) \in Slot
BY CapacityAssumption DEF Behind, Wrap, Slot

\* Different distances below the capacity are different slots.
LEMMA BehindInjective ==
  ASSUME NEW r \in Slot, NEW i \in 0 .. NumElements - 1, NEW j \in 0 .. NumElements - 1,
         Behind(r, i) = Behind(r, j)
  PROVE  i = j
BY CapacityAssumption DEF Behind, Slot

\* The derived quantities are integers.
LEMMA Sizes == Types => Taken \in Int /\ Stored \in Int /\ copied \in Int /\ accepted \in Int
BY CapacityAssumption DEF Types, Taken, Stored

\* The invariant holds when the sink has been created.
LEMMA InitInvariant == Init => IInv
<1> SUFFICES ASSUME Init PROVE IInv
  OBVIOUS
<1>0. Flags
  BY DEF Init, Flags
<1>1. Types
  BY CapacityAssumption DEF Init, Types, Slot
<1>2. Batch /\ Accounting
  BY CapacityAssumption DEF Init, Batch, Accounting, Taken, Stored, Behind
<1>3. Content /\ Signals
  BY DEF Init, Content, Signals, Taken, Stored
<1> QED BY <1>0, <1>1, <1>2, <1>3 DEF IInv

\* Every step of either thread preserves the invariant.
LEMMA StepInvariant == IInv /\ [Next]_vars => IInv'
<1> SUFFICES ASSUME IInv, [Next]_vars PROVE IInv'
  OBVIOUS
<1> USE CapacityAssumption, BoundsAssumption DEF IInv, ring, user, sink, CondSignal
<1>1. ASSUME NEW n \in 1 .. MaxBatch, Write(n) PROVE IInv'
  <2>1. Flags'
    BY <1>1 DEF Write, Flags
  <2>2. (Types /\ Batch)'
    BY <1>1 DEF Write, Types, Batch
  <2>3. Accounting'
    BY <1>1 DEF Write, Types, Batch, Accounting, Taken, Stored
  <2>4. Content'
    BY <1>1 DEF Write, Types, Batch, Accounting, Content, Taken, Stored
  <2>5. Signals'
    BY <1>1 DEF Write, Types, Batch, Signals
  <2> QED BY <2>1, <2>2, <2>3, <2>4, <2>5
<1>2. ASSUME CopyElement PROVE IInv'
  <2>1. Flags'
    BY <1>2 DEF CopyElement, Flags
  <2>2. (Types /\ Batch)'
    BY <1>2, BehindNext DEF CopyElement, Types, Batch
  <2>3. Accounting'
    <3>1. Stored + copied \in 0 .. NumElements - 1
      BY <1>2 DEF CopyElement, Types, Batch, Accounting, Stored
    <3>2. write_cnt' = Behind(read_cnt, Stored + copied + 1)
      BY <1>2, <3>1, BehindNext DEF CopyElement, Types, Accounting
    <3>3. Taken' = Taken /\ Stored' + copied' = Stored + copied + 1
      BY <1>2 DEF CopyElement, Types, Taken, Stored
    <3> QED BY <1>2, <3>2, <3>3 DEF CopyElement, Types, Accounting, Stored
  <2>4. Content'
    <3>1. Stored + copied \in 0 .. NumElements - 1
      BY <1>2 DEF CopyElement, Types, Batch, Accounting, Stored
    <3>2. Taken' = Taken /\ Stored' + copied' - 1 = Stored + copied
      BY <1>2 DEF CopyElement, Types, Taken, Stored
    <3>3. ASSUME NEW i \in 0 .. Stored + copied
          PROVE  buf'[Behind(read_cnt, i)] = Taken + i + 1
      <4>1. i \in 0 .. NumElements - 1
        BY <3>1
      <4>2. Behind(read_cnt, i) \in Slot
        BY <4>1, BehindNext DEF Types
      <4>3. CASE i = Stored + copied
        <5>1. Behind(read_cnt, i) = write_cnt
          BY <4>3 DEF Accounting
        <5>2. accepted + copied + 1 = Taken + i + 1
          BY <4>3, Sizes DEF Accounting
        <5> QED BY <1>2, <4>2, <5>1, <5>2 DEF CopyElement, Types
      <4>4. CASE i # Stored + copied
        <5>1. i \in 0 .. Stored + copied - 1
          BY <4>4, Sizes
        <5>2. Behind(read_cnt, i) # write_cnt
          BY <3>1, <4>1, <4>4, BehindInjective DEF Accounting, Types
        <5>3. buf[Behind(read_cnt, i)] = Taken + i + 1
          BY <5>1 DEF Content
        <5> QED BY <1>2, <4>2, <5>2, <5>3 DEF CopyElement, Types
      <4> QED BY <4>3, <4>4
    <3>4. rpc' = rpc /\ element' = element /\ delivered' = delivered /\ read_cnt' = read_cnt
      BY <1>2 DEF CopyElement
    <3> QED BY <3>2, <3>3, <3>4 DEF Content
  <2>5. Signals'
    BY <1>2 DEF CopyElement, Types, Batch, Signals
  <2> QED BY <2>1, <2>2, <2>3, <2>4, <2>5
<1>3. ASSUME Publish PROVE IInv'
  <2>1. Flags'
    BY <1>3 DEF Publish, Flags
  <2>2. (Types /\ Batch)'
    BY <1>3 DEF Publish, Types, Batch
  <2>3. Accounting'
    <3>1. Taken' = Taken /\ Stored' = Stored + batch /\ Stored' + copied' = Stored + copied
      BY <1>3 DEF Publish, Types, Batch, Taken, Stored
    <3>2. accepted' = Taken' + Stored'
      BY <1>3, <3>1, Sizes, SMTT(30) DEF Publish, Types, Accounting
    <3>3. write_cnt' = Behind(read_cnt', Stored' + copied')
      BY <1>3, <3>1 DEF Publish, Accounting
    <3>4. rpc' \in {"copy", "release"} => elements_pending' > 0
      BY <1>3 DEF Publish, Types, Accounting
    <3> QED BY <3>2, <3>3, <3>4 DEF Accounting
  <2>4. Content'
    BY <1>3 DEF Publish, Types, Batch, Accounting, Content, Taken, Stored
  <2>5. Signals'
    BY <1>3 DEF Publish, Types, Batch, Signals
  <2> QED BY <2>1, <2>2, <2>3, <2>4, <2>5
<1>4. ASSUME Notify PROVE IInv'
  <2>1. Flags'
    BY <1>4 DEF Notify, Flags
  <2>2. (Types /\ Batch)'
    BY <1>4 DEF Notify, Types, Batch
  <2>3. Accounting'
    BY <1>4 DEF Notify, Types, Batch, Accounting, Taken, Stored
  <2>4. Content'
    BY <1>4 DEF Notify, Types, Batch, Accounting, Content, Taken, Stored
  <2>5. Signals'
    BY <1>4 DEF Notify, Types, Batch, Signals
  <2> QED BY <2>1, <2>2, <2>3, <2>4, <2>5
<1>5. ASSUME SinkFlush PROVE IInv'
  <2>1. Flags'
    BY <1>5 DEF SinkFlush, Flags
  <2>2. (Types /\ Batch)'
    BY <1>5 DEF SinkFlush, Types, Batch
  <2>3. Accounting'
    BY <1>5 DEF SinkFlush, Types, Batch, Accounting, Taken, Stored
  <2>4. Content'
    BY <1>5 DEF SinkFlush, Types, Batch, Accounting, Content, Taken, Stored
  <2>5. Signals'
    BY <1>5 DEF SinkFlush, Types, Batch, Signals
  <2> QED BY <2>1, <2>2, <2>3, <2>4, <2>5
<1>6. ASSUME SinkReset PROVE IInv'
  <2>1. Flags'
    BY <1>6 DEF SinkReset, Flags
  <2>2. (Types /\ Batch)'
    BY <1>6 DEF SinkReset, Types, Batch
  <2>3. Accounting'
    BY <1>6 DEF SinkReset, Types, Batch, Accounting, Taken, Stored
  <2>4. Content'
    BY <1>6 DEF SinkReset, Types, Batch, Accounting, Content, Taken, Stored
  <2>5. Signals'
    BY <1>6 DEF SinkReset, Types, Batch, Signals
  <2> QED BY <2>1, <2>2, <2>3, <2>4, <2>5
<1>7. ASSUME SinkDel PROVE IInv'
  <2>1. Flags'
    BY <1>7 DEF SinkDel, Flags
  <2>2. (Types /\ Batch)'
    BY <1>7 DEF SinkDel, Types, Batch
  <2>3. Accounting'
    BY <1>7 DEF SinkDel, Types, Batch, Accounting, Taken, Stored
  <2>4. Content'
    BY <1>7 DEF SinkDel, Types, Batch, Accounting, Content, Taken, Stored
  <2>5. Signals'
    BY <1>7 DEF SinkDel, Types, Batch, Signals
  <2> QED BY <2>1, <2>2, <2>3, <2>4, <2>5
<1>8. ASSUME SetSignal PROVE IInv'
  <2>1. Flags'
    BY <1>8 DEF SetSignal, Flags
  <2>2. (Types /\ Batch)'
    BY <1>8 DEF SetSignal, Types, Batch
  <2>3. Accounting'
    BY <1>8 DEF SetSignal, Types, Batch, Accounting, Taken, Stored
  <2>4. Content'
    BY <1>8 DEF SetSignal, Types, Batch, Accounting, Content, Taken, Stored
  <2>5. Signals'
    BY <1>8 DEF SetSignal, Types, Batch, Signals
  <2> QED BY <2>1, <2>2, <2>3, <2>4, <2>5
<1>9. ASSUME SignalSent PROVE IInv'
  <2>1. Flags'
    BY <1>9 DEF SignalSent, Flags
  <2>2. (Types /\ Batch)'
    BY <1>9 DEF SignalSent, Types, Batch
  <2>3. Accounting'
    BY <1>9 DEF SignalSent, Types, Batch, Accounting, Taken, Stored
  <2>4. Content'
    BY <1>9 DEF SignalSent, Types, Batch, Accounting, Content, Taken, Stored
  <2>5. Signals'
    BY <1>9 DEF SignalSent, Types, Batch, Signals
  <2> QED BY <2>1, <2>2, <2>3, <2>4, <2>5
<1>10. ASSUME Join PROVE IInv'
  <2>1. Flags'
    BY <1>10 DEF Join, Flags
  <2>2. (Types /\ Batch)'
    BY <1>10 DEF Join, Types, Batch
  <2>3. Accounting'
    BY <1>10 DEF Join, Types, Batch, Accounting, Taken, Stored
  <2>4. Content'
    BY <1>10 DEF Join, Types, Batch, Accounting, Content, Taken, Stored
  <2>5. Signals'
    BY <1>10 DEF Join, Types, Batch, Signals
  <2> QED BY <2>1, <2>2, <2>3, <2>4, <2>5
<1>11. ASSUME Open PROVE IInv'
  <2>1. Flags'
    BY <1>11 DEF Open, Flags
  <2>2. (Types /\ Batch)'
    BY <1>11 DEF Open, Types, Batch
  <2>3. Accounting'
    BY <1>11 DEF Open, Types, Batch, Accounting, Taken, Stored
  <2>4. Content'
    BY <1>11 DEF Open, Types, Batch, Accounting, Content, Taken, Stored
  <2>5. Signals'
    BY <1>11 DEF Open, Types, Batch, Signals
  <2> QED BY <2>1, <2>2, <2>3, <2>4, <2>5
<1>12. ASSUME Read PROVE IInv'
  <2>1. Flags'
    BY <1>12 DEF Read, Flags
  <2>2. (Types /\ Batch)'
    BY <1>12 DEF Read, Types, Batch
  <2>3. Accounting'
    BY <1>12 DEF Read, Types, Batch, Accounting, Taken, Stored
  <2>4. Content'
    BY <1>12 DEF Read, Types, Batch, Accounting, Content, Taken, Stored
  <2>5. Signals'
    BY <1>12 DEF Read, Types, Batch, Signals, Accounting, Taken, Stored
  <2> QED BY <2>1, <2>2, <2>3, <2>4, <2>5
<1>13. ASSUME Await PROVE IInv'
  <2>1. Flags'
    BY <1>13 DEF Await, Flags
  <2>2. (Types /\ Batch)'
    BY <1>13 DEF Await, Types, Batch
  <2>3. Accounting'
    <3>1. Taken' = Taken /\ Stored' = Stored
      BY <1>13 DEF Await, Types, Taken, Stored
    <3>2. rpc' \in {"copy", "release"} => elements_pending > 0
      BY <1>13 DEF Await, Types
    <3> QED BY <1>13, <3>1, <3>2 DEF Await, Types, Accounting
  <2>4. Content'
    BY <1>13 DEF Await, Types, Batch, Accounting, Content, Taken, Stored
  <2>5. Signals'
    BY <1>13 DEF Await, Types, Batch, Signals
  <2> QED BY <2>1, <2>2, <2>3, <2>4, <2>5
<1>14. ASSUME Wait PROVE IInv'
  <2>1. Flags'
    BY <1>14 DEF Wait, Flags
  <2>2. (Types /\ Batch)'
    BY <1>14 DEF Wait, Types, Batch
  <2>3. Accounting'
    BY <1>14 DEF Wait, Types, Batch, Accounting, Taken, Stored
  <2>4. Content'
    BY <1>14 DEF Wait, Types, Batch, Accounting, Content, Taken, Stored
  <2>5. Signals'
    BY <1>14 DEF Wait, Types, Batch, Signals
  <2> QED BY <2>1, <2>2, <2>3, <2>4, <2>5
<1>15. ASSUME SpuriousWakeup PROVE IInv'
  <2>1. Flags'
    BY <1>15 DEF SpuriousWakeup, Flags
  <2>2. (Types /\ Batch)'
    BY <1>15 DEF SpuriousWakeup, Types, Batch
  <2>3. Accounting'
    BY <1>15 DEF SpuriousWakeup, Types, Batch, Accounting, Taken, Stored
  <2>4. Content'
    BY <1>15 DEF SpuriousWakeup, Types, Batch, Accounting, Content, Taken, Stored
  <2>5. Signals'
    BY <1>15 DEF SpuriousWakeup, Types, Batch, Signals
  <2> QED BY <2>1, <2>2, <2>3, <2>4, <2>5
<1>16. ASSUME TakeElement PROVE IInv'
  <2>1. Flags'
    BY <1>16 DEF TakeElement, Flags
  <2>2. (Types /\ Batch)'
    BY <1>16, BehindNext DEF TakeElement, Types, Batch
  <2>3. Accounting'
    <3>1. Taken' = Taken + 1 /\ Stored' = Stored - 1 /\ Stored = elements_pending
      BY <1>16 DEF TakeElement, Types, Taken, Stored
    <3>2. Stored' + copied \in 0 .. NumElements - 1
      BY <1>16, <3>1 DEF TakeElement, Types, Batch, Accounting
    <3>3. Behind(read_cnt', Stored' + copied) = Behind(read_cnt, Stored + copied)
      BY <1>16, <3>1, <3>2, BehindNext DEF TakeElement, Types
    <3>4. accepted' = Taken' + Stored'
      BY <1>16 DEF TakeElement, Types, Accounting, Taken, Stored
    <3> QED BY <1>16, <3>3, <3>4 DEF TakeElement, Accounting
  <2>4. Content'
    <3>1. Taken' = Taken + 1 /\ Stored' = Stored - 1 /\ Stored = elements_pending
      BY <1>16 DEF TakeElement, Types, Taken, Stored
    <3>2. Stored + copied \in 1 .. NumElements
      BY <1>16, <3>1 DEF TakeElement, Types, Batch, Accounting
    <3>3. ASSUME NEW i \in 0 .. Stored' + copied' - 1
          PROVE  buf'[Behind(read_cnt', i)] = Taken' + i + 1
      <4>1. i \in 0 .. NumElements - 1 /\ i + 1 \in 0 .. Stored + copied - 1
        BY <1>16, <3>1, <3>2, <3>3 DEF TakeElement, Types
      <4>2. Behind(read_cnt', i) = Behind(read_cnt, i + 1)
        BY <1>16, <4>1, BehindNext DEF TakeElement, Types
      <4>3. buf[Behind(read_cnt, i + 1)] = Taken + (i + 1) + 1
        BY <4>1 DEF Content
      <4>4. Taken \in Int
        BY DEF Taken, Types
      <4> QED BY <1>16, <3>1, <4>1, <4>2, <4>3, <4>4 DEF TakeElement
    <3>4. element' = Len(delivered) + 1
      <4>1. 0 \in 0 .. Stored + copied - 1
        BY <3>2, Sizes
      <4>2. buf[Behind(read_cnt, 0)] = Taken + 0 + 1
        BY <4>1 DEF Content
      <4>3. Behind(read_cnt, 0) = read_cnt
        BY CapacityAssumption DEF Behind, Types, Slot
      <4> QED BY <1>16, <4>2, <4>3 DEF TakeElement, Taken, Types
    <3> QED BY <1>16, <3>3, <3>4 DEF TakeElement, Content
  <2>5. Signals'
    BY <1>16 DEF TakeElement, Types, Batch, Signals
  <2> QED BY <2>1, <2>2, <2>3, <2>4, <2>5
<1>17. ASSUME Release PROVE IInv'
  <2>1. Flags'
    BY <1>17 DEF Release, Flags
  <2>2. (Types /\ Batch)'
    BY <1>17 DEF Release, Types, Batch, Accounting
  <2>3. Accounting'
    BY <1>17 DEF Release, Types, Batch, Accounting, Taken, Stored
  <2>4. Content'
    BY <1>17 DEF Release, Types, Batch, Accounting, Content, Taken, Stored
  <2>5. Signals'
    BY <1>17 DEF Release, Types, Batch, Signals
  <2> QED BY <2>1, <2>2, <2>3, <2>4, <2>5
<1>18. ASSUME Deliver PROVE IInv'
  <2>1. Flags'
    BY <1>18 DEF Deliver, Flags
  <2>2. (Types /\ Batch)'
    BY <1>18 DEF Deliver, Types, Batch
  <2>3. Accounting'
    BY <1>18 DEF Deliver, Types, Batch, Accounting, Taken, Stored
  <2>4. Content'
    BY <1>18 DEF Deliver, Types, Batch, Accounting, Content, Taken, Stored
  <2>5. Signals'
    BY <1>18 DEF Deliver, Types, Batch, Signals
  <2> QED BY <2>1, <2>2, <2>3, <2>4, <2>5
<1>19. ASSUME Control PROVE IInv'
  <2>1. Flags'
    BY <1>19 DEF Control, Flags
  <2>2. (Types /\ Batch)'
    BY <1>19 DEF Control, Types, Batch
  <2>3. Accounting'
    BY <1>19 DEF Control, Types, Batch, Accounting, Taken, Stored
  <2>4. Content'
    BY <1>19 DEF Control, Types, Batch, Accounting, Content, Taken, Stored
  <2>5. Signals'
    BY <1>19 DEF Control, Types, Batch, Signals
  <2> QED BY <2>1, <2>2, <2>3, <2>4, <2>5
<1>20. ASSUME UNCHANGED vars PROVE IInv'
  <2>1. Flags'
    BY <1>20 DEF vars, Flags
  <2>2. (Types /\ Batch)'
    BY <1>20 DEF vars, Types, Batch
  <2>3. Accounting'
    BY <1>20 DEF vars, Types, Batch, Accounting, Taken, Stored
  <2>4. Content'
    BY <1>20 DEF vars, Types, Batch, Accounting, Content, Taken, Stored
  <2>5. Signals'
    BY <1>20 DEF vars, Types, Batch, Signals
  <2> QED BY <2>1, <2>2, <2>3, <2>4, <2>5
<1> QED
  BY <1>1, <1>2, <1>3, <1>4, <1>5, <1>6, <1>7, <1>8, <1>9, <1>10, <1>11, <1>12, <1>13,
     <1>14, <1>15, <1>16, <1>17, <1>18, <1>19, <1>20 DEF Next, UserCall, UserStep, SinkStep, Gone

-----------------------------------------------------------------------------

\* The inductive invariant holds throughout.
THEOREM Invariance == Spec => []IInv
BY InitInvariant, StepInvariant, PTL DEF Spec

\* All variables have their types; the counters of the ring buffer never leave
\* it (log_ringbuffer_write, log_ringbuffer_read).
THEOREM TypeCorrect == Spec => []TypeOK
<1>1. IInv => TypeOK
  BY DEF IInv, Types, Flags, TypeOK
<1> QED BY <1>1, Invariance, PTL

\* The two threads, which copy without a lock, never work on one slot: between
\* read_cnt and write_cnt lie the stored and the copied elements, at least one
\* and fewer than the capacity.
THEOREM SlotsApart == Spec => []NoTornElement
<1>1. IInv => NoTornElement
  <2> SUFFICES ASSUME IInv, upc = "copy", rpc = "copy" PROVE write_cnt # read_cnt
    BY DEF NoTornElement
  <2>1. Stored = elements_pending /\ elements_pending > 0
    BY DEF IInv, Accounting, Types, Stored
  <2>2. Stored + copied \in 1 .. NumElements - 1
    BY <2>1, CapacityAssumption DEF IInv, Batch, Types
  <2>3. write_cnt = Behind(read_cnt, Stored + copied)
    BY DEF IInv, Accounting
  <2> QED BY <2>2, <2>3, CapacityAssumption, SMTT(30) DEF IInv, Types, Behind, Slot
<1> QED BY <1>1, Invariance, PTL

\* The callback gets the elements in the order of their acceptance, without gap
\* or repetition, for every interleaving of log_ringbuffer_write with
\* log_ringbuffer_read.
THEOREM OrderKept == Spec => []InOrder
<1>1. IInv => InOrder
  BY DEF IInv, Content, InOrder
<1> QED BY <1>1, Invariance, PTL

\* When log_sink_del has returned, nothing that was accepted is left in the
\* buffer.
THEOREM EverythingDelivered == Spec => []NothingLeftBehind
<1>1. IInv => NothingLeftBehind
  BY DEF IInv, Signals, Accounting, Types, Taken, Stored, NothingLeftBehind
<1> QED BY <1>1, Invariance, PTL

\* The sink thread carries out a signal only after all elements that were
\* accepted when it took the signal.
THEOREM SignalsAfterData == Spec => []ControlAfterData
<1>1. IInv => ControlAfterData
  BY DEF IInv, Signals, ControlAfterData
<1> QED BY <1>1, Invariance, PTL

-----------------------------------------------------------------------------

\* A step of the sink is a step of the channel it promises, or none: writes
\* are accepted when they are published, elements are delivered when the
\* callback gets them, and the sink closes only when none is left.
LEMMA StepRefinement == IInv /\ IInv' /\ [Next]_vars => [Channel!Next]_(Channel!vars)
<1> SUFFICES ASSUME IInv, IInv', [Next]_vars PROVE [Channel!Next]_(Channel!vars)
  OBVIOUS
<1> DEFINE state == IF failed THEN "failed" ELSE IF rpc = "exited" THEN "closed" ELSE "open"
           Quiet == accepted' = accepted /\ delivered' = delivered /\ state' = state
<1>0. ASSUME Quiet PROVE [Channel!Next]_(Channel!vars)
  BY <1>0 DEF Channel!vars
<1>1. CASE Publish
  <2>1. accepted' \in Nat /\ accepted' >= accepted /\ delivered' = delivered /\ state' = state
    BY <1>1 DEF Publish, sink, IInv, Types
  <2>2. state # "closed"
    BY <1>1 DEF Publish, IInv, Signals
  <2>3. CASE accepted' = accepted
    BY <2>1, <2>3, <1>0
  <2>4. CASE accepted' > accepted
    BY <2>1, <2>2, <2>4 DEF Channel!Accept, Channel!Next
  <2> QED BY <2>1, <2>3, <2>4 DEF IInv, Types
<1>2. CASE Deliver
  <2>1. state = "open" /\ state' = "open"
    BY <1>2 DEF Deliver, IInv, Signals
  <2>2. Len(delivered) < accepted
    BY <1>2 DEF Deliver, IInv, Accounting, Types, Taken, Stored
  <2>3. delivered' = Append(delivered, Len(delivered) + 1) /\ accepted' = accepted
    BY <1>2 DEF Deliver, user, IInv, Content
  <2> QED BY <2>1, <2>2, <2>3 DEF Channel!Deliver, Channel!Next
<1>3. CASE Control
  <2>1. accepted' = accepted /\ delivered' = delivered /\ failed' = failed
    BY <1>3 DEF Control, user
  <2>2. CASE mode = 1
    <3>1. state = "open" /\ state' = "closed"
      BY <1>3, <2>1, <2>2 DEF Control, IInv, Signals
    <3>2. Len(delivered) = accepted
      BY <1>3, <2>2 DEF Control, IInv, Accounting, Signals, Types, Taken, Stored
    <3> QED BY <2>1, <3>1, <3>2 DEF Channel!Close, Channel!Next
  <2>3. CASE mode # 1
    BY <1>0, <1>3, <2>1, <2>3 DEF Control
  <2> QED BY <2>2, <2>3
<1>4. CASE Open
  <2>1. accepted' = accepted /\ delivered' = delivered /\ delivered = <<>> /\ ~failed
    BY <1>4 DEF Open, user, IInv, Signals
  <2>2. CASE rpc' = "read" /\ failed' = failed
    BY <1>0, <1>4, <2>1, <2>2 DEF Open
  <2>3. CASE rpc' = "exited" /\ failed' = TRUE
    BY <1>4, <2>1, <2>3 DEF Open, Channel!Fail, Channel!Next
  <2> QED BY <1>4, <2>2, <2>3 DEF Open
<1>5. CASE (\E n \in 1 .. MaxBatch : Write(n)) \/ CopyElement \/ SinkReset \/ SetSignal \/ Join
           \/ Read \/ Await \/ Wait \/ SpuriousWakeup \/ TakeElement \/ Release \/ UNCHANGED vars
  BY <1>0, <1>5 DEF Write, CopyElement, SinkReset, SetSignal, Join, Read, Await, Wait,
     SpuriousWakeup, TakeElement, Release, vars, user, sink, ring
<1>6. CASE Notify \/ SinkFlush \/ SinkDel \/ SignalSent
  BY <1>0, <1>6 DEF Notify, SinkFlush, SinkDel, SignalSent, CondSignal, user, sink
<1> QED
  BY <1>1, <1>2, <1>3, <1>4, <1>5, <1>6 DEF Next, UserCall, UserStep, SinkStep, Gone

\* The sink implements the channel (log.c as a whole: what log_ringbuffer_write
\* accepts reaches the callback of log_sink_new in order, once, and before the
\* sink is closed).
THEOREM Refinement == Spec => ChannelSpec
<1>1. Init => Channel!Init
  BY DEF Init, Channel!Init
<1> QED BY <1>1, StepRefinement, Invariance, PTL DEF Spec, ChannelSpec, Channel!Spec

-----------------------------------------------------------------------------

\* No wake-up is lost: the sink thread sleeps on a signal only between
\* log_ringbuffer_send_signal setting it and signalling the condition, and the
\* thread that log_sink_del waits for has the termination signal before it,
\* carries it out, or is gone.
Wakeful ==
  /\ rpc \in {"open", "await", "towait", "waiting"} => mode = 0
  /\ rpc = "control" => mode # 0
  /\ rpc \in {"towait", "waiting"} /\ special_signal # 0 => rpc = "waiting" /\ upc = "sent"
  /\ upc = "joining" \/ (upc = "sent" /\ sending = 1) =>
       special_signal = 1 \/ mode = 1 \/ rpc = "exited"

\* No flush is lost, though a later signal may overwrite it: what was accepted
\* before the flush has been delivered, or a signal is on its way, or one that
\* was taken late enough is being carried out.
FlushPending ==
  /\ flushAt <= accepted
  /\ \/ failed
     \/ Len(delivered) >= flushAt
     \/ upc = "send"
     \/ special_signal # 0
     \/ mode # 0 /\ takenAt >= flushAt

\* Both are kept by every step.
LEMMA WakefulStep == IInv /\ Wakeful /\ [Next]_vars => Wakeful'
<1> SUFFICES ASSUME IInv, Wakeful, [Next]_vars PROVE Wakeful'
  OBVIOUS
<1> USE DEF ring, user, sink, CondSignal, Wakeful
<1>0. special_signal \in 0 .. 3 /\ sending \in 0 .. 3 /\ mode \in 0 .. 3
  BY DEF IInv, Types
<1>1. CASE \E n \in 1 .. MaxBatch : Write(n)
  BY <1>1 DEF Write
<1>2. CASE SinkFlush \/ SinkReset \/ SinkDel
  BY <1>2 DEF SinkFlush, SinkReset, SinkDel
<1>3. CASE CopyElement \/ Publish \/ Notify
  BY <1>3 DEF CopyElement, Publish, Notify
<1>4. CASE SetSignal
  BY <1>4 DEF SetSignal, MutexFree
<1>5. CASE SignalSent
  BY <1>5 DEF SignalSent
<1>6. CASE Join
  BY <1>6 DEF Join
<1>7. CASE Open \/ Read \/ Wait \/ SpuriousWakeup
  BY <1>7 DEF Open, Read, Wait, SpuriousWakeup
<1>8. CASE Await
  BY <1>0, <1>8 DEF Await
<1>9. CASE TakeElement \/ Release \/ Deliver
  BY <1>9 DEF TakeElement, Release, Deliver
<1>10. CASE Control
  BY <1>10 DEF Control
<1>11. CASE UNCHANGED vars
  BY <1>11 DEF vars
<1> QED BY <1>1, <1>2, <1>3, <1>4, <1>5, <1>6, <1>7, <1>8, <1>9, <1>10, <1>11
        DEF Next, UserCall, UserStep, SinkStep, Gone

\* A flush that was requested stays on its way, whatever signal overwrites it,
\* until what was accepted before it has been delivered.
LEMMA FlushStep == IInv /\ Wakeful /\ FlushPending /\ [Next]_vars => FlushPending'
<1> SUFFICES ASSUME IInv, Wakeful, FlushPending, [Next]_vars PROVE FlushPending'
  OBVIOUS
<1> USE DEF ring, user, sink, FlushPending
<1>0. /\ special_signal \in 0 .. 3 /\ sending \in 0 .. 3 /\ mode \in 0 .. 3
      /\ accepted \in Nat /\ flushAt \in Nat /\ takenAt \in Nat /\ batch \in Nat
      /\ delivered \in Seq(Nat) /\ Len(delivered) \in Nat
  BY DEF IInv, Types
<1>1. CASE \E n \in 1 .. MaxBatch : Write(n)
  BY <1>1 DEF Write
<1>2. CASE SinkFlush \/ SinkReset \/ SinkDel
  BY <1>0, <1>2 DEF SinkFlush, SinkReset, SinkDel
<1>3. CASE CopyElement \/ Publish \/ Notify
  BY <1>0, <1>3 DEF CopyElement, Publish, Notify
<1>4. CASE SetSignal
  BY <1>4 DEF SetSignal, IInv, Signals
<1>5. CASE SignalSent \/ Join
  BY <1>5 DEF SignalSent, Join
<1>6. CASE Open \/ Read \/ Wait \/ SpuriousWakeup
  BY <1>6 DEF Open, Read, Wait, SpuriousWakeup
<1>7. CASE Await
  BY <1>0, <1>7 DEF Await, Wakeful
<1>8. CASE TakeElement \/ Release
  BY <1>8 DEF TakeElement, Release
<1>9. CASE Deliver
  <2>1. Len(delivered') = Len(delivered) + 1
    BY <1>0, <1>9 DEF Deliver, IInv, Types
  <2> QED BY <1>0, <1>9, <2>1 DEF Deliver
<1>10. CASE Control
  BY <1>0, <1>10 DEF Control, IInv, Signals
<1>11. CASE UNCHANGED vars
  BY <1>11 DEF vars
<1> QED BY <1>1, <1>2, <1>3, <1>4, <1>5, <1>6, <1>7, <1>8, <1>9, <1>10, <1>11
        DEF Next, UserCall, UserStep, SinkStep, Gone

\* No signal is lost between the threads: nobody sleeps over one that will not
\* be announced, and a flush is carried out or taken over by a later signal.
THEOREM NoSignalLost == Spec => [](Wakeful /\ FlushPending)
<1>1. Init => Wakeful /\ FlushPending
  BY DEF Init, Wakeful, FlushPending
<1> QED BY <1>1, WakefulStep, FlushStep, Invariance, PTL DEF Spec

\* What the sink thread has left to do when it is to terminate: to carry out a
\* signal taken before, to take the termination signal and to drain the buffer;
\* then elements, then steps for an element.
ToGo ==
  << IF rpc = "exited" THEN 0
     ELSE IF special_signal = 0 THEN 1
     ELSE IF mode = 0 THEN 2 ELSE 3,
     elements_pending,
     CASE rpc = "open" -> 5
       [] rpc = "deliver" -> 4
       [] rpc = "read" -> 3
       [] rpc = "release" -> 1
       [] OTHER -> 2 >>

\* The lexicographic order of such triples of natural numbers.
Less(r, s) ==
  \E i \in 1 .. 3 : r[i] < s[i] /\ \A j \in 1 .. i - 1 : r[j] = s[j]

\* A step of the thread that log_sink_del waits for leaves less to do.
LEMMA SinkForward ==
  ASSUME IInv, Wakeful, upc = "joining", SinkStep
  PROVE  Less(ToGo', ToGo)
<1> SUFFICES \/ ToGo'[1] < ToGo[1]
             \/ ToGo'[1] = ToGo[1] /\ ToGo'[2] < ToGo[2]
             \/ ToGo'[1] = ToGo[1] /\ ToGo'[2] = ToGo[2] /\ ToGo'[3] < ToGo[3]
  BY DEF Less
<1> USE DEF ring, user, sink
<1>0. /\ special_signal \in 0 .. 3 /\ mode \in 0 .. 3 /\ elements_pending \in Int
      /\ special_signal = 1 \/ mode = 1 \/ rpc = "exited"
      /\ rpc \notin {"towait", "waiting"}
      /\ rpc \in {"open", "await"} => mode = 0
      /\ rpc = "control" => mode # 0
  BY CapacityAssumption DEF IInv, Types, Wakeful
<1>1. CASE Open
  BY <1>0, <1>1 DEF Open, ToGo
<1>2. CASE Read
  BY <1>0, <1>2 DEF Read, ToGo
<1>3. CASE Await
  BY <1>0, <1>3 DEF Await, ToGo
<1>4. CASE Wait
  BY <1>0, <1>4 DEF Wait
<1>5. CASE TakeElement
  BY <1>0, <1>5 DEF TakeElement, ToGo
<1>6. CASE Release
  BY <1>0, <1>6 DEF Release, ToGo
<1>7. CASE Deliver
  BY <1>0, <1>7 DEF Deliver, ToGo
<1>8. CASE Control
  BY <1>0, <1>8 DEF Control, ToGo
<1> QED BY <1>1, <1>2, <1>3, <1>4, <1>5, <1>6, <1>7, <1>8 DEF SinkStep

\* log_sink_del does not wait in vain: while it waits, the sink thread does not
\* sleep, and with each of its steps a triple of natural numbers gets
\* lexicographically smaller.  This is the safety part of DelReturns.
THEOREM DelMakesProgress ==
  Spec => /\ [](upc = "joining" => rpc \notin {"towait", "waiting"})
          /\ [](\A i \in 1 .. 3 : ToGo[i] \in Nat)
          /\ [][upc = "joining" /\ SinkStep => Less(ToGo', ToGo)]_vars
<1>1. IInv /\ Wakeful => (upc = "joining" => rpc \notin {"towait", "waiting"})
  BY DEF IInv, Types, Wakeful
<1>2. IInv => \A i \in 1 .. 3 : ToGo[i] \in Nat
  <2> SUFFICES ASSUME IInv PROVE ToGo[1] \in Nat /\ ToGo[2] \in Nat /\ ToGo[3] \in Nat
    OBVIOUS
  <2>1. elements_pending \in Nat
    BY CapacityAssumption DEF IInv, Types
  <2> QED BY <2>1 DEF ToGo
<1>3. IInv /\ Wakeful => [upc = "joining" /\ SinkStep => Less(ToGo', ToGo)]_vars
  BY SinkForward
<1> QED BY <1>1, <1>2, <1>3, NoSignalLost, Invariance, PTL
=============================================================================

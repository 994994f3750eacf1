---------------------------- MODULE PipelineProofs ----------------------------
(***************************************************************************)
(* Proofs about Pipeline, for every capacity and every bound: the ring     *)
(* buffer is the queue DroppingQueue describes, and no wake-up is lost.    *)
(*                                                                         *)
(* The pending elements are always the newest ones: from ReadCounter on    *)
(* the slots hold consecutive numbers, the last of which is the number of  *)
(* elements written.  An overflow keeps their number and moves ReadCounter *)
(* as far as WriteCounter.                                                 *)
(***************************************************************************)
EXTENDS Pipeline, TLAPS

BufferTypes ==
  /\ data \in [Slot -> Nat] /\ ReadCounter \in Slot /\ WriteCounter \in Slot
  /\ ElementsPending \in 0 .. NumElements /\ written \in Nat

\* The counters agree, and the pending elements are the newest.
Newest ==
  /\ ElementsPending <= written
  /\ WriteCounter = Wrap(ReadCounter + ElementsPending)
  /\ \A i \in 1 .. ElementsPending :
       data[Wrap(ReadCounter + i - 1)] = written - ElementsPending + i

BInv == BufferTypes /\ Newest

Control ==
  /\ written \in 0 .. MaxWritten
  /\ signal \in Int /\ notified \in Nat
  /\ spc \in {"outputs", "wake", "update", "terminate", "wake_last", "join", "gone"}
  /\ steps \in 0 .. MaxSteps
  /\ ExitLoop \in {0, 1} /\ woken \in {0, 1}
  /\ rpc \in {"test", "wait", "blocked", "step", "exited"}
  /\ received \in 0 .. notified /\ count \in 0 .. ElementsToRead

\* The inner thread sleeps while there is a signal only until the notification
\* that has set it is complete.
NoLostWakeUp ==
  rpc = "blocked" /\ woken = 0 /\ signal # 0 => spc \in {"wake", "wake_last"}

\* The loop is told to end before the notification that makes it look.
LoopEnds ==
  /\ spc \in {"terminate", "wake_last", "join", "gone"} <=> ExitLoop = 1
  /\ spc \in {"wake_last", "join"} /\ rpc \in {"wait", "blocked"} => signal # 0
  /\ spc = "gone" => rpc = "exited"

IInv == BInv /\ Control
-----------------------------------------------------------------------------
\* The values of the elements that can be read.
LEMMA PendingIsNewest ==
  ASSUME BInv
  PROVE  Pending = [i \in 1 .. ElementsPending |-> written - ElementsPending + i]
BY DEF BInv, Newest, Pending

\* The pending elements are in slots of the buffer.
LEMMA WrapInSlot ==
  ASSUME NEW r \in Slot, NEW i \in 1 .. NumElements
  PROVE  Wrap(r + i - 1) \in Slot
BY CapacityAssumption DEF Slot, Wrap

\* An insertion keeps the elements in order, whether there is room or not.
LEMMA InsertionKeepsOrder ==
  ASSUME BInv, NEW k \in 1 .. NumElements, InsertElements(k)
  PROVE  /\ BInv'
         /\ written' = written + k
         /\ ElementsPending' = IF ElementsPending + k <= NumElements
                                 THEN ElementsPending + k ELSE ElementsPending
<1> USE CapacityAssumption DEF BInv, BufferTypes, Newest, Slot, Wrap
<1>1. /\ written' = written + k /\ written' \in Nat
      /\ WriteCounter' = Wrap(WriteCounter + k) /\ WriteCounter' \in Slot
  BY DEF InsertElements
<1>2. data' = [s \in Slot |-> IF Ahead(s) < k THEN written + Ahead(s) + 1 ELSE data[s]]
  BY DEF InsertElements
<1>3. \A s \in Slot : Ahead(s) \in Nat
  BY DEF Ahead
<1>4. data' \in [Slot -> Nat]
  BY <1>2, <1>3
<1>5. CASE ElementsPending + k <= NumElements
  <2>1. ReadCounter' = ReadCounter /\ ElementsPending' = ElementsPending + k
    BY <1>5 DEF InsertElements, Discard
  <2>2. WriteCounter' = Wrap(ReadCounter + ElementsPending')
    BY <1>1, <1>5, <2>1
  <2>3. ASSUME NEW i \in 1 .. ElementsPending'
        PROVE  data'[Wrap(ReadCounter + i - 1)] = written' - ElementsPending' + i
    <3>1. Wrap(ReadCounter + i - 1) \in Slot
      BY <1>5, <2>1
    <3>2. CASE i <= ElementsPending
      <4>1. Ahead(Wrap(ReadCounter + i - 1)) >= k
        BY <1>5, <3>2 DEF Ahead
      <4>2. data'[Wrap(ReadCounter + i - 1)] = data[Wrap(ReadCounter + i - 1)]
        BY <1>2, <1>3, <3>1, <4>1
      <4>3. i \in 1 .. ElementsPending
        BY <2>1, <3>2
      <4>4. data[Wrap(ReadCounter + i - 1)] = written - ElementsPending + i
        BY <4>3
      <4> QED
        BY <1>1, <2>1, <4>2, <4>4
    <3>3. CASE i > ElementsPending
      <4>1. Ahead(Wrap(ReadCounter + i - 1)) = i - 1 - ElementsPending
        BY <1>5, <2>1, <3>3 DEF Ahead
      <4> QED
        BY <1>1, <1>2, <2>1, <3>1, <3>3, <4>1
    <3> QED
      BY <2>1, <3>2, <3>3
  <2> QED
    BY <1>1, <1>4, <1>5, <2>1, <2>2, <2>3
<1>6. CASE ~(ElementsPending + k <= NumElements)
  <2>1. ReadCounter' = Wrap(ReadCounter + k) /\ ElementsPending' = ElementsPending
    BY <1>6 DEF InsertElements, Discard
  <2>2. ReadCounter' \in Slot /\ WriteCounter' = Wrap(ReadCounter' + ElementsPending)
    BY <1>1, <2>1
  <2>3. ASSUME NEW i \in 1 .. ElementsPending
        PROVE  data'[Wrap(ReadCounter' + i - 1)] = written' - ElementsPending + i
    <3>1. Wrap(ReadCounter' + i - 1) \in Slot
      <4>1. i \in 1 .. NumElements
        OBVIOUS
      <4> HIDE DEF Wrap, Slot
      <4> QED
        BY <2>2, <4>1, WrapInSlot
    <3>2. CASE i <= ElementsPending - k
      <4>1. /\ Ahead(Wrap(ReadCounter' + i - 1)) >= k
            /\ Wrap(ReadCounter' + i - 1) = Wrap(ReadCounter + (k + i) - 1)
        BY <1>6, <2>1, <3>2 DEF Ahead
      <4>2. data'[Wrap(ReadCounter' + i - 1)] = data[Wrap(ReadCounter' + i - 1)]
        BY <1>2, <1>3, <3>1, <4>1, SMTT(30)
      <4>3. k + i \in 1 .. ElementsPending
        BY <3>2
      <4>4. data[Wrap(ReadCounter + (k + i) - 1)] = written - ElementsPending + (k + i)
        BY <4>3
      <4> QED
        BY <1>1, <4>1, <4>2, <4>4
    <3>3. CASE i > ElementsPending - k
      <4>1. Ahead(Wrap(ReadCounter' + i - 1)) = k + i - 1 - ElementsPending
        BY <1>6, <2>1, <3>3 DEF Ahead
      <4> QED
        BY <1>1, <1>2, <3>1, <3>3, <4>1
    <3> QED
      BY <3>2, <3>3
  <2>4. BufferTypes'
    BY <1>1, <1>4, <2>1, <2>2
  <2>5. Newest'
    BY <1>1, <2>1, <2>2, <2>3
  <2> QED
    BY <1>1, <1>6, <2>1, <2>4, <2>5
<1> QED
  BY <1>1, <1>5, <1>6 DEF InsertElements, Discard

\* So does the reading of an element.
LEMMA ReadingKeepsOrder ==
  ASSUME BInv, GetElementCopy
  PROVE  BInv' /\ written' = written /\ ElementsPending' = ElementsPending - 1
<1> USE CapacityAssumption DEF BInv, BufferTypes, Newest, Slot, Wrap
<1>1. /\ ReadCounter' = Wrap(ReadCounter + 1) /\ ReadCounter' \in Slot
      /\ ElementsPending > 0 /\ ElementsPending' = ElementsPending - 1
      /\ UNCHANGED <<data, WriteCounter, written>>
  BY DEF GetElementCopy
<1>2. WriteCounter = Wrap(ReadCounter' + ElementsPending')
  BY <1>1
<1>3. ASSUME NEW i \in 1 .. ElementsPending'
      PROVE  data[Wrap(ReadCounter' + i - 1)] = written - ElementsPending' + i
  <2>1. Wrap(ReadCounter' + i - 1) = Wrap(ReadCounter + (i + 1) - 1)
    BY <1>1
  <2>2. i + 1 \in 1 .. ElementsPending
    BY <1>1
  <2>3. data[Wrap(ReadCounter + (i + 1) - 1)] = written - ElementsPending + (i + 1)
    BY <2>2
  <2> QED
    BY <1>1, <2>1, <2>3
<1> QED
  BY <1>1, <1>2, <1>3

-----------------------------------------------------------------------------
\* The initial state.
LEMMA InitInvariant == Init => IInv
<1> SUFFICES ASSUME Init PROVE IInv
  OBVIOUS
<1> USE CapacityAssumption, ReadAssumption, SignalsAssumption, BoundsAssumption
<1>1. BInv
  BY DEF Init, BufferInit, BInv, BufferTypes, Newest, Slot, Wrap
<1>2. Control
  BY DEF Init, BufferInit, Control, Terminate
<1> QED
  BY <1>1, <1>2 DEF IInv

\* The buffer stays in order.
LEMMA BufferStep ==
  ASSUME IInv, [Next]_vars
  PROVE  BInv'
<1>1. CASE UNCHANGED buffer
  BY <1>1 DEF IInv, BInv, BufferTypes, Newest, buffer, Wrap
<1>2. CASE \E k \in Batches : InsertElements(k)
  BY <1>2, BatchesAssumption, InsertionKeepsOrder DEF IInv
<1>3. CASE GetElementCopy
  BY <1>3, ReadingKeepsOrder DEF IInv
<1>4. UNCHANGED buffer \/ (\E k \in Batches : InsertElements(k)) \/ GetElementCopy
  BY DEF Next, OuterStep, InnerStep, Notify, WriteBatch, TerminateThread, Join, TestExitLoop,
         Block, Unblock, ReceiveSignal, ReadElement, EndStep, Ended, vars
<1> QED
  BY <1>1, <1>2, <1>3, <1>4

\* The other variables keep their types.
LEMMA ControlStep ==
  ASSUME IInv, [Next]_vars
  PROVE  Control'
<1> USE SignalsAssumption, ReadAssumption, CapacityAssumption
    DEF Control, IInv, condition, sender, receiver
<1>1. CASE Notify
  <2>1. UNCHANGED <<written, ExitLoop, rpc, received, count>>
    BY <1>1 DEF Notify, buffer
  <2>2. CASE UNCHANGED <<condition, steps>>
    BY <1>1, <2>1, <2>2 DEF Notify, SetSignal, WakeUp
  <2>3. CASE \E sig \in Signals : SetSignal(sig, "outputs", "wake")
    <3>1. PICK sig \in Signals : SetSignal(sig, "outputs", "wake")
      BY <2>3
    <3>2. signal' \in Int /\ notified' = notified + 1 /\ spc' = "wake" /\ spc = "outputs"
      BY <3>1 DEF SetSignal
    <3>3. steps' \in 0 .. MaxSteps /\ UNCHANGED woken
      BY <1>1, <3>2, BoundsAssumption DEF Notify, WakeUp
    <3> QED
      BY <2>1, <3>2, <3>3
  <2> QED
    BY <1>1, <2>2, <2>3 DEF Notify
<1>2. CASE WriteBatch
  <2>1. CASE UNCHANGED buffer
    BY <1>2, <2>1 DEF WriteBatch, buffer
  <2>2. CASE \E k \in Batches : written + k <= MaxWritten /\ InsertElements(k)
    <3>1. PICK k \in Batches : written + k <= MaxWritten /\ InsertElements(k)
      BY <2>2
    <3>2. k \in 1 .. NumElements
      BY BatchesAssumption
    <3>3. written' \in 0 .. MaxWritten
      BY <3>1, <3>2, BoundsAssumption DEF InsertElements
    <3> QED
      BY <1>2, <3>3 DEF WriteBatch
  <2> QED
    BY <1>2, <2>1, <2>2 DEF WriteBatch
<1>3. CASE TerminateThread
  BY <1>3 DEF TerminateThread, SetSignal, WakeUp, Terminate, buffer
<1>4. CASE Join
  BY <1>4 DEF Join, buffer
<1>5. CASE TestExitLoop
  BY <1>5 DEF TestExitLoop, buffer
<1>6. CASE Block
  BY <1>6 DEF Block, buffer
<1>7. CASE Unblock
  BY <1>7 DEF Unblock, buffer
<1>8. CASE ReceiveSignal
  BY <1>8 DEF ReceiveSignal, buffer
<1>9. CASE ReadElement
  BY <1>9 DEF ReadElement, GetElementCopy
<1>10. CASE EndStep
  BY <1>10 DEF EndStep, buffer
<1>11. CASE UNCHANGED vars
  BY <1>11 DEF vars, buffer
<1> QED
  BY <1>1, <1>2, <1>3, <1>4, <1>5, <1>6, <1>7, <1>8, <1>9, <1>10, <1>11
  DEF Next, OuterStep, InnerStep, Ended

\* The inductive invariant holds throughout.
THEOREM Invariant == Spec => []IInv
<1>1. IInv /\ [Next]_vars => IInv'
  BY BufferStep, ControlStep DEF IInv
<1> QED
  BY InitInvariant, <1>1, PTL DEF Spec

\* Every variable keeps its type, for any capacity, batches and bounds.
THEOREM TypeCorrect == Spec => []TypeOK
<1>1. IInv => TypeOK
  BY DEF IInv, BInv, BufferTypes, Control, TypeOK
<1> QED
  BY Invariant, <1>1, PTL

\* The pending elements are those written last, in their order.
THEOREM NewestPending == Spec => []Newest
<1>1. IInv => Newest
  BY DEF IInv, BInv
<1> QED
  BY Invariant, <1>1, PTL

-----------------------------------------------------------------------------
\* The ring buffer implements the queue that drops its oldest elements.
LEMMA QueueInit == Init => Queue!Init
BY DEF Init, BufferInit, Pending, Queue!Init

\* Every step is one of the queue, or changes nothing of it.
LEMMA QueueStep ==
  ASSUME IInv, IInv', [Next]_vars
  PROVE  [Queue!Next]_(Queue!vars)
<1> DEFINE P(n, w) == [i \in 1 .. n |-> w - n + i]
<1>1. Pending = P(ElementsPending, written) /\ Pending' = P(ElementsPending', written')
  <2>1. Pending = P(ElementsPending, written)
    BY PendingIsNewest DEF IInv
  <2>2. Pending' = P(ElementsPending', written')
    BY DEF IInv, BInv, Newest, Pending
  <2> QED
    BY <2>1, <2>2
<1>2. /\ ElementsPending \in 0 .. NumElements /\ written \in Nat /\ NumElements \in Nat
      /\ ElementsPending' \in Nat /\ written' \in Nat
  BY CapacityAssumption DEF IInv, BInv, BufferTypes
<1>3. Len(Pending) = ElementsPending
  BY <1>1, <1>2
<1>4. CASE UNCHANGED buffer
  BY <1>4, <1>1 DEF buffer, Queue!vars
<1>5. CASE \E k \in Batches : InsertElements(k)
  <2>1. PICK k \in 1 .. NumElements : InsertElements(k)
    BY <1>5, BatchesAssumption
  <2>2. /\ written' = written + k
        /\ ElementsPending' = IF ElementsPending + k <= NumElements
                                THEN ElementsPending + k ELSE ElementsPending
    BY <2>1, InsertionKeepsOrder DEF IInv
  <2>3. Queue!With(k) = [i \in 1 .. ElementsPending + k |-> written - ElementsPending + i]
    BY <1>1, <1>2, <1>3 DEF Queue!With
  <2>4. CASE ElementsPending + k <= NumElements
    <3>1. Pending' = Queue!With(k)
      BY <1>1, <1>2, <2>2, <2>3, <2>4
    <3> QED
      BY <1>3, <2>1, <2>2, <2>4, <3>1 DEF Queue!Next, Queue!Write
  <2>5. CASE ~(ElementsPending + k <= NumElements)
    <3>1. Pending' = [i \in 1 .. Len(Pending) |-> Queue!With(k)[i + k]]
      BY <1>1, <1>2, <1>3, <2>2, <2>3, <2>5
    <3> QED
      BY <1>3, <2>1, <2>2, <2>5, <3>1 DEF Queue!Next, Queue!Write
  <2> QED
    BY <2>4, <2>5
<1>6. CASE GetElementCopy
  <2>1. written' = written /\ ElementsPending' = ElementsPending - 1 /\ ElementsPending > 0
    BY <1>6, ReadingKeepsOrder DEF IInv, GetElementCopy
  <2>2. Pending # <<>>
    BY <1>2, <1>3, <2>1
  <2>3. Pending' = [i \in 1 .. Len(Pending) - 1 |-> Pending[i + 1]]
    BY <1>1, <1>2, <1>3, <2>1
  <2> QED
    BY <2>1, <2>2, <2>3 DEF Queue!Next, Queue!Read
<1>7. UNCHANGED buffer \/ (\E k \in Batches : InsertElements(k)) \/ GetElementCopy
  BY DEF Next, OuterStep, InnerStep, Notify, WriteBatch, TerminateThread, Join, TestExitLoop,
         Block, Unblock, ReceiveSignal, ReadElement, EndStep, Ended, vars
<1> QED
  BY <1>4, <1>5, <1>6, <1>7

\* The ring buffer between the two threads implements DroppingQueue.
THEOREM RingBufferIsQueue == Spec => QueueSpec
<1>1. IInv /\ IInv' /\ [Next]_vars => [Queue!Next]_(Queue!vars)
  BY QueueStep
<1> QED
  BY Invariant, QueueInit, <1>1, PTL DEF Spec, QueueSpec, Queue!Spec

-----------------------------------------------------------------------------
\* How the inner thread is woken and told to end.
LEMMA WakingStep ==
  ASSUME Control, NoLostWakeUp, LoopEnds, [Next]_vars
  PROVE  NoLostWakeUp' /\ LoopEnds'
<1> USE DEF Control, NoLostWakeUp, LoopEnds, condition, sender, receiver
<1>1. CASE Notify
  BY <1>1 DEF Notify, SetSignal, WakeUp
<1>2. CASE WriteBatch
  BY <1>2 DEF WriteBatch
<1>3. CASE TerminateThread
  BY <1>3 DEF TerminateThread, SetSignal, WakeUp, Terminate
<1>4. CASE Join
  BY <1>4 DEF Join
<1>5. CASE TestExitLoop
  BY <1>5 DEF TestExitLoop
<1>6. CASE Block
  BY <1>6 DEF Block
<1>7. CASE Unblock
  BY <1>7 DEF Unblock
<1>8. CASE ReceiveSignal
  BY <1>8 DEF ReceiveSignal
<1>9. CASE ReadElement
  BY <1>9 DEF ReadElement
<1>10. CASE EndStep
  BY <1>10 DEF EndStep
<1>11. CASE UNCHANGED vars
  BY <1>11 DEF vars
<1> QED
  BY <1>1, <1>2, <1>3, <1>4, <1>5, <1>6, <1>7, <1>8, <1>9, <1>10, <1>11
  DEF Next, OuterStep, InnerStep, Ended

\* The inner thread never sleeps on a signal, and when the outer one joins it,
\* it is not asleep for good.
THEOREM NoWakeUpIsLost == Spec => [](NoLostWakeUp /\ LoopEnds)
<1>1. Init => NoLostWakeUp /\ LoopEnds
  BY DEF Init, NoLostWakeUp, LoopEnds
<1>2. IInv /\ NoLostWakeUp /\ LoopEnds /\ [Next]_vars => (NoLostWakeUp /\ LoopEnds)'
  BY WakingStep DEF IInv
<1> QED
  BY Invariant, <1>1, <1>2, PTL DEF Spec

\* The steps the inner thread has before it, once it is told to end.
ToGo ==
  CASE rpc = "blocked" -> ElementsToRead + 4
    [] rpc = "wait" -> ElementsToRead + 3
    [] rpc = "step" -> ElementsToRead - count + 2
    [] rpc = "test" -> 1
    [] OTHER -> 0

\* The destruction does not join in vain: the inner thread is not asleep for
\* good, and has fewer steps to go after each, whatever its step still reads.
\* This is the safety part of NotificationServed for the last notification.
THEOREM JoinMakesProgress ==
  Spec => /\ [](spc = "join" /\ rpc = "blocked" => woken = 1)
          /\ [](ToGo \in Nat)
          /\ [][spc = "join" /\ (InnerStep \/ Unblock) => ToGo' < ToGo]_vars
<1>1. IInv /\ NoLostWakeUp /\ LoopEnds => (spc = "join" /\ rpc = "blocked" => woken = 1)
  BY DEF IInv, Control, NoLostWakeUp, LoopEnds
<1>2. IInv => ToGo \in Nat
  BY ReadAssumption, CapacityAssumption DEF IInv, Control, ToGo
<1>3. IInv /\ LoopEnds => [spc = "join" /\ (InnerStep \/ Unblock) => ToGo' < ToGo]_vars
  <2> SUFFICES ASSUME IInv, LoopEnds, spc = "join", InnerStep \/ Unblock
               PROVE  ToGo' < ToGo
    OBVIOUS
  <2>0. count \in 0 .. ElementsToRead /\ ElementsToRead \in Nat
    BY ReadAssumption, CapacityAssumption DEF IInv, Control
  <2>1. CASE TestExitLoop
    BY <2>1 DEF TestExitLoop, LoopEnds, ToGo
  <2>2. CASE ReceiveSignal
    BY <2>0, <2>2 DEF ReceiveSignal, receiver, ToGo
  <2>3. CASE ReadElement
    BY <2>0, <2>3 DEF ReadElement, ToGo
  <2>4. CASE EndStep
    BY <2>0, <2>4 DEF EndStep, ToGo
  <2>5. CASE Unblock
    BY <2>0, <2>5 DEF Unblock, ToGo
  <2>6. ~Block
    BY DEF Block, LoopEnds
  <2> QED
    BY <2>1, <2>2, <2>3, <2>4, <2>5, <2>6 DEF InnerStep
<1> QED
  BY <1>1, <1>2, <1>3, Invariant, NoWakeUpIsLost, PTL
=============================================================================

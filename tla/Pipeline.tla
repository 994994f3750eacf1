------------------------------ MODULE Pipeline ------------------------------
(***************************************************************************)
(* Two simulations in two threads: the outer one writes batches to a ring  *)
(* buffer and notifies the inner one, which runs in a thread of            *)
(* async_simulationBlock (nested_block.cpp) and is synchronised by the     *)
(* block RecvNotifications: it waits for a notification, makes a step, in  *)
(* which it reads from the ring buffer, and waits again                    *)
(* (modules/synchronisation/sync_main.cpp).                                *)
(*                                                                         *)
(* A step of the outer simulation notifies while it computes outputs and   *)
(* writes while it updates states: a batch comes after the notification of *)
(* the same step.  Between two steps the outer simulation may destruct the *)
(* block that contains the inner one.                                      *)
(*                                                                         *)
(* Notifications are numbered, 0 being the initial value of signal.        *)
(***************************************************************************)
EXTENDS RingBuffer

CONSTANTS
  Batches,          (* the sizes of the write blocks                         *)
  ElementsToRead,   (* by a read block in one step                           *)
  Signals,          (* the inputs of ThreadNotify                            *)
  MaxSteps,         (* bound on the steps of the outer simulation            *)
  MaxWritten        (* bound on the elements written                         *)

ASSUME BatchesAssumption == Batches \subseteq 1 .. NumElements
ASSUME ReadAssumption == ElementsToRead \in 1 .. NumElements
ASSUME SignalsAssumption == Signals \subseteq Int
ASSUME BoundsAssumption == MaxSteps \in Nat /\ MaxWritten \in Nat

Terminate == -1   (* sent by the destruction                                 *)

VARIABLES
  \* ThreadNotify_SharedObject
  signal,
  notified,     (* number of notifications                                   *)
  \* outer thread
  spc,          (* what it does next                                         *)
  steps,
  \* inner thread
  ExitLoop,
  rpc,          (* what it does next                                         *)
  woken,        (* pthread_cond_wait returns                                 *)
  received,     (* number of the notification it received last               *)
  count         (* elements read in the present step                         *)

condition == <<signal, notified>>
sender    == <<spc, steps, ExitLoop>>
receiver  == <<rpc, received, count>>
vars      == <<buffer, condition, sender, receiver, woken>>

\* signal is not initialised: it may be anything.
Init ==
  /\ BufferInit
  /\ signal \in Signals \union {0, Terminate} /\ notified = 0
  /\ spc = "outputs" /\ steps = 0
  /\ ExitLoop = 0 /\ rpc = "test" /\ woken = 0 /\ received = 0 /\ count = 0

-----------------------------------------------------------------------------
(* The outer thread                                                        *)

\* The critical section of notify.  A notification that was not received yet
\* is replaced, by 0 too.
SetSignal(sig, from, to) ==
  /\ spc = from /\ spc' = to
  /\ signal' = sig /\ notified' = notified + 1

\* pthread_cond_signal, after it.
WakeUp(from, to) ==
  /\ spc = from /\ spc' = to
  /\ woken' = IF rpc = "blocked" THEN 1 ELSE woken

\* calcOutputs of ThreadNotify_Block.
Notify ==
  /\ \/ /\ steps < MaxSteps /\ steps' = steps + 1
        /\ \E sig \in Signals : SetSignal(sig, "outputs", "wake")
        /\ UNCHANGED woken
     \/ WakeUp("wake", "update") /\ UNCHANGED <<condition, steps>>
  /\ UNCHANGED <<buffer, ExitLoop, receiver>>

\* updateStates of the write blocks.  Those in nested simulations are executed
\* in some steps only, and several times within a for loop.
WriteBatch ==
  /\ spc = "update"
  /\ \/ spc' = "outputs" /\ UNCHANGED buffer
     \/ UNCHANGED spc /\ \E k \in Batches : written + k <= MaxWritten /\ InsertElements(k)
  /\ UNCHANGED <<condition, steps, ExitLoop, receiver, woken>>

\* Mutant: the loop is left to end after the notification.
NotifyFirst ==
  /\ \/ /\ spc = "outputs" /\ spc' = "terminate" /\ UNCHANGED <<condition, woken, ExitLoop>>
     \/ SetSignal(Terminate, "terminate", "wake_last") /\ UNCHANGED <<woken, ExitLoop>>
     \/ WakeUp("wake_last", "join") /\ ExitLoop' = 1 /\ UNCHANGED condition
  /\ UNCHANGED <<buffer, steps, receiver>>

\* SyncDestructorCallback: ExitLoop is set and the inner thread notified.
TerminateThread ==
  /\ \/ /\ spc = "outputs" /\ spc' = "terminate" /\ ExitLoop' = 1
        /\ UNCHANGED <<condition, woken>>
     \/ SetSignal(Terminate, "terminate", "wake_last") /\ UNCHANGED <<woken, ExitLoop>>
     \/ WakeUp("wake_last", "join") /\ UNCHANGED <<condition, ExitLoop>>
  /\ UNCHANGED <<buffer, steps, receiver>>

\* pthread_join
Join ==
  /\ spc = "join" /\ rpc = "exited" /\ spc' = "gone"
  /\ UNCHANGED <<buffer, condition, steps, ExitLoop, receiver, woken>>

-----------------------------------------------------------------------------
(* The inner thread                                                        *)

\* while (!ExitLoop) of SyncCallback.
TestExitLoop ==
  /\ rpc = "test"
  /\ rpc' = IF ExitLoop = 1 THEN "exited" ELSE "wait"
  /\ UNCHANGED <<buffer, condition, sender, received, count, woken>>

\* Mutant: the thread waits although there is a signal already.
BlockFirst ==
  /\ rpc = "wait"
  /\ rpc' = "blocked" /\ woken' = 0
  /\ UNCHANGED <<buffer, condition, sender, received, count>>

\* WaitForSignal: with no signal pthread_cond_wait is called, which is left
\* when it is signalled, or without reason.
Block ==
  /\ rpc = "wait" /\ signal = 0
  /\ rpc' = "blocked" /\ woken' = 0
  /\ UNCHANGED <<buffer, condition, sender, received, count>>

Unblock ==
  /\ rpc = "blocked" /\ rpc' = "wait"
  /\ UNCHANGED <<buffer, condition, sender, received, count, woken>>

ReceiveSignal ==
  /\ rpc = "wait" /\ signal # 0
  /\ rpc' = "step"
  /\ signal' = 0 /\ received' = notified
  /\ UNCHANGED <<buffer, notified, sender, count, woken>>

\* The step of the inner simulation: the read block takes one element after the
\* other until it has enough of them or there are no more.
ReadElement ==
  /\ rpc = "step" /\ count < ElementsToRead
  /\ GetElementCopy
  /\ count' = count + 1
  /\ UNCHANGED <<condition, sender, rpc, received, woken>>

EndStep ==
  /\ rpc = "step"
  /\ BufferEmpty \/ count = ElementsToRead
  /\ rpc' = "test" /\ count' = 0
  /\ UNCHANGED <<buffer, condition, sender, received, woken>>

-----------------------------------------------------------------------------
OuterStep == Notify \/ WriteBatch \/ TerminateThread \/ Join

InnerStep == TestExitLoop \/ Block \/ ReceiveSignal \/ ReadElement \/ EndStep

\* The outer simulation is gone, or makes no more steps.
Ended == spc \in {"outputs", "update", "gone"} /\ UNCHANGED vars

Next == OuterStep \/ InnerStep \/ Unblock \/ Ended

\* Both threads go on; the outer one need not begin a step or the destruction.
\* A spurious wake-up cannot be relied on.
Spec ==
  /\ Init /\ [][Next]_vars
  /\ WF_vars(spc \notin {"outputs", "update"} /\ OuterStep)
  /\ WF_vars(InnerStep)
  /\ WF_vars(woken = 1 /\ Unblock)

-----------------------------------------------------------------------------
TypeOK ==
  /\ data \in [Slot -> Nat] /\ ReadCounter \in Slot /\ WriteCounter \in Slot
  /\ ElementsPending \in 0 .. NumElements /\ written \in 0 .. MaxWritten
  /\ signal \in Int /\ notified \in Nat
  /\ spc \in {"outputs", "wake", "update", "terminate", "wake_last", "join", "gone"}
  /\ steps \in 0 .. MaxSteps
  /\ ExitLoop \in {0, 1} /\ woken \in {0, 1}
  /\ rpc \in {"test", "wait", "blocked", "step", "exited"}
  /\ received \in 0 .. notified /\ count \in 0 .. ElementsToRead

\* The ring buffer is a queue that drops its oldest elements: however writes,
\* overflows and reads interleave, what is read next is the oldest of the
\* pending elements, in the order they were written and without a gap.
Queue == INSTANCE DroppingQueue WITH Capacity <- NumElements, queue <- Pending, written <- written
QueueSpec == Queue!Spec

\* A notification of 0 has withdrawn the one before.
Withdrawn == signal = 0 /\ received < notified

\* A notification or one that replaced it is received, even if it comes before
\* the thread waits (the doubt noted in WaitForSignal), unless the last one is 0
\* or the thread ends; and the one the destruction sends ends it.
NotificationServed ==
  /\ \A n \in 1 .. MaxSteps :
       notified = n /\ signal # 0 ~> received >= n \/ Withdrawn \/ rpc = "exited"
  /\ spc = "join" ~> rpc = "exited"

\* "the signal to send. If zero no signal is send": a notification that was
\* sent is pending until it is received.
PendingUntilReceived ==
  [][notified > 0 /\ signal # 0 /\ signal' = 0 => received' = notified]_vars
=============================================================================

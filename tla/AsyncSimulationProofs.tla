------------------------ MODULE AsyncSimulationProofs ------------------------
(***************************************************************************)
(* Proofs about the asynchronous nested simulation, for any size of the    *)
(* result and any number of triggers.                                      *)
(*                                                                         *)
(* The idea: a schematic that waits for comp_finished has one computation  *)
(* under way at most.  While the flag is set no trigger is in flight and   *)
(* the thread does not compute, and only the outer thread itself clears    *)
(* the flag, after it has copied: the flag acts as a token that passes the *)
(* result between the threads.                                             *)
(***************************************************************************)
EXTENDS AsyncSimulation, TLAPS

Computing == tpc \in {"outputs", "states", "reset", "finish"}

\* The block is about to be destroyed; the signal to terminate may have
\* overwritten a trigger.
Ending == opc \in {"join", "gone"} \/ (opc \in {"send", "notify"} /\ signal = -1)

\* The protocol of the outer thread, and the end of the other one.
Protocol ==
  /\ opc = "copy" => copy = 1
  /\ opc \in {"copy", "update"} /\ copy = 1 => finished = 1
  /\ opc \in {"send", "notify"} => signal # 0
  /\ opc = "send" /\ signal = 1 => triggered < MaxTriggers
  /\ opc # "copy" => opart = 1
  /\ tpc # "outputs" => tpart = 1
  /\ condsignal = -1 \/ tpc = "exited" => Ending /\ opc # "send"

\* The nested schematic leaves its initial state between the update of its
\* states and its reset only.
Clean == tpc # "reset" => clean

\* One computation at most, and the flag as a token.
OneComputation ==
  /\ triggered = 0 => condsignal # 1 /\ ~Computing /\ finished = 0
  /\ opc = "send" /\ signal = 1 => condsignal = 0 /\ ~Computing /\ finished = 0
  /\ condsignal = 1 => ~Computing /\ finished = 0 /\ started = triggered - 1
  /\ Computing => finished = 0
  /\ condsignal # 1 /\ ~Ending => started = triggered

\* What piece p of the outputs shows with comp_finished.
Shown(p) == IF p \in Rewritten THEN 0 ELSE triggered

\* Which computation the pieces of the result and of the outputs stem from.
Pieces ==
  /\ tpc = "outputs" => \A p \in Part \ Rewritten : p < tpart => result[p] = started
  /\ tpc \in {"states", "reset", "finish"} \/ finished = 1
       => \A p \in Part \ Rewritten : result[p] = started
  /\ tpc = "finish" \/ finished = 1 => \A p \in Part \intersect Rewritten : result[p] = 0
  /\ opc = "copy" => \A p \in Part : p < opart => out[p] = Shown(p)
  /\ opc = "update" /\ copy = 1 => \A p \in Part : out[p] = Shown(p)

IInv == TypeOK /\ Protocol /\ Clean /\ (patient => OneComputation /\ Pieces)

-----------------------------------------------------------------------------

\* The block as it was created.
LEMMA InitInvariant == Init => IInv
<1> SUFFICES ASSUME Init PROVE IInv
  OBVIOUS
<1>1. TypeOK
  BY PartsAssumption, TriggerAssumption DEF Init, TypeOK, Part
<1>2. Protocol
  BY DEF Init, Protocol, Ending
<1>3. Clean
  BY DEF Init, Clean
<1>4. OneComputation /\ Pieces
  BY DEF Init, OneComputation, Pieces, Computing, Ending
<1> QED BY <1>1, <1>2, <1>3, <1>4 DEF IInv

\* Type correctness is kept.
LEMMA TypeOKStep ==
  ASSUME IInv, [Next]_vars
  PROVE  TypeOK'
<1> USE PartsAssumption, TriggerAssumption DEF shared, outer, thread, IInv, TypeOK, Protocol, Part
<1>1. CASE CalcOutputs
  BY <1>1 DEF CalcOutputs
<1>2. CASE CopyResult
  BY <1>2, SMTT(30) DEF CopyResult
<1>3. CASE NoTrigger
  BY <1>3 DEF NoTrigger
<1>4. CASE Trigger
  BY <1>4 DEF Trigger
<1>5. CASE ResetStates
  BY <1>5 DEF ResetStates, ResetResult
<1>6. CASE Destruct
  BY <1>6 DEF Destruct
<1>7. CASE SetSignal
  BY <1>7 DEF SetSignal
<1>8. CASE NotifyThread
  BY <1>8 DEF NotifyThread
<1>9. CASE Join
  BY <1>9 DEF Join
<1>10. CASE TestSignal
  BY <1>10, SMTT(30) DEF TestSignal
<1>11. CASE SpuriousWakeup
  BY <1>11 DEF SpuriousWakeup
<1>12. CASE ComputeOutputs
  <2>1. result' \in [Part -> Nat]
    BY <1>12 DEF ComputeOutputs
  <2>2. tpart' \in Part /\ tpc' \in {"outputs", "states"}
    BY <1>12, SMTT(30) DEF ComputeOutputs
  <2> QED BY <1>12, <2>1, <2>2 DEF ComputeOutputs
<1>13. CASE UpdateStates
  BY <1>13 DEF UpdateStates
<1>14. CASE ResetBlocks
  BY <1>14 DEF ResetBlocks, ResetResult
<1>15. CASE Finish
  BY <1>15 DEF Finish
<1>16. CASE UNCHANGED vars
  BY <1>16 DEF vars
<1> QED BY <1>1, <1>2, <1>3, <1>4, <1>5, <1>6, <1>7, <1>8,
          <1>9, <1>10, <1>11, <1>12, <1>13, <1>14, <1>15, <1>16
       DEF Next, OuterStep, ThreadStep, Gone

\* The protocol of the two threads is kept.
LEMMA ProtocolStep ==
  ASSUME IInv, [Next]_vars
  PROVE  Protocol'
<1> USE DEF shared, outer, thread, IInv, TypeOK, Protocol, Ending
<1>1. CASE CalcOutputs
  BY <1>1 DEF CalcOutputs
<1>2. CASE CopyResult
  BY <1>2 DEF CopyResult
<1>3. CASE NoTrigger
  BY <1>3 DEF NoTrigger
<1>4. CASE Trigger
  BY <1>4 DEF Trigger
<1>5. CASE ResetStates
  BY <1>5 DEF ResetStates
<1>6. CASE Destruct
  BY <1>6 DEF Destruct
<1>7. CASE SetSignal
  BY <1>7 DEF SetSignal
<1>8. CASE NotifyThread
  BY <1>8 DEF NotifyThread
<1>9. CASE Join
  BY <1>9 DEF Join
<1>10. CASE TestSignal
  BY <1>10 DEF TestSignal
<1>11. CASE SpuriousWakeup
  BY <1>11 DEF SpuriousWakeup
<1>12. CASE ComputeOutputs
  BY <1>12 DEF ComputeOutputs
<1>13. CASE UpdateStates
  BY <1>13 DEF UpdateStates
<1>14. CASE ResetBlocks
  BY <1>14 DEF ResetBlocks
<1>15. CASE Finish
  BY <1>15 DEF Finish
<1>16. CASE UNCHANGED vars
  BY <1>16 DEF vars
<1> QED BY <1>1, <1>2, <1>3, <1>4, <1>5, <1>6, <1>7, <1>8,
          <1>9, <1>10, <1>11, <1>12, <1>13, <1>14, <1>15, <1>16
       DEF Next, OuterStep, ThreadStep, Gone

\* Every computation is followed by a reset.
LEMMA CleanStep ==
  ASSUME IInv, [Next]_vars
  PROVE  Clean'
<1> USE DEF shared, outer, thread, IInv, TypeOK, Clean
<1>1. CASE CalcOutputs
  BY <1>1 DEF CalcOutputs
<1>2. CASE CopyResult
  BY <1>2 DEF CopyResult
<1>3. CASE NoTrigger
  BY <1>3 DEF NoTrigger
<1>4. CASE Trigger
  BY <1>4 DEF Trigger
<1>5. CASE ResetStates
  BY <1>5 DEF ResetStates
<1>6. CASE Destruct
  BY <1>6 DEF Destruct
<1>7. CASE SetSignal
  BY <1>7 DEF SetSignal
<1>8. CASE NotifyThread
  BY <1>8 DEF NotifyThread
<1>9. CASE Join
  BY <1>9 DEF Join
<1>10. CASE TestSignal
  BY <1>10 DEF TestSignal
<1>11. CASE SpuriousWakeup
  BY <1>11 DEF SpuriousWakeup
<1>12. CASE ComputeOutputs
  BY <1>12 DEF ComputeOutputs
<1>13. CASE UpdateStates
  BY <1>13 DEF UpdateStates
<1>14. CASE ResetBlocks
  BY <1>14 DEF ResetBlocks
<1>15. CASE Finish
  BY <1>15 DEF Finish
<1>16. CASE UNCHANGED vars
  BY <1>16 DEF vars
<1> QED BY <1>1, <1>2, <1>3, <1>4, <1>5, <1>6, <1>7, <1>8,
          <1>9, <1>10, <1>11, <1>12, <1>13, <1>14, <1>15, <1>16
       DEF Next, OuterStep, ThreadStep, Gone

\* A trigger that waits for the flag finds no other computation under way.
LEMMA OneComputationStep ==
  ASSUME IInv, patient, Protocol', [Next]_vars
  PROVE  OneComputation'
<1> USE DEF shared, outer, thread, IInv, TypeOK, Protocol, OneComputation, Computing, Ending
<1>1. CASE CalcOutputs
  BY <1>1 DEF CalcOutputs
<1>2. CASE CopyResult
  BY <1>2 DEF CopyResult
<1>3. CASE NoTrigger
  BY <1>3 DEF NoTrigger
<1>4. CASE Trigger
  BY <1>4 DEF Trigger
<1>5. CASE ResetStates
  BY <1>5 DEF ResetStates
<1>6. CASE Destruct
  BY <1>6 DEF Destruct
<1>7. CASE SetSignal
  BY <1>7 DEF SetSignal
<1>8. CASE NotifyThread
  BY <1>8 DEF NotifyThread
<1>9. CASE Join
  BY <1>9 DEF Join
<1>10. CASE TestSignal
  BY <1>10 DEF TestSignal
<1>11. CASE SpuriousWakeup
  BY <1>11 DEF SpuriousWakeup
<1>12. CASE ComputeOutputs
  BY <1>12 DEF ComputeOutputs
<1>13. CASE UpdateStates
  BY <1>13 DEF UpdateStates
<1>14. CASE ResetBlocks
  BY <1>14 DEF ResetBlocks
<1>15. CASE Finish
  BY <1>15 DEF Finish
<1>16. CASE UNCHANGED vars
  BY <1>16 DEF vars
<1> QED BY <1>1, <1>2, <1>3, <1>4, <1>5, <1>6, <1>7, <1>8,
          <1>9, <1>10, <1>11, <1>12, <1>13, <1>14, <1>15, <1>16
       DEF Next, OuterStep, ThreadStep, Gone

\* Results are computed and copied in turn.
LEMMA PiecesStep ==
  ASSUME IInv, patient, TypeOK', Protocol', OneComputation', [Next]_vars
  PROVE  Pieces'
<1> USE PartsAssumption DEF shared, outer, thread, IInv, TypeOK, Protocol, OneComputation,
                            Pieces, Shown, Computing, Ending, Part
<1>1. CASE CalcOutputs
  BY <1>1 DEF CalcOutputs
<1>2. CASE CopyResult
  BY <1>2 DEF CopyResult
<1>3. CASE NoTrigger
  BY <1>3 DEF NoTrigger
<1>4. CASE Trigger
  BY <1>4 DEF Trigger
<1>5. CASE ResetStates
  BY <1>5 DEF ResetStates, ResetResult
<1>6. CASE Destruct
  BY <1>6 DEF Destruct
<1>7. CASE SetSignal
  BY <1>7 DEF SetSignal
<1>8. CASE NotifyThread
  BY <1>8 DEF NotifyThread
<1>9. CASE Join
  BY <1>9 DEF Join
<1>10. CASE TestSignal
  BY <1>10 DEF TestSignal
<1>11. CASE SpuriousWakeup
  BY <1>11 DEF SpuriousWakeup
<1>12. CASE ComputeOutputs
  BY <1>12 DEF ComputeOutputs
<1>13. CASE UpdateStates
  BY <1>13 DEF UpdateStates
<1>14. CASE ResetBlocks
  BY <1>14 DEF ResetBlocks, ResetResult
<1>15. CASE Finish
  BY <1>15 DEF Finish
<1>16. CASE UNCHANGED vars
  BY <1>16 DEF vars
<1> QED BY <1>1, <1>2, <1>3, <1>4, <1>5, <1>6, <1>7, <1>8,
          <1>9, <1>10, <1>11, <1>12, <1>13, <1>14, <1>15, <1>16
       DEF Next, OuterStep, ThreadStep, Gone


-----------------------------------------------------------------------------

\* Every step of either thread keeps the invariant.
LEMMA StepInvariant == IInv /\ [Next]_vars => IInv'
<1> SUFFICES ASSUME IInv, [Next]_vars PROVE IInv'
  OBVIOUS
<1>1. TypeOK' /\ Protocol' /\ Clean'
  BY TypeOKStep, ProtocolStep, CleanStep
<1>2. patient' <=> patient
  BY DEF Next, OuterStep, ThreadStep, Gone, vars, CalcOutputs, CopyResult, NoTrigger, Trigger,
         ResetStates, Destruct, SetSignal, NotifyThread, Join, TestSignal, SpuriousWakeup,
         ComputeOutputs, UpdateStates, ResetBlocks, Finish
<1>3. ASSUME patient PROVE OneComputation' /\ Pieces'
  <2>1. OneComputation'
    BY <1>1, <1>3, OneComputationStep
  <2> QED BY <1>1, <1>3, <2>1, PiecesStep
<1> QED BY <1>1, <1>2, <1>3 DEF IInv

\* The inductive invariant holds in every reachable state.
THEOREM Invariance == Spec => []IInv
BY InitInvariant, StepInvariant, PTL DEF Spec

\* Type correctness of flags, signals and results.
THEOREM TypeCorrect == Spec => []TypeOK
<1>1. IInv => TypeOK
  BY DEF IInv
<1> QED BY <1>1, Invariance, PTL

\* A schematic that waits for comp_finished sees, with the flag, the whole
\* result of its latest trigger, but for the outputs that a reset of the nested
\* schematic writes, for results of any size and any set of such outputs.
THEOREM WholeResults == Spec => []ResultOfLatestTrigger
<1>1. IInv => ResultOfLatestTrigger
  <2> SUFFICES ASSUME IInv, patient, opc = "update", copy = 1
               PROVE  out = [p \in Part |-> IF p \in Rewritten THEN 0 ELSE triggered]
    BY DEF ResultOfLatestTrigger
  <2>1. out \in [Part -> Nat] /\ \A p \in Part : out[p] = Shown(p)
    BY DEF IInv, TypeOK, Pieces
  <2> QED BY <2>1 DEF Shown
<1> QED BY <1>1, Invariance, PTL

\* Such a schematic does not copy while the thread computes, though no mutex
\* excludes it.
THEOREM CopyApart == Spec => []NoCopyDuringComputation
<1>1. IInv => NoCopyDuringComputation
  <2> SUFFICES ASSUME IInv, patient, opc = "copy"
               PROVE  tpc \in {"test", "waiting"} /\ condsignal = 0
    BY DEF NoCopyDuringComputation
  <2>1. finished = 1 /\ ~Ending
    BY DEF IInv, Protocol, Ending
  <2>2. condsignal # 1 /\ ~Computing
    BY <2>1 DEF IInv, OneComputation
  <2>3. condsignal # -1 /\ tpc # "exited"
    BY <2>1 DEF IInv, Protocol
  <2> QED BY <2>2, <2>3 DEF IInv, TypeOK, Computing
<1> QED BY <1>1, Invariance, PTL

\* Every computation starts from the initial state of the nested schematic,
\* whoever resets it and whenever.
THEOREM FreshStart == Spec => []StartsFromReset
<1>1. IInv => StartsFromReset
  BY DEF IInv, Clean, StartsFromReset
<1> QED BY <1>1, Invariance, PTL

-----------------------------------------------------------------------------

\* The thread sleeps over a signal only until the outer thread, which has set
\* it, notifies; and it has the signal to terminate before it, or is gone, when
\* the outer thread waits for its end.
Wakeful ==
  /\ tpc = "waiting" /\ condsignal # 0 => opc = "notify"
  /\ opc = "join" \/ (opc = "notify" /\ signal = -1) => condsignal = -1 \/ tpc = "exited"

\* The latest trigger is a signal still to be taken, or is being served, or has
\* been served, until the block is destroyed.
TriggerPending ==
  condsignal # -1 /\ tpc # "exited" =>
    condsignal = 1 \/ (IF Computing THEN serving = triggered ELSE served = triggered)

\* Both are kept by every step, of schematics that wait and of others.
LEMMA PendingStep ==
  IInv /\ Wakeful /\ TriggerPending /\ [Next]_vars => Wakeful' /\ TriggerPending'
<1> SUFFICES ASSUME IInv, Wakeful, TriggerPending, [Next]_vars
             PROVE  Wakeful' /\ TriggerPending'
  OBVIOUS
<1> USE DEF shared, outer, thread, Wakeful, TriggerPending, Computing
<1>0. /\ condsignal \in {-1, 0, 1} /\ signal \in {-1, 0, 1}
      /\ opc \in {"send", "notify"} => signal # 0
      /\ condsignal = -1 \/ tpc = "exited" => Ending /\ opc # "send"
  BY DEF IInv, TypeOK, Protocol
<1>1. CASE CalcOutputs \/ CopyResult \/ NoTrigger \/ Trigger \/ ResetStates \/ Destruct
  BY <1>1 DEF CalcOutputs, CopyResult, NoTrigger, Trigger, ResetStates, Destruct
<1>2. CASE SetSignal
  BY <1>0, <1>2 DEF SetSignal
<1>3. CASE NotifyThread
  BY <1>0, <1>3 DEF NotifyThread
<1>4. CASE Join
  BY <1>4 DEF Join
<1>5. CASE TestSignal
  BY <1>0, <1>5 DEF TestSignal
<1>6. CASE SpuriousWakeup
  BY <1>6 DEF SpuriousWakeup
<1>7. CASE ComputeOutputs \/ UpdateStates \/ ResetBlocks
  BY <1>7 DEF ComputeOutputs, UpdateStates, ResetBlocks
<1>8. CASE Finish
  BY <1>8 DEF Finish
<1>9. CASE UNCHANGED vars
  BY <1>9 DEF vars
<1> QED BY <1>1, <1>2, <1>3, <1>4, <1>5, <1>6, <1>7, <1>8, <1>9
        DEF Next, OuterStep, ThreadStep, Gone

\* No trigger and no signal to terminate is lost, though the one variable for
\* both is overwritten: the safety part of TriggerServed.
THEOREM NoTriggerLost == Spec => [](Wakeful /\ TriggerPending)
<1>1. Init => Wakeful /\ TriggerPending
  BY DEF Init, Wakeful, TriggerPending
<1> QED BY <1>1, PendingStep, Invariance, PTL DEF Spec

\* The steps the thread has before it until it looks for a signal again.
ToGo ==
  CASE tpc = "outputs" -> Parts - tpart + 5
    [] tpc = "states" -> 4
    [] tpc = "reset" -> 3
    [] tpc = "finish" -> 2
    [] tpc \in {"test", "waiting"} -> 1
    [] OTHER -> 0

\* The destruction of the block does not wait in vain: while it waits, the
\* thread does not sleep, and has fewer steps to go after each.  This is the
\* safety part of DestructReturns.
THEOREM DestructMakesProgress ==
  Spec => /\ [](opc = "join" => tpc # "waiting")
          /\ [](ToGo \in Nat)
          /\ [][opc = "join" /\ ThreadStep => ToGo' < ToGo]_vars
<1>1. IInv /\ Wakeful => (opc = "join" => tpc # "waiting")
  BY DEF Wakeful
<1>2. IInv => ToGo \in Nat
  BY PartsAssumption DEF IInv, TypeOK, Part, ToGo
<1>3. IInv /\ Wakeful => [opc = "join" /\ ThreadStep => ToGo' < ToGo]_vars
  <2> SUFFICES ASSUME IInv, Wakeful, opc = "join", ThreadStep PROVE ToGo' < ToGo
    OBVIOUS
  <2>0. tpart \in 1 .. Parts /\ Parts \in Nat /\ condsignal \in {-1, 0, 1}
    BY PartsAssumption DEF IInv, TypeOK, Part
  <2>1. CASE TestSignal
    BY <2>0, <2>1 DEF TestSignal, Wakeful, ToGo
  <2>2. CASE ComputeOutputs
    BY <2>0, <2>2 DEF ComputeOutputs, ToGo
  <2>3. CASE UpdateStates
    BY <2>3 DEF UpdateStates, ToGo
  <2>4. CASE ResetBlocks
    BY <2>4 DEF ResetBlocks, ToGo
  <2>5. CASE Finish
    BY <2>5 DEF Finish, ToGo
  <2> QED BY <2>1, <2>2, <2>3, <2>4, <2>5 DEF ThreadStep
<1> QED BY <1>1, <1>2, <1>3, NoTriggerLost, Invariance, PTL
=============================================================================

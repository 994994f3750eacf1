---------------------------- MODULE AsyncSimulation ----------------------------
(***************************************************************************)
(* A nested schematic that computes in a thread of its own, started by a   *)
(* trigger input: async_simulationBlock of modules/nested/nested_block.cpp *)
(* in its ThreadingMode 1 (the nested schematic is not synchronised).      *)
(*                                                                         *)
(* The outer thread executes the schematic the block is part of.  In every *)
(* step of it the block first copies the results, if the flag              *)
(* CompuatationFinished is set, and then, if triggered, clears the flag    *)
(* and sends a signal to the thread.  The thread takes the signal, runs    *)
(* one step of the nested schematic, resets it and sets the flag.          *)
(*                                                                         *)
(* The signal (condsignal) and the flag have a mutex each; the results and *)
(* the nested schematic itself have none that both threads use.  A result  *)
(* is a vector; it is computed and copied in Parts pieces, and a piece is  *)
(* represented by the number of the computation it stems from.  The        *)
(* results are the output buffers of nested blocks, which the reset of     *)
(* some blocks writes: their pieces are then 0.                            *)
(***************************************************************************)
EXTENDS Integers

CONSTANTS
  Parts,       (* pieces of the result                                       *)
  Rewritten,   (* those that a reset of the nested schematic writes          *)
  MaxTriggers  (* bound on the number of triggers                            *)

ASSUME PartsAssumption == Parts \in Nat \ {0}
ASSUME RewrittenAssumption == Rewritten \subseteq 1 .. Parts
ASSUME TriggerAssumption == MaxTriggers \in Nat

VARIABLES
  patient,    (* the schematic triggers only when it has seen the flag, or   *)
              (* for the first time                                          *)
  condsignal,
  finished,   (* CompuatationFinished                                        *)
  \* the outer thread
  opc,        (* what it does next                                           *)
  copy,       (* CompuatationFinishedCopy, the block's output comp_finished  *)
  opart,      (* the piece it copies next                                    *)
  out,        (* the outputs of the block                                    *)
  signal,     (* the argument of SendSignalToThread                          *)
  triggered,  (* number of triggers sent                                     *)
  \* the thread
  tpc,        (* what it does next                                           *)
  tpart,      (* the piece it computes next                                  *)
  result,     (* the outputs of the nested schematic                         *)
  clean,      (* the nested schematic is in its initial state                *)
  started,    (* number of computations started                              *)
  serving,    (* history: triggers sent when the thread took the signal      *)
  served      (* history: triggers served by a finished computation          *)

shared == <<condsignal, finished>>
outer  == <<copy, opart, out, signal, triggered>>
thread == <<tpart, result, started, serving, served>>
vars   == <<patient, shared, opc, outer, tpc, clean, thread>>

Part == 1 .. Parts

\* libdyn_simulation_resetblocks of the nested schematic, as far as the results go:
\* the function of a filter, for example, sets its output to zero.
ResetResult == [p \in Part |-> IF p \in Rewritten THEN 0 ELSE result[p]]

Init ==
  /\ patient \in BOOLEAN
  /\ condsignal = 0 /\ finished = 0
  /\ opc = "calc" /\ copy = 0 /\ opart = 1 /\ out = [p \in Part |-> 0]
  /\ signal = 0 /\ triggered = 0
  /\ tpc = "test" /\ tpart = 1 /\ result = [p \in Part |-> 0] /\ clean = TRUE
  /\ started = 0 /\ serving = 0 /\ served = 0

-----------------------------------------------------------------------------
(* The outer thread                                                        *)

\* calcOutputs: the flag is copied; only then the results are.
CalcOutputs ==
  /\ opc = "calc"
  /\ copy' = finished
  /\ opc' = IF finished = 1 THEN "copy" ELSE "update"
  /\ UNCHANGED <<patient, shared, opart, out, signal, triggered, tpc, clean, thread>>

CopyResult ==
  /\ opc = "copy"
  /\ out' = [out EXCEPT ![opart] = result[opart]]
  /\ IF opart < Parts THEN opart' = opart + 1 /\ UNCHANGED opc
                      ELSE opart' = 1 /\ opc' = "update"
  /\ UNCHANGED <<patient, shared, copy, signal, triggered, tpc, clean, thread>>

\* updateStates without a trigger.
NoTrigger ==
  /\ opc = "update"
  /\ opc' = "calc"
  /\ UNCHANGED <<patient, shared, outer, tpc, clean, thread>>

\* Mutant: the flag is not cleared.
TriggerOnly ==
  /\ opc = "update"
  /\ triggered < MaxTriggers
  /\ patient /\ triggered > 0 => copy = 1
  /\ signal' = 1
  /\ opc' = "send"
  /\ UNCHANGED <<patient, shared, copy, opart, out, triggered, tpc, clean, thread>>

\* updateStates with a trigger, up to the cleared flag.
Trigger ==
  /\ opc = "update"
  /\ triggered < MaxTriggers
  /\ patient /\ triggered > 0 => copy = 1
  /\ finished' = 0
  /\ signal' = 1
  /\ opc' = "send"
  /\ UNCHANGED <<patient, condsignal, copy, opart, out, triggered, tpc, clean, thread>>

\* resetStates resets the nested schematic, "not performed in the context of
\* the thread", whatever the thread is doing.
ResetStates ==
  /\ opc = "calc"
  /\ clean' = TRUE
  /\ result' = ResetResult
  /\ UNCHANGED <<patient, shared, opc, outer, tpc, tpart, started, serving, served>>

\* destruct, up to the signal.
Destruct ==
  /\ opc = "calc"
  /\ signal' = -1
  /\ opc' = "send"
  /\ UNCHANGED <<patient, shared, copy, opart, out, triggered, tpc, clean, thread>>

\* SendSignalToThread: the signal is set under condmutex ...
SetSignal ==
  /\ opc = "send"
  /\ condsignal' = signal
  /\ triggered' = IF signal = 1 THEN triggered + 1 ELSE triggered
  /\ opc' = "notify"
  /\ UNCHANGED <<patient, finished, copy, opart, out, signal, tpc, clean, thread>>

\* Mutant: nobody is notified of the termination.
NotifyTrigger ==
  /\ opc = "notify"
  /\ tpc' = IF tpc = "waiting" /\ signal = 1 THEN "test" ELSE tpc
  /\ opc' = IF signal = -1 THEN "join" ELSE "calc"
  /\ signal' = 0
  /\ UNCHANGED <<patient, shared, copy, opart, out, triggered, clean, thread>>

\* ... and the condition is signalled after the unlock.
NotifyThread ==
  /\ opc = "notify"
  /\ tpc' = IF tpc = "waiting" THEN "test" ELSE tpc
  /\ opc' = IF signal = -1 THEN "join" ELSE "calc"
  /\ signal' = 0
  /\ UNCHANGED <<patient, shared, copy, opart, out, triggered, clean, thread>>

Join ==
  /\ opc = "join"
  /\ tpc = "exited"
  /\ opc' = "gone"
  /\ UNCHANGED <<patient, shared, outer, tpc, clean, thread>>

-----------------------------------------------------------------------------
(* The thread                                                              *)

\* ThreadEntryCpp: under condmutex the signal is tested and, if there is none,
\* waited for; otherwise it is taken and cleared.
TestSignal ==
  /\ tpc = "test"
  /\ IF condsignal = 0
       THEN tpc' = "waiting" /\ UNCHANGED <<condsignal, started, serving>>
       ELSE /\ tpc' = IF condsignal = 1 THEN "outputs" ELSE "exited"
            /\ started' = IF condsignal = 1 THEN started + 1 ELSE started
            /\ serving' = triggered
            /\ condsignal' = 0
  /\ UNCHANGED <<patient, finished, opc, outer, tpart, result, clean, served>>

\* POSIX lets pthread_cond_wait return without a signal.
SpuriousWakeup ==
  /\ tpc = "waiting"
  /\ tpc' = "test"
  /\ UNCHANGED <<patient, shared, opc, outer, clean, thread>>

\* Mutants: one piece too many; the flag is set before the states are updated.
ComputeOneMore ==
  /\ tpc = "outputs"
  /\ result' = [result EXCEPT ![tpart] = started]
  /\ IF tpart <= Parts THEN tpart' = tpart + 1 /\ UNCHANGED tpc
                       ELSE tpart' = 1 /\ tpc' = "states"
  /\ UNCHANGED <<patient, shared, opc, outer, clean, started, serving, served>>

FinishEarly ==
  /\ tpc = "outputs"
  /\ result' = [result EXCEPT ![tpart] = started]
  /\ IF tpart < Parts THEN tpart' = tpart + 1 /\ UNCHANGED <<tpc, finished>>
                      ELSE tpart' = 1 /\ tpc' = "states" /\ finished' = 1
  /\ UNCHANGED <<patient, condsignal, opc, outer, clean, started, serving, served>>

\* ComputeSimulationSteps: simulation_step(0), piece by piece.
ComputeOutputs ==
  /\ tpc = "outputs"
  /\ result' = [result EXCEPT ![tpart] = started]
  /\ IF tpart < Parts THEN tpart' = tpart + 1 /\ UNCHANGED tpc
                      ELSE tpart' = 1 /\ tpc' = "states"
  /\ UNCHANGED <<patient, shared, opc, outer, clean, started, serving, served>>

\* simulation_step(1)
UpdateStates ==
  /\ tpc = "states"
  /\ clean' = FALSE
  /\ tpc' = "reset"
  /\ UNCHANGED <<patient, shared, opc, outer, thread>>

\* Mutant: the states stay as they are.
NoReset ==
  /\ tpc = "reset"
  /\ tpc' = "finish"
  /\ UNCHANGED <<patient, shared, opc, outer, clean, thread>>

\* NestedSim->reset_blocks(), before the results can be copied.
ResetBlocks ==
  /\ tpc = "reset"
  /\ clean' = TRUE
  /\ result' = ResetResult
  /\ tpc' = "finish"
  /\ UNCHANGED <<patient, shared, opc, outer, tpart, started, serving, served>>

\* Mutant: the signal is cleared after the computation.
FinishAndClear ==
  /\ tpc = "finish"
  /\ finished' = 1
  /\ condsignal' = 0
  /\ served' = serving
  /\ tpc' = "test"
  /\ UNCHANGED <<patient, opc, outer, tpart, result, clean, started, serving>>

\* The flag is set under its mutex.
Finish ==
  /\ tpc = "finish"
  /\ finished' = 1
  /\ served' = serving
  /\ tpc' = "test"
  /\ UNCHANGED <<patient, condsignal, opc, outer, tpart, result, clean, started, serving>>

-----------------------------------------------------------------------------

OuterStep  == CalcOutputs \/ CopyResult \/ SetSignal \/ NotifyThread \/ Join
ThreadStep == TestSignal \/ ComputeOutputs \/ UpdateStates \/ ResetBlocks \/ Finish

Gone == opc = "gone" /\ UNCHANGED vars

Next ==
  \/ OuterStep \/ NoTrigger \/ Trigger \/ ResetStates \/ Destruct
  \/ ThreadStep \/ SpuriousWakeup
  \/ Gone

\* Both threads go on inside the code.  The block need not be triggered, reset
\* or destroyed.
Spec == Init /\ [][Next]_vars /\ WF_vars(OuterStep) /\ WF_vars(ThreadStep)

-----------------------------------------------------------------------------

TypeOK ==
  /\ patient \in BOOLEAN /\ condsignal \in {-1, 0, 1} /\ finished \in {0, 1}
  /\ opc \in {"calc", "copy", "update", "send", "notify", "join", "gone"}
  /\ copy \in {0, 1} /\ opart \in Part /\ out \in [Part -> Nat]
  /\ signal \in {-1, 0, 1} /\ triggered \in 0 .. MaxTriggers
  /\ tpc \in {"test", "waiting", "outputs", "states", "reset", "finish", "exited"}
  /\ tpart \in Part /\ result \in [Part -> Nat] /\ clean \in BOOLEAN
  /\ started \in Nat /\ serving \in Nat /\ served \in Nat

\* When the block shows comp_finished to a schematic that waits for it before
\* it triggers again, its outputs are the result of the latest trigger, all of
\* it: neither a piece of an earlier computation nor one of a later.  Only the
\* outputs that a reset writes show what the reset wrote, each of them and
\* always: the thread resets the nested schematic before the results are copied.
ResultOfLatestTrigger ==
  patient /\ opc = "update" /\ copy = 1 =>
    out = [p \in Part |-> IF p \in Rewritten THEN 0 ELSE triggered]

\* For such a schematic the results are not copied while they are computed,
\* though no mutex keeps the two threads apart.
NoCopyDuringComputation ==
  patient /\ opc = "copy" => tpc \in {"test", "waiting"} /\ condsignal = 0

\* Every computation starts from the initial state of the nested schematic,
\* whenever the outer thread resets it.
StartsFromReset == tpc = "outputs" /\ tpart = 1 => clean

\* No trigger is lost: a computation that starts after it runs to its end,
\* though a trigger sent during a computation overwrites the one before.
\* (Unless the block is destroyed: the termination signal overwrites, too.)
TriggerServed ==
  \A k \in 1 .. MaxTriggers :
    triggered = k ~> served >= k \/ opc \in {"join", "gone"}

\* The destruction of the block ends, whatever the thread was doing.
DestructReturns == opc = "join" ~> opc = "gone"

\* "do only copy the resulting data when the computation is finished"
CopiesOnlyFinished == opc = "copy" => tpc \notin {"outputs", "states", "reset"}

=============================================================================

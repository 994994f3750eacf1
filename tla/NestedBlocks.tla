----------------------------- MODULE NestedBlocks -----------------------------
(***************************************************************************)
(* The blocks of modules/nested/nested_block.cpp that run nested           *)
(* simulations in the thread of the schematic they are part of, one of     *)
(* them at a time: ld_nested ("nested"), the state machine, the case       *)
(* switch, the for loop and the nest that is never reset.                  *)
(*                                                                         *)
(* A simulation of ld_nested can be exchanged while it runs: a block       *)
(* nested_exchange_fromfile in another thread unloads or replaces the      *)
(* simulation in the second slot (nested_onlineexchange.cpp).  There the   *)
(* two threads interleave, and each use of a simulation by the outer       *)
(* thread begins and ends.  The other blocks have no second thread, and a  *)
(* call of one is a single step.                                           *)
(*                                                                         *)
(* A simulation destructed while the outer thread is inside it, or a       *)
(* container deleted while it is exchanged, is undefined behaviour: the    *)
(* model stops there, and nothing is stated of what follows.               *)
(***************************************************************************)
EXTENDS NestedSlots

CONSTANT Kinds   (* the kinds of blocks considered                         *)

ASSUME KindsAssumption ==
  Kinds \subseteq {"nested", "statemachine", "caseswitch", "forloop", "noreset"}

VARIABLES
  kind,
  defined,         (* no undefined behaviour so far                          *)
  \* the outer thread
  rt,              (* what it does next                                      *)
  inside,          (* the simulation it is executing code of                 *)
  nSim,            (* the switch input                                       *)
  \* state machine
  initial_state,
  x_global,        (* the simulation its value stems from, NoSim: initial    *)
  \* online exchange
  xpc,             (* what the exchanging thread does next                   *)
  unload,          (* the call is unload_second_simulation                   *)
  victim,          (* the simulation taken out of the slot                   *)
  loads,           (* number of parameter sets read from files               *)
  irdata,          (* the parameter sets in memory, by the simulation        *)
  current_irdata,  (* the one of the simulation in the second slot           *)
  disturbed        (* history: an exchange changed what is current while the *)
                   (* outer thread was within a step, or was to continue     *)
                   (* with the simulation of a third slot                    *)

blockVars    == <<kind, usedSlots, initial_state>>
outer        == <<rt, inside, nSim>>
exchange     == <<xpc, unload, victim, loads, irdata, current_irdata>>
vars == <<slotVars, simVars, blockVars, defined, outer, x_global, exchange, disturbed>>

SlotsOf(k) == IF k \in {"forloop", "noreset"} THEN {1} ELSE 1 .. MaxSlots

Init ==
  /\ kind \in Kinds
  /\ \E n \in SlotsOf(kind), last \in Slot :
       /\ last < n
       /\ kind # "statemachine" => last = n - 1
       /\ initial_state = last
       /\ SlotsInit(n, last)
  /\ defined = TRUE /\ rt = "outputs" /\ inside = NoSim /\ nSim = 0
  /\ x_global = NoSim
  /\ xpc = "idle" /\ unload = FALSE /\ victim = NoSim
  /\ loads = 0 /\ irdata = {} /\ current_irdata = NoSim /\ disturbed = FALSE

-----------------------------------------------------------------------------
(* ld_nested: the outer thread, interleaved with an exchange               *)

\* A call into the current simulation, whatever is current when it begins.
Enter(from, to) ==
  /\ rt = from /\ rt' = to
  /\ inside' = current_sim
  /\ UNCHANGED nSim

Leave(from, to) ==
  /\ rt = from /\ rt' = to
  /\ inside' = NoSim
  /\ UNCHANGED nSim

BeginOutputs ==
  /\ Enter("outputs", "stepping")
  /\ disturbed' = (disturbed \/ slots_mutex)
  /\ UNCHANGED <<slotVars, simVars, defined, x_global, exchange>>

\* simulation_step_outpute: after the step the flag is set, in the slot that is
\* current by then.
EndOutputs ==
  /\ Leave("stepping", "mark")
  /\ CalcOutputs(inside)
  /\ UNCHANGED <<slotVars, defined, x_global, exchange, disturbed>>

MarkInitialised ==
  /\ rt = "mark" /\ rt' = "copy"
  /\ initialised' = [initialised EXCEPT ![current_slot] = TRUE]
  /\ UNCHANGED <<sim_slots, current_sim, current_slot, slots_mutex>>
  /\ UNCHANGED <<simVars, defined, inside, nSim, x_global, exchange, disturbed>>

CopyOutputs ==
  /\ \/ Enter("copy", "copying")
     \/ Leave("copying", "control")
  /\ UNCHANGED <<slotVars, simVars, defined, x_global, exchange, disturbed>>

\* The reset input, or a reset of the outer schematic between two steps.
BeginReset ==
  /\ \/ Enter("control", "resetting")
     \/ Enter("outputs", "outer_reset")
  /\ UNCHANGED <<slotVars, simVars, defined, x_global, exchange, disturbed>>

EndReset ==
  /\ \/ Leave("resetting", "read_switch")
     \/ Leave("outer_reset", "outputs")
  /\ ResetBlocks(inside)
  /\ UNCHANGED <<slotVars, defined, x_global, exchange, disturbed>>

NoReset ==
  /\ rt = "control" /\ rt' = "read_switch"
  /\ UNCHANGED <<slotVars, simVars, defined, inside, nSim, x_global, exchange, disturbed>>

\* The switch input is any number.
ReadSwitch ==
  /\ rt = "read_switch" /\ rt' = "switch"
  /\ nSim' \in 0 .. usedSlots
  /\ UNCHANGED <<slotVars, simVars, defined, inside, x_global, exchange, disturbed>>

SwitchInput ==
  /\ rt = "switch" /\ rt' = "update"
  /\ Switch(nSim)
  /\ UNCHANGED <<simVars, defined, inside, nSim, x_global, exchange, disturbed>>

\* Mutant: the flag is not tested.
UpdateAnyway ==
  /\ rt = "update" /\ rt' = "do_update"
  /\ UNCHANGED <<slotVars, simVars, defined, inside, nSim, x_global, exchange, disturbed>>

\* simulation_step_supdate: the flag is tested, then the step is made.
TestInitialised ==
  /\ rt = "update" /\ rt' = IF initialised[current_slot] THEN "do_update" ELSE "outputs"
  /\ UNCHANGED <<slotVars, simVars, defined, inside, nSim, x_global, exchange, disturbed>>

BeginUpdate ==
  /\ Enter("do_update", "updating")
  /\ UNCHANGED <<slotVars, simVars, defined, x_global, exchange, disturbed>>

EndUpdate ==
  /\ Leave("updating", "outputs")
  /\ UpdateStates(inside)
  /\ UNCHANGED <<slotVars, defined, x_global, exchange, disturbed>>

NestedStep ==
  /\ kind = "nested"
  /\ \/ BeginOutputs \/ EndOutputs \/ MarkInitialised \/ CopyOutputs
     \/ BeginReset \/ EndReset \/ NoReset
     \/ ReadSwitch \/ SwitchInput \/ TestInitialised \/ BeginUpdate \/ EndUpdate

-----------------------------------------------------------------------------
(* ld_nested: the exchanging thread                                        *)

WithinStep == rt # "outputs"

\* io: nothing is done once the block is gone from the directory.  The container
\* may be deleted while it still is there.
BeginExchange(u) ==
  /\ xpc = "idle" /\ rt # "gone"
  /\ u \/ loads < MaxLoads
  /\ defined' = (rt # "helper")
  /\ xpc' = "take_out" /\ unload' = u
  /\ IF u THEN UNCHANGED <<loads, irdata>>
          ELSE /\ loads' = loads + 1
               /\ irdata' = irdata \union {MaxSlots + loads}
  /\ UNCHANGED <<slotVars, simVars, outer, x_global, victim, current_irdata, disturbed>>

\* Without a second slot the call fails.
NoSecondSlot ==
  /\ xpc = "take_out" /\ ~SlotindexOK(1) /\ xpc' = "idle"
  /\ UNCHANGED <<slotVars, simVars, defined, outer, x_global, unload, victim, loads, irdata,
                 current_irdata, disturbed>>

TakeOutSecond ==
  /\ xpc = "take_out" /\ SlotindexOK(1)
  /\ IF sim_slots[1] = NoSim
       THEN /\ ~slots_mutex /\ xpc' = "delete_irdata"
            /\ UNCHANGED <<slotVars, victim, disturbed>>
       ELSE /\ TakeOut(1, 0) /\ victim' = sim_slots[1] /\ xpc' = "destruct"
            /\ disturbed' = (disturbed \/ WithinStep \/ current_slot \notin {0, 1})
  /\ UNCHANGED <<simVars, defined, outer, x_global, unload, loads, irdata, current_irdata>>

\* Outside the lock.
DestructVictim ==
  /\ xpc = "destruct" /\ xpc' = "delete_irdata"
  /\ life' = [life EXCEPT ![victim] = "destructed"]
  /\ victim' = NoSim
  /\ defined' = (inside # victim)
  /\ UNCHANGED <<slotVars, evaluated, outer, x_global, unload, loads, irdata,
                 current_irdata, disturbed>>

DeleteIrdata ==
  /\ xpc = "delete_irdata"
  /\ irdata' = irdata \ {current_irdata}
  /\ IF unload THEN xpc' = "idle" /\ current_irdata' = NoSim
               ELSE xpc' = "compile" /\ current_irdata' = MaxSlots + loads - 1
  /\ UNCHANGED <<slotVars, simVars, defined, outer, x_global, unload, victim, loads, disturbed>>

\* irpar_setup, outside the lock.  When it fails the parameters are deleted.
Compile ==
  /\ xpc = "compile" /\ xpc' = "put_in"
  /\ life' = [life EXCEPT ![current_irdata] = "initial"]
  /\ UNCHANGED <<slotVars, evaluated, defined, outer, x_global, unload, victim, loads,
                 irdata, current_irdata, disturbed>>

\* Mutant: the parameters stay in memory.
CompileFailsOnly ==
  /\ xpc = "compile" /\ xpc' = "idle" /\ current_irdata' = NoSim
  /\ UNCHANGED <<slotVars, simVars, defined, outer, x_global, unload, victim, loads, irdata,
                 disturbed>>

CompileFails ==
  /\ xpc = "compile" /\ xpc' = "idle"
  /\ irdata' = irdata \ {current_irdata} /\ current_irdata' = NoSim
  /\ UNCHANGED <<slotVars, simVars, defined, outer, x_global, unload, victim, loads, disturbed>>

PutInSecond ==
  /\ \/ /\ xpc = "put_in" /\ xpc' = "finish"
        /\ PutIn(1, current_irdata)
     \/ /\ xpc = "finish" /\ xpc' = "idle"
        /\ FinishPutIn(1)
  /\ disturbed' = (disturbed \/ WithinStep)
  /\ UNCHANGED <<simVars, defined, outer, x_global, unload, victim, loads, irdata, current_irdata>>

Exchange ==
  \/ NoSecondSlot \/ TakeOutSecond \/ DestructVictim
  \/ DeleteIrdata \/ Compile \/ CompileFails \/ PutInSecond

ExchangeStep ==
  /\ kind = "nested"
  /\ Exchange \/ \E u \in BOOLEAN : BeginExchange(u)

-----------------------------------------------------------------------------
(* The blocks without a second thread                                      *)

Call(from, to) == rt = from /\ rt' = to /\ UNCHANGED <<inside, nSim, defined, exchange, disturbed>>

\* calcOutputs of the state machine and of the nest without reset.
PlainOutputs ==
  /\ kind \in {"statemachine", "noreset"}
  /\ Call("outputs", "update")
  /\ CalcOutputs(current_sim)
  /\ UNCHANGED <<slotVars, x_global>>

PlainUpdate ==
  /\ kind = "noreset"
  /\ Call("update", "outputs")
  /\ UpdateStates(current_sim)
  /\ UNCHANGED <<slotVars, x_global>>

\* updateStates of the state machine without and with a transition; the
\* nested schematic outputs the number of the next state, which is any number.
\* The state that is left is reset, and then the other one made current.
StayInState(handOver) ==
  /\ kind = "statemachine"
  /\ Call("update", "outputs")
  /\ UpdateStates(current_sim)
  /\ x_global' = IF handOver THEN current_sim ELSE x_global
  /\ UNCHANGED slotVars

\* Mutant: the other state is made current first, and is the one reset.
ResetEntered(active) ==
  /\ kind = "statemachine"
  /\ Call("update", "outputs")
  /\ x_global' = current_sim
  /\ Switch(active)
  /\ life' = [life EXCEPT ![current_sim] = "updated", ![current_sim'] = "initial"]
  /\ UNCHANGED evaluated

GoToState(active) ==
  /\ kind = "statemachine"
  /\ Call("update", "outputs")
  /\ x_global' = current_sim
  /\ ResetBlocks(current_sim)
  /\ Switch(active)

ResetStateMachine ==
  /\ kind = "statemachine"
  /\ Call("outputs", "outputs")
  /\ ResetBlocks(current_sim)
  /\ Switch(initial_state)
  /\ x_global' = NoSim

\* calcOutputs of the case switch makes a complete step of the selected
\* schematic, or of the one before if there is none of that number.
SelectCase(n) ==
  /\ kind = "caseswitch"
  /\ Call("outputs", "outputs")
  /\ Switch(n)
  /\ evaluated' = evaluated \union {current_sim'}
  /\ life' = [life EXCEPT ![current_sim'] = "updated"]
  /\ UNCHANGED x_global

\* calcOutputs of the for loop, with a reset of the schematic at the end or not.
Loop(iterates, resetStates) ==
  /\ kind = "forloop"
  /\ Call("outputs", "outputs")
  /\ evaluated' = IF iterates THEN evaluated \union {current_sim} ELSE evaluated
  /\ life' = [life EXCEPT ![current_sim] =
                IF resetStates THEN "initial" ELSE IF iterates THEN "updated" ELSE @]
  /\ UNCHANGED <<slotVars, x_global>>

\* Only the schematic that is current is reset.
ResetNest ==
  /\ kind \in {"caseswitch", "forloop"}
  /\ Call("outputs", "outputs")
  /\ ResetBlocks(current_sim)
  /\ UNCHANGED <<slotVars, x_global>>

SingleThreaded ==
  \/ PlainOutputs \/ PlainUpdate
  \/ \E handOver \in BOOLEAN : StayInState(handOver)
  \/ \E active \in 0 .. usedSlots : GoToState(active)
  \/ ResetStateMachine
  \/ \E n \in 0 .. usedSlots : SelectCase(n)
  \/ \E iterates, resetStates \in BOOLEAN : Loop(iterates, resetStates)
  \/ ResetNest

-----------------------------------------------------------------------------
\* Mutant: the two in the other order.
DestructHelperFirst ==
  /\ rt = "outputs" /\ rt' = IF kind = "nested" THEN "helper" ELSE "gone"
  /\ irdata' = irdata \ {current_irdata} /\ current_irdata' = NoSim
  /\ UNCHANGED <<slotVars, simVars, defined, inside, nSim, x_global, xpc, unload, victim, loads,
                 disturbed>>

\* destruct, between two steps: the simulations first, then, for ld_nested,
\* the helper of the exchange with the parameter set it holds.
DestructSimulations ==
  /\ rt = "outputs"
  /\ rt' = IF kind = "nested" THEN "helper" ELSE "gone"
  /\ DestructSlots
  /\ defined' = (xpc = "idle")
  /\ UNCHANGED <<inside, nSim, x_global, exchange, disturbed>>

DeleteHelper ==
  /\ rt = "helper" /\ rt' = "gone"
  /\ irdata' = irdata \ {current_irdata} /\ current_irdata' = NoSim
  /\ UNCHANGED <<slotVars, simVars, defined, inside, nSim, x_global, xpc, unload, victim, loads,
                 disturbed>>

OuterStep == NestedStep \/ SingleThreaded \/ DestructSimulations \/ DeleteHelper

\* The block is gone, or the behaviour no longer defined.
Stopped == (rt = "gone" \/ ~defined) /\ UNCHANGED vars

Next ==
  \/ /\ defined
     /\ OuterStep \/ ExchangeStep
     /\ UNCHANGED blockVars
  \/ Stopped

\* The outer thread goes on with its steps, and a call of the exchange is
\* carried out once it has begun.
Spec ==
  /\ Init /\ [][Next]_vars
  /\ WF_vars(defined /\ OuterStep /\ UNCHANGED blockVars)
  /\ WF_vars(defined /\ kind = "nested" /\ Exchange /\ UNCHANGED blockVars)

-----------------------------------------------------------------------------
TypeOK ==
  /\ kind \in Kinds /\ usedSlots \in 1 .. MaxSlots /\ initial_state \in Slot
  /\ sim_slots \in [Slot -> Sim \union {NoSim}]
  /\ initialised \in [Slot -> BOOLEAN]
  /\ current_sim \in Sim /\ current_slot \in Slot /\ slots_mutex \in BOOLEAN
  /\ life \in [Sim -> {"absent", "initial", "updated", "destructed"}]
  /\ evaluated \subseteq Sim
  /\ defined \in BOOLEAN
  /\ rt \in {"outputs", "stepping", "mark", "copy", "copying", "control", "resetting",
             "outer_reset", "read_switch", "switch", "update", "do_update", "updating", "helper", "gone"}
  /\ inside \in Sim \union {NoSim} /\ nSim \in 0 .. MaxSlots
  /\ x_global \in Sim \union {NoSim}
  /\ xpc \in {"idle", "take_out", "destruct", "delete_irdata", "compile", "put_in", "finish"}
  /\ unload \in BOOLEAN /\ victim \in Sim \union {NoSim}
  /\ loads \in 0 .. MaxLoads /\ irdata \subseteq Sim
  /\ current_irdata \in Sim \union {NoSim} /\ disturbed \in BOOLEAN

\* The simulation the outer thread would enter next exists and is in a slot,
\* whatever the exchange is doing: del_simulation switches before it destructs,
\* and the slot it switches to is never emptied.
CurrentIsAlive ==
  (defined /\ rt \notin {"helper", "gone"}) =>
    Alive(current_sim) /\ \E i \in Slot : sim_slots[i] = current_sim

\* A simulation loaded from files never outlives its parameter set, to which
\* its blocks point: nested_onlineexchange deletes the set after the
\* simulation, and the block deletes its helper last.
ParametersOutlive ==
  \A s \in Sim \ Slot : Alive(s) => s \in irdata

\* No parameter set is lost: between two exchanges one that is in memory is
\* that of the simulation in the second slot.
NoParametersLeaked ==
  (SlotindexOK(1) /\ defined /\ xpc = "idle" /\ rt \notin {"helper", "gone"}) =>
    \A p \in irdata : sim_slots[1] = p

\* A state of the state machine that is not active is in its initial state:
\* whenever it is entered it starts from there.
InactiveStatesReset ==
  kind = "statemachine" /\ rt # "gone" =>
    \A i \in Slot : Used(i) /\ sim_slots[i] # current_sim => life[sim_slots[i]] = "initial"

\* The states of a simulation are never updated before its outputs were
\* calculated (simulation_step_outpute, simulation_step_supdate), as long as an
\* exchange changes what is current only between two steps of the outer thread,
\* and none takes the current simulation away from a third slot.
UpdatedAfterOutputs ==
  ~disturbed => \A s \in Sim : life[s] = "updated" => s \in evaluated

\* The same without the exception, as the comment at simulation_step_outpute
\* states it of a simulation that is replaced online.
OutputsFirst ==
  \A s \in Sim : life[s] = "updated" => s \in evaluated

\* The outer thread waits for the lock of the slots only for the time an
\* exchange needs to enter a simulation, never for a compilation.
SwitchReturns ==
  rt = "switch" ~> (rt # "switch" \/ ~defined)
=============================================================================

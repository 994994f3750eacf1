----------------------------- MODULE NestedSlots -----------------------------
(***************************************************************************)
(* The container of nested simulations: libdyn_nested2 of libdyn_cpp.cpp.  *)
(* It keeps a simulation per slot, one of them the current one, which is   *)
(* what steps, resets and copies of outputs go to.  Simulations are        *)
(* numbered: 0 .. MaxSlots-1 are those compiled from the parameters of     *)
(* the block, the rest are loaded later from files.                        *)
(*                                                                         *)
(* A simulation is reduced to whether its blocks are in their initial      *)
(* state; what a step computes is in SimulationStep, and the events that   *)
(* are triggered before each step are left out.                            *)
(*                                                                         *)
(* slots_mutex protects the slots against a thread that exchanges a        *)
(* simulation.  The thread that runs the simulations reads current_sim,    *)
(* current_slot and the flag of the slot without it.  current_slot_nr,     *)
(* which only functions without a caller read, is left out.                *)
(***************************************************************************)
EXTENDS Integers

CONSTANTS
  MaxSlots,      (* bound on the number of slots                             *)
  MaxLoads       (* bound on the simulations loaded from files               *)

ASSUME MaxSlotsAssumption == MaxSlots \in Nat \ {0}
ASSUME MaxLoadsAssumption == MaxLoads \in Nat

VARIABLES
  usedSlots,     (* number of slots                                          *)
  sim_slots,     (* the simulation in each slot                              *)
  initialised,   (* replaceable_simulation_initialised of each slot          *)
  current_sim, current_slot,
  slots_mutex,   (* it is locked across steps of this model                  *)
  life,          (* of each simulation                                       *)
  evaluated      (* history: simulations whose outputs were ever calculated  *)

slotVars == <<sim_slots, initialised, current_sim, current_slot, slots_mutex>>
simVars  == <<life, evaluated>>

Slot  == 0 .. MaxSlots - 1
Sim   == 0 .. MaxSlots + MaxLoads - 1
NoSim == -1

Alive(s) == life[s] \in {"initial", "updated"}

\* add_simulation(-1, ...), called for each of n schematics, after which the
\* last of them is the current one, or another one is made so.
SlotsInit(n, current) ==
  /\ usedSlots = n
  /\ sim_slots = [i \in Slot |-> IF i < n THEN i ELSE NoSim]
  /\ initialised = [i \in Slot |-> FALSE]
  /\ current_sim = current /\ current_slot = current
  /\ slots_mutex = FALSE
  /\ life = [s \in Sim |-> IF s < n THEN "initial" ELSE "absent"]
  /\ evaluated = {}

-----------------------------------------------------------------------------
\* set_current_simulation: refused for a bad index or an empty slot.
SlotindexOK(n) == 0 <= n /\ n < usedSlots

\* Mutant: an empty slot is accepted.
InRange(n) == SlotindexOK(n)

Used(n) == SlotindexOK(n) /\ sim_slots[n] # NoSim

SetCurrent(n) ==
  IF Used(n)
    THEN current_sim' = sim_slots[n] /\ current_slot' = n
    ELSE UNCHANGED <<current_sim, current_slot>>

\* The slots are locked for it, unless the index is refused.
CanLock(n) == SlotindexOK(n) => ~slots_mutex

Switch(n) ==
  /\ CanLock(n)
  /\ SetCurrent(n)
  /\ UNCHANGED <<sim_slots, initialised, slots_mutex>>

\* Mutant: the current simulation stays the same.
TakeOutOnly(slot, switchto) ==
  /\ ~slots_mutex
  /\ sim_slots' = [sim_slots EXCEPT ![slot] = NoSim]
  /\ UNCHANGED <<initialised, current_sim, current_slot, slots_mutex>>

\* The critical section of del_simulation(slot, switchto): the flag of the
\* slot and current_slot keep their values.
TakeOut(slot, switchto) ==
  /\ ~slots_mutex
  /\ current_sim' = sim_slots[switchto]
  /\ sim_slots' = [sim_slots EXCEPT ![slot] = NoSim]
  /\ UNCHANGED <<initialised, current_slot, slots_mutex>>

\* The critical section of add_simulation(slot, s), up to and from the
\* assignment of current_sim.
PutIn(slot, s) ==
  /\ ~slots_mutex /\ sim_slots[slot] = NoSim
  /\ slots_mutex' = TRUE
  /\ sim_slots' = [sim_slots EXCEPT ![slot] = s]
  /\ initialised' = [initialised EXCEPT ![slot] = FALSE]
  /\ current_sim' = s
  /\ UNCHANGED current_slot

\* Mutant: the slots are not unlocked.
FinishLocked(slot) ==
  /\ current_slot' = slot
  /\ UNCHANGED <<sim_slots, initialised, current_sim, slots_mutex>>

FinishPutIn(slot) ==
  /\ current_slot' = slot
  /\ slots_mutex' = FALSE
  /\ UNCHANGED <<sim_slots, initialised, current_sim>>

\* destruct: every simulation, under the lock.
DestructSlots ==
  /\ ~slots_mutex
  /\ life' = [s \in Sim |-> IF \E i \in Slot : sim_slots[i] = s THEN "destructed" ELSE life[s]]
  /\ sim_slots' = [i \in Slot |-> NoSim]
  /\ UNCHANGED <<initialised, current_sim, current_slot, slots_mutex, evaluated>>

-----------------------------------------------------------------------------
\* What a call does to simulation s.
CalcOutputs(s)  == evaluated' = evaluated \union {s} /\ UNCHANGED life
UpdateStates(s) == life' = [life EXCEPT ![s] = "updated"] /\ UNCHANGED evaluated
ResetBlocks(s)  == life' = [life EXCEPT ![s] = "initial"] /\ UNCHANGED evaluated
=============================================================================

-------------------------- MODULE NestedBlocksProofs --------------------------
(***************************************************************************)
(* The invariants of NestedBlocks hold for any number of slots and of      *)
(* exchanges, and for every set of kinds of blocks.                        *)
(*                                                                         *)
(* The idea: only the second slot changes, and whatever simulation is not  *)
(* in a slot is in the hands of exactly one of the two threads.  A         *)
(* parameter set read from files belongs to the simulation that is being   *)
(* exchanged or to the one in the second slot.                             *)
(***************************************************************************)
EXTENDS NestedBlocks, TLAPS

Live == defined /\ rt \notin {"helper", "gone"}

\* The first slots hold the simulations compiled from the block's parameters,
\* and the second one possibly a simulation loaded from files.
Shape ==
  /\ usedSlots > 0
  /\ \A i \in Slot : \/ sim_slots[i] \in {i, NoSim}
                     \/ i = 1 /\ sim_slots[i] = current_irdata
  /\ \A i \in Slot : sim_slots[i] # NoSim => i < usedSlots /\ Alive(sim_slots[i])
  /\ Live => sim_slots[0] = 0 /\ \E i \in Slot : sim_slots[i] = current_sim

\* The simulation the outer thread is inside of.
Within ==
  /\ rt \in {"stepping", "copying", "resetting", "outer_reset", "updating"} <=> inside # NoSim
  /\ defined /\ inside # NoSim => Alive(inside)
  /\ rt \in {"helper", "gone"} => \A i \in Slot : sim_slots[i] = NoSim

\* What the exchanging thread holds.
Handed ==
  /\ slots_mutex <=> xpc = "finish"
  /\ xpc \notin {"idle", "take_out"} => SlotindexOK(1)
  /\ xpc = "destruct" <=> victim # NoSim
  /\ victim # NoSim => victim \in {1, current_irdata} /\ \A i \in Slot : sim_slots[i] # victim
  /\ xpc \in {"destruct", "delete_irdata", "compile", "put_in"} => sim_slots[1] = NoSim
  /\ Live /\ xpc = "finish" => sim_slots[1] = current_irdata /\ current_sim = current_irdata
  /\ xpc = "put_in" => Alive(current_irdata)
  /\ defined /\ rt \in {"helper", "gone"} => xpc = "idle"

\* The parameter sets it holds, the newest of which has the highest number.
Numbered ==
  /\ current_irdata # NoSim => MaxSlots <= current_irdata /\ current_irdata < MaxSlots + loads
  /\ xpc \in {"take_out", "destruct", "delete_irdata"} /\ ~unload =>
       /\ loads > 0 /\ MaxSlots + loads - 1 \in irdata
       /\ current_irdata # MaxSlots + loads - 1
  /\ xpc \in {"compile", "put_in", "finish"} =>
       current_irdata # NoSim /\ current_irdata \in irdata

\* Where the simulations loaded from files are.
Loaded ==
  \A s \in Sim \ Slot : Alive(s) =>
    /\ s = current_irdata /\ s \in irdata
    /\ (\E i \in Slot : sim_slots[i] = s) \/ victim = s \/ xpc = "put_in"

\* What the parameter sets in memory belong to.
Parameters ==
  SlotindexOK(1) =>
    /\ irdata \subseteq {current_irdata} \union
         (IF xpc \in {"take_out", "destruct", "delete_irdata"} /\ ~unload
            THEN {MaxSlots + loads - 1} ELSE {})
    /\ Live /\ current_irdata # NoSim /\ xpc \in {"idle", "take_out", "finish"} =>
         sim_slots[1] = current_irdata

\* The blocks without a second thread.
Single ==
  kind # "nested" =>
    /\ xpc = "idle" /\ irdata = {} /\ defined /\ ~disturbed
    /\ rt \in {"outputs", "update", "gone"}
    /\ rt = "update" => current_sim \in evaluated

\* Why the state machine finds its states reset.
StatesReset ==
  kind = "statemachine" /\ rt # "gone" =>
    \A i \in Slot : Used(i) /\ sim_slots[i] # current_sim => life[sim_slots[i]] = "initial"

\* Why outputs are calculated before states are updated.
Evaluated ==
  ~disturbed =>
    /\ \A s \in Sim : life[s] = "updated" => s \in evaluated
    /\ kind = "nested" /\ Live =>
         /\ \A i \in Slot : initialised[i] /\ sim_slots[i] # NoSim => sim_slots[i] \in evaluated
         /\ slots_mutex => rt \in {"outputs", "outer_reset"}
         /\ ~slots_mutex => sim_slots[current_slot] \in {NoSim, current_sim}
         /\ rt = "stepping" => inside = current_sim
         /\ rt \in {"mark", "copy", "copying", "control", "resetting", "read_switch", "switch",
                    "do_update", "updating"} => current_sim \in evaluated
         /\ rt = "updating" => inside \in evaluated
         /\ rt = "update" /\ initialised[current_slot] => current_sim \in evaluated

\* The invariant.
IInv ==
  /\ TypeOK /\ Shape /\ Within /\ Handed /\ Numbered /\ Loaded /\ Parameters /\ Single /\ StatesReset
  /\ Evaluated

\* Steps of any block, and those of ld_nested.
ByAny    == defined /\ UNCHANGED blockVars
ByNested == ByAny /\ kind = "nested"

-----------------------------------------------------------------------------
\* The steps there are.
LEMMA Steps ==
  ASSUME [Next]_vars
  PROVE  \/ ByNested /\ \/ BeginOutputs \/ EndOutputs \/ MarkInitialised \/ CopyOutputs
                        \/ BeginReset \/ EndReset \/ NoReset
                        \/ ReadSwitch \/ SwitchInput \/ TestInitialised \/ BeginUpdate \/ EndUpdate
                        \/ (\E u \in BOOLEAN : BeginExchange(u)) \/ NoSecondSlot \/ TakeOutSecond
                        \/ DestructVictim \/ DeleteIrdata \/ Compile \/ CompileFails \/ PutInSecond
         \/ ByAny /\ \/ PlainOutputs \/ PlainUpdate
                     \/ (\E handOver \in BOOLEAN : StayInState(handOver))
                     \/ (\E active \in 0 .. usedSlots : GoToState(active)) \/ ResetStateMachine
                     \/ (\E n \in 0 .. usedSlots : SelectCase(n))
                     \/ (\E iterates, resetStates \in BOOLEAN : Loop(iterates, resetStates))
                     \/ ResetNest \/ DestructSimulations \/ DeleteHelper
         \/ UNCHANGED vars
BY DEF Next, OuterStep, NestedStep, SingleThreaded, ExchangeStep, Exchange, Stopped,
       ByAny, ByNested

\* Simulations are numbered, and NoSim is no number of one.
LEMMA SimNumbers ==
  /\ NoSim \notin Sim /\ NoSim \notin Slot /\ Slot \subseteq Sim
  /\ \A s \in Sim : s \in Int /\ (s \in Slot <=> s < MaxSlots)
  /\ \A l \in 0 .. MaxLoads - 1 : MaxSlots + l \in Sim \ Slot
  /\ 0 \in Slot
BY MaxSlotsAssumption, MaxLoadsAssumption DEF NoSim, Sim, Slot

\* What the outer thread may enter exists.
LEMMA CurrentExists ==
  ASSUME TypeOK, Shape, Live
  PROVE  current_sim # NoSim /\ current_sim \in Sim /\ Alive(current_sim)
BY SimNumbers DEF TypeOK, Shape

\* The functions among the variables.
LEMMA Functions ==
  ASSUME TypeOK
  PROVE  /\ sim_slots \in [Slot -> Sim \union {NoSim}]
         /\ initialised \in [Slot -> BOOLEAN]
         /\ life \in [Sim -> {"absent", "initial", "updated", "destructed"}]
BY DEF TypeOK

\* A slot whose index is accepted.
LEMMA SlotIndex ==
  ASSUME TypeOK, NEW n \in Int, SlotindexOK(n)
  PROVE  n \in Slot /\ n < usedSlots
BY MaxSlotsAssumption DEF TypeOK, SlotindexOK, Slot

\* What a switch of the current simulation does.
LEMMA SwitchTo ==
  ASSUME TypeOK, NEW n \in Int, Switch(n)
  PROVE  /\ UNCHANGED <<sim_slots, initialised, slots_mutex>>
         /\ \/ UNCHANGED <<current_sim, current_slot>>
            \/ /\ n \in Slot /\ sim_slots[n] # NoSim /\ ~slots_mutex
               /\ current_sim' = sim_slots[n] /\ current_slot' = n
BY SlotIndex DEF Switch, SetCurrent, Used, CanLock

\* The numbers among them.
LEMMA Numbers ==
  ASSUME TypeOK
  PROVE  /\ nSim \in Int /\ usedSlots \in Int /\ initial_state \in Int /\ loads \in Nat
         /\ inside \in Sim \union {NoSim} /\ victim \in Sim \union {NoSim}
         /\ current_irdata \in Sim \union {NoSim} /\ current_slot \in Slot
BY MaxSlotsAssumption, MaxLoadsAssumption DEF TypeOK, Slot

\* The second slot, as long as the exchanging thread has to do with it.
LEMMA SecondSlot ==
  ASSUME TypeOK, Handed, xpc \notin {"idle", "take_out"}
  PROVE  1 \in Slot /\ 1 < usedSlots /\ SlotindexOK(1)
BY SlotIndex DEF Handed

\* The simulations in the slots are different ones.
LEMMA Different ==
  ASSUME TypeOK, Shape, Numbered, NEW i \in Slot, NEW j \in Slot,
         sim_slots[i] = sim_slots[j], sim_slots[i] # NoSim
  PROVE  i = j
<1>1. current_irdata = NoSim \/ current_irdata \notin Slot
  BY Numbers, SimNumbers, MaxSlotsAssumption DEF Numbered, Slot
<1>2. \A k \in Slot : sim_slots[k] \in {k, NoSim} \/ (k = 1 /\ sim_slots[k] = current_irdata)
  BY DEF Shape
<1> QED
  BY <1>1, <1>2

\* While a parameter set is exchanged, no simulation loaded from files exists.
LEMMA NoneLoaded ==
  ASSUME TypeOK, Shape, Handed, Loaded, xpc \in {"delete_irdata", "compile"}
  PROVE  \A s \in Sim \ Slot : ~Alive(s)
BY SimNumbers, SecondSlot, Numbers DEF Shape, Handed, Loaded

-----------------------------------------------------------------------------
\* No step leaves the types.
LEMMA TypeKept ==
  ASSUME TypeOK, Shape, Within, Handed, Numbered, [Next]_vars
  PROVE  TypeOK'
<1> USE SimNumbers, CurrentExists, Functions, Numbers DEF TypeOK, ByAny, ByNested, slotVars,
        simVars, blockVars, outer, exchange
<1>1. CASE ByNested /\ BeginOutputs
  BY <1>1 DEF BeginOutputs, Enter
<1>2. CASE ByNested /\ EndOutputs
  BY <1>2 DEF EndOutputs, Leave, CalcOutputs, Within
<1>31. CASE ByNested /\ MarkInitialised
  <2>1. initialised' \in [Slot -> BOOLEAN] /\ rt' = "copy"
    BY <1>31 DEF MarkInitialised
  <2> QED
    BY <1>31, <2>1 DEF MarkInitialised
<1>3. CASE ByNested /\ CopyOutputs
  BY <1>3 DEF CopyOutputs, Enter, Leave
<1>4. CASE ByNested /\ BeginReset
  BY <1>4 DEF BeginReset, Enter
<1>5. CASE ByNested /\ EndReset
  BY <1>5, ZenonT(60) DEF EndReset, Leave, ResetBlocks
<1>6. CASE ByNested /\ NoReset
  BY <1>6 DEF NoReset
<1>7. CASE ByNested /\ ReadSwitch
  <2>1. nSim' \in 0 .. MaxSlots
    BY <1>7, MaxSlotsAssumption DEF ReadSwitch
  <2> QED
    BY <1>7, <2>1 DEF ReadSwitch
<1>8. CASE ByNested /\ SwitchInput
  <2>1. Switch(nSim)
    BY <1>8 DEF SwitchInput
  <2> QED
    BY <1>8, <2>1, SwitchTo DEF SwitchInput
<1>9. CASE ByNested /\ TestInitialised
  BY <1>9 DEF TestInitialised
<1>10. CASE ByNested /\ BeginUpdate
  BY <1>10 DEF BeginUpdate, Enter
<1>11. CASE ByNested /\ EndUpdate
  BY <1>11, ZenonT(60) DEF EndUpdate, Leave, UpdateStates
<1>12. CASE ByNested /\ (\E u \in BOOLEAN : BeginExchange(u))
  <2>1. PICK u \in BOOLEAN : BeginExchange(u)
    BY <1>12
  <2>2. loads' \in 0 .. MaxLoads /\ irdata' \subseteq Sim
    <3>1. CASE u
      BY <2>1, <3>1 DEF BeginExchange
    <3>2. CASE ~u
      <4>1. /\ loads \in 0 .. MaxLoads - 1 /\ loads' = loads + 1
            /\ irdata' = irdata \union {MaxSlots + loads}
        BY <2>1, <3>2, MaxLoadsAssumption DEF BeginExchange
      <4> QED
        BY <4>1, MaxLoadsAssumption
    <3> QED
      BY <3>1, <3>2
  <2>3. xpc' = "take_out" /\ unload' \in BOOLEAN /\ defined' \in BOOLEAN
    BY <2>1 DEF BeginExchange
  <2>4. UNCHANGED <<slotVars, simVars, outer, x_global, victim, current_irdata, disturbed>>
    BY <2>1 DEF BeginExchange
  <2> QED
    BY <1>12, <2>2, <2>3, <2>4
<1>13. CASE ByNested /\ NoSecondSlot
  BY <1>13 DEF NoSecondSlot, SlotindexOK
<1>14. CASE ByNested /\ TakeOutSecond
  <2>1. 1 \in Slot /\ (xpc = "take_out")
    BY <1>14, SlotIndex DEF TakeOutSecond
  <2>2. CASE sim_slots[1] = NoSim
    BY <1>14, <2>2 DEF TakeOutSecond
  <2>3. CASE sim_slots[1] # NoSim
    <3>1. sim_slots[0] = 0
      BY <1>14, <2>1 DEF Shape, Handed, Live
    <3>2. /\ sim_slots' \in [Slot -> Sim \union {NoSim}] /\ current_sim' \in Sim
          /\ victim' \in Sim /\ disturbed' \in BOOLEAN /\ xpc' = "destruct"
          /\ UNCHANGED <<initialised, current_slot, slots_mutex>>
      BY <1>14, <2>1, <2>3, <3>1 DEF TakeOutSecond, TakeOut
    <3> QED
      BY <1>14, <3>2 DEF TakeOutSecond
  <2> QED
    BY <2>2, <2>3
<1>15. CASE ByNested /\ DestructVictim
  BY <1>15, ZenonT(60) DEF DestructVictim
<1>16. CASE ByNested /\ DeleteIrdata
  <2>1. ~unload => MaxSlots + loads - 1 \in Sim
    <3>1. ~unload => MaxSlots + loads - 1 \in irdata
      BY <1>16 DEF DeleteIrdata, Numbered
    <3> QED
      BY <3>1
  <2>2. /\ current_irdata' = IF unload THEN NoSim ELSE MaxSlots + loads - 1
        /\ xpc' \in {"idle", "compile"} /\ irdata' \subseteq irdata
    BY <1>16 DEF DeleteIrdata
  <2>3. UNCHANGED <<slotVars, simVars, defined, outer, x_global, unload, victim, loads, disturbed>>
    BY <1>16 DEF DeleteIrdata
  <2>4. current_irdata' \in Sim \union {NoSim} /\ irdata' \subseteq Sim
        /\ xpc' \in {"idle", "compile"}
    BY <2>1, <2>2
  <2> QED
    BY <1>16, <2>3, <2>4
<1>17. CASE ByNested /\ Compile
  BY <1>17, ZenonT(60) DEF Compile
<1>18. CASE ByNested /\ CompileFails
  BY <1>18 DEF CompileFails
<1>19. CASE ByNested /\ PutInSecond
  <2>1. 1 \in Slot
    BY <1>19, SecondSlot DEF PutInSecond
  <2>2. CASE PutIn(1, current_irdata) /\ xpc = "put_in" /\ xpc' = "finish"
    <3>1. current_irdata \in Sim
      BY <2>2 DEF Numbered
    <3>2. /\ sim_slots' \in [Slot -> Sim \union {NoSim}] /\ initialised' \in [Slot -> BOOLEAN]
          /\ current_sim' \in Sim /\ slots_mutex' \in BOOLEAN /\ UNCHANGED current_slot
      BY <2>1, <2>2, <3>1 DEF PutIn
    <3> QED
      BY <1>19, <2>2, <3>2 DEF PutInSecond
  <2>3. CASE FinishPutIn(1) /\ xpc' = "idle"
    BY <1>19, <2>1, <2>3, ZenonT(60) DEF PutInSecond, FinishPutIn
  <2> QED
    BY <1>19, <2>2, <2>3 DEF PutInSecond
<1>20. CASE ByAny /\ PlainOutputs
  BY <1>20 DEF PlainOutputs, Call, CalcOutputs
<1>21. CASE ByAny /\ PlainUpdate
  BY <1>21 DEF PlainUpdate, Call, UpdateStates
<1>22. CASE ByAny /\ (\E handOver \in BOOLEAN : StayInState(handOver))
  BY <1>22 DEF StayInState, Call, UpdateStates
<1>23. CASE ByAny /\ (\E active \in 0 .. usedSlots : GoToState(active))
  <2>1. PICK active \in Int : GoToState(active)
    BY <1>23
  <2>2. Switch(active) /\ rt = "update" /\ rt' = "outputs"
    BY <2>1 DEF GoToState, Call
  <2> QED
    BY <1>23, <2>1, <2>2, SwitchTo DEF GoToState, ResetBlocks, Call
<1>24. CASE ByAny /\ ResetStateMachine
  <2>1. Switch(initial_state) /\ rt = "outputs" /\ rt' = "outputs"
    BY <1>24 DEF ResetStateMachine, Call
  <2> QED
    BY <1>24, <2>1, SwitchTo DEF ResetStateMachine, ResetBlocks, Call
<1>25. CASE ByAny /\ (\E n \in 0 .. usedSlots : SelectCase(n))
  <2>1. PICK n \in Int : SelectCase(n)
    BY <1>25
  <2>2. Switch(n) /\ rt = "outputs" /\ rt' = "outputs"
    BY <2>1 DEF SelectCase, Call
  <2>3. life' = [life EXCEPT ![current_sim'] = "updated"]
    BY <2>1 DEF SelectCase
  <2>4. \/ current_sim' = current_sim
        \/ \E i \in Slot : current_sim' = sim_slots[i] /\ sim_slots[i] # NoSim
    BY <2>2, SwitchTo
  <2> QED
    BY <1>25, <2>1, <2>2, <2>3, <2>4, SwitchTo DEF SelectCase, Call
<1>26. CASE ByAny /\ (\E iterates, resetStates \in BOOLEAN : Loop(iterates, resetStates))
  BY <1>26 DEF Loop, Call
<1>27. CASE ByAny /\ ResetNest
  BY <1>27 DEF ResetNest, Call, ResetBlocks
<1>28. CASE ByAny /\ DestructSimulations
  BY <1>28 DEF DestructSimulations, DestructSlots
<1>29. CASE ByAny /\ DeleteHelper
  BY <1>29 DEF DeleteHelper
<1>30. CASE UNCHANGED vars
  BY <1>30 DEF vars
<1> QED
  BY <1>1, <1>2, <1>3, <1>4, <1>5, <1>6, <1>7, <1>8, <1>9, <1>10, <1>11, <1>12, <1>13, <1>14,
     <1>15, <1>16, <1>17, <1>18, <1>19, <1>20, <1>21, <1>22, <1>23, <1>24, <1>25, <1>26, <1>27,
     <1>28, <1>29, <1>30, <1>31, Steps

\* No step puts a simulation where it does not belong, or makes one current
\* that is in no slot.
LEMMA ShapeKept ==
  ASSUME TypeOK, Shape, Within, Handed, [Next]_vars
  PROVE  Shape'
<1> USE SimNumbers, CurrentExists, Functions, Numbers DEF Shape, Live, Alive, ByAny, ByNested,
        slotVars, simVars, blockVars, outer, exchange
<1>1. CASE ByNested /\ BeginOutputs
  BY <1>1 DEF BeginOutputs, Enter
<1>2. CASE ByNested /\ EndOutputs
  BY <1>2 DEF EndOutputs, Leave, CalcOutputs
<1>31. CASE ByNested /\ MarkInitialised
  BY <1>31 DEF MarkInitialised
<1>3. CASE ByNested /\ CopyOutputs
  BY <1>3 DEF CopyOutputs, Enter, Leave
<1>4. CASE ByNested /\ BeginReset
  BY <1>4 DEF BeginReset, Enter
<1>5. CASE ByNested /\ EndReset
  BY <1>5 DEF EndReset, Leave, ResetBlocks
<1>6. CASE ByNested /\ NoReset
  BY <1>6 DEF NoReset
<1>7. CASE ByNested /\ ReadSwitch
  BY <1>7 DEF ReadSwitch
<1>8. CASE ByNested /\ SwitchInput
  <2>1. Switch(nSim)
    BY <1>8 DEF SwitchInput
  <2> QED
    BY <1>8, <2>1, SwitchTo DEF SwitchInput
<1>9. CASE ByNested /\ TestInitialised
  BY <1>9 DEF TestInitialised
<1>10. CASE ByNested /\ BeginUpdate
  BY <1>10 DEF BeginUpdate, Enter
<1>11. CASE ByNested /\ EndUpdate
  BY <1>11 DEF EndUpdate, Leave, UpdateStates
<1>12. CASE ByNested /\ (\E u \in BOOLEAN : BeginExchange(u))
  BY <1>12 DEF BeginExchange
<1>13. CASE ByNested /\ NoSecondSlot
  BY <1>13 DEF NoSecondSlot, SlotindexOK
<1>14. CASE ByNested /\ TakeOutSecond
  BY <1>14 DEF TakeOutSecond, TakeOut, SlotindexOK, WithinStep
<1>15. CASE ByNested /\ DestructVictim
  BY <1>15 DEF DestructVictim, Handed
<1>16. CASE ByNested /\ DeleteIrdata
  BY <1>16 DEF DeleteIrdata, Handed
<1>17. CASE ByNested /\ Compile
  BY <1>17 DEF Compile
<1>18. CASE ByNested /\ CompileFails
  BY <1>18 DEF CompileFails, Handed
<1>19. CASE ByNested /\ PutInSecond
  <2>1. 1 \in Slot /\ 1 < usedSlots
    BY <1>19, SlotIndex DEF PutInSecond, Handed
  <2>2. CASE PutIn(1, current_irdata)
    BY <1>19, <2>1, <2>2 DEF PutInSecond, PutIn, FinishPutIn, Handed
  <2>3. CASE FinishPutIn(1)
    BY <1>19, <2>3 DEF PutInSecond, PutIn, FinishPutIn, Handed
  <2> QED
    BY <1>19, <2>2, <2>3 DEF PutInSecond
<1>20. CASE ByAny /\ PlainOutputs
  BY <1>20 DEF PlainOutputs, Call, CalcOutputs
<1>21. CASE ByAny /\ PlainUpdate
  BY <1>21 DEF PlainUpdate, Call, UpdateStates
<1>22. CASE ByAny /\ (\E handOver \in BOOLEAN : StayInState(handOver))
  BY <1>22 DEF StayInState, Call, UpdateStates
<1>23. CASE ByAny /\ (\E active \in 0 .. usedSlots : GoToState(active))
  <2>1. PICK active \in Int : GoToState(active)
    BY <1>23
  <2>2. Switch(active) /\ rt = "update" /\ rt' = "outputs"
    BY <2>1 DEF GoToState, Call
  <2> QED
    BY <1>23, <2>1, <2>2, SwitchTo DEF GoToState, ResetBlocks, Call
<1>24. CASE ByAny /\ ResetStateMachine
  <2>1. Switch(initial_state) /\ rt = "outputs" /\ rt' = "outputs"
    BY <1>24 DEF ResetStateMachine, Call
  <2> QED
    BY <1>24, <2>1, SwitchTo DEF ResetStateMachine, ResetBlocks, Call
<1>25. CASE ByAny /\ (\E n \in 0 .. usedSlots : SelectCase(n))
  <2>1. PICK n \in Int : SelectCase(n)
    BY <1>25
  <2>2. Switch(n) /\ rt = "outputs" /\ rt' = "outputs"
    BY <2>1 DEF SelectCase, Call
  <2>3. life' = [life EXCEPT ![current_sim'] = "updated"]
    BY <2>1 DEF SelectCase
  <2>4. \/ current_sim' = current_sim
        \/ \E i \in Slot : current_sim' = sim_slots[i] /\ sim_slots[i] # NoSim
    BY <2>2, SwitchTo
  <2> QED
    BY <1>25, <2>1, <2>2, <2>3, <2>4, SwitchTo DEF SelectCase, Call
<1>26. CASE ByAny /\ (\E iterates, resetStates \in BOOLEAN : Loop(iterates, resetStates))
  BY <1>26 DEF Loop, Call
<1>27. CASE ByAny /\ ResetNest
  BY <1>27 DEF ResetNest, Call, ResetBlocks
<1>28. CASE ByAny /\ DestructSimulations
  BY <1>28 DEF DestructSimulations, DestructSlots
<1>29. CASE ByAny /\ DeleteHelper
  BY <1>29 DEF DeleteHelper, Within
<1>30. CASE UNCHANGED vars
  BY <1>30 DEF vars
<1> QED
  BY <1>1, <1>2, <1>3, <1>4, <1>5, <1>6, <1>7, <1>8, <1>9, <1>10, <1>11, <1>12, <1>13, <1>14,
     <1>15, <1>16, <1>17, <1>18, <1>19, <1>20, <1>21, <1>22, <1>23, <1>24, <1>25, <1>26, <1>27,
     <1>28, <1>29, <1>30, <1>31, Steps

\* The simulation the outer thread is inside of is not destructed, except where
\* the behaviour is undefined.
LEMMA WithinKept ==
  ASSUME TypeOK, Within, Shape, Handed, [Next]_vars
  PROVE  Within'
<1> USE SimNumbers, CurrentExists, Functions DEF Within, Live, Alive, ByAny, ByNested, slotVars,
        simVars, blockVars, outer, exchange
<1>1. CASE ByNested /\ BeginOutputs
  BY <1>1 DEF BeginOutputs, Enter
<1>2. CASE ByNested /\ EndOutputs
  BY <1>2 DEF EndOutputs, Leave, CalcOutputs
<1>31. CASE ByNested /\ MarkInitialised
  BY <1>31 DEF MarkInitialised
<1>3. CASE ByNested /\ CopyOutputs
  BY <1>3 DEF CopyOutputs, Enter, Leave
<1>4. CASE ByNested /\ BeginReset
  BY <1>4 DEF BeginReset, Enter
<1>5. CASE ByNested /\ EndReset
  BY <1>5 DEF EndReset, Leave, ResetBlocks
<1>6. CASE ByNested /\ NoReset
  BY <1>6 DEF NoReset
<1>7. CASE ByNested /\ ReadSwitch
  BY <1>7 DEF ReadSwitch
<1>8. CASE ByNested /\ SwitchInput
  BY <1>8 DEF SwitchInput, Switch, SetCurrent, Used, SlotindexOK
<1>9. CASE ByNested /\ TestInitialised
  BY <1>9 DEF TestInitialised
<1>10. CASE ByNested /\ BeginUpdate
  BY <1>10 DEF BeginUpdate, Enter
<1>11. CASE ByNested /\ EndUpdate
  BY <1>11 DEF EndUpdate, Leave, UpdateStates
<1>12. CASE ByNested /\ (\E u \in BOOLEAN : BeginExchange(u))
  BY <1>12 DEF BeginExchange
<1>13. CASE ByNested /\ NoSecondSlot
  BY <1>13 DEF NoSecondSlot, SlotindexOK
<1>14. CASE ByNested /\ TakeOutSecond
  <2>1. rt \notin {"helper", "gone"}
    BY <1>14 DEF TakeOutSecond, Handed
  <2> QED
    BY <1>14, <2>1 DEF TakeOutSecond, TakeOut
<1>15. CASE ByNested /\ DestructVictim
  <2>1. defined' => inside # victim
    BY <1>15 DEF DestructVictim
  <2> QED
    BY <1>15, <2>1 DEF DestructVictim
<1>16. CASE ByNested /\ DeleteIrdata
  BY <1>16 DEF DeleteIrdata
<1>17. CASE ByNested /\ Compile
  BY <1>17 DEF Compile
<1>18. CASE ByNested /\ CompileFails
  BY <1>18 DEF CompileFails
<1>19. CASE ByNested /\ PutInSecond
  <2>1. rt \notin {"helper", "gone"}
    BY <1>19 DEF PutInSecond, Handed
  <2> QED
    BY <1>19, <2>1 DEF PutInSecond, PutIn, FinishPutIn
<1>20. CASE ByAny /\ PlainOutputs
  BY <1>20 DEF PlainOutputs, Call, CalcOutputs
<1>21. CASE ByAny /\ PlainUpdate
  BY <1>21 DEF PlainUpdate, Call, UpdateStates
<1>22. CASE ByAny /\ (\E handOver \in BOOLEAN : StayInState(handOver))
  BY <1>22 DEF StayInState, Call, UpdateStates
<1>23. CASE ByAny /\ (\E active \in 0 .. usedSlots : GoToState(active))
  BY <1>23 DEF GoToState, Call, ResetBlocks, Switch, SetCurrent, Used, SlotindexOK
<1>24. CASE ByAny /\ ResetStateMachine
  BY <1>24 DEF ResetStateMachine, Call, ResetBlocks, Switch, SetCurrent, Used, SlotindexOK
<1>25. CASE ByAny /\ (\E n \in 0 .. usedSlots : SelectCase(n))
  BY <1>25 DEF SelectCase, Call, Switch, SetCurrent, Used, SlotindexOK
<1>26. CASE ByAny /\ (\E iterates, resetStates \in BOOLEAN : Loop(iterates, resetStates))
  BY <1>26 DEF Loop, Call
<1>27. CASE ByAny /\ ResetNest
  BY <1>27 DEF ResetNest, Call, ResetBlocks
<1>28. CASE ByAny /\ DestructSimulations
  BY <1>28 DEF DestructSimulations, DestructSlots
<1>29. CASE ByAny /\ DeleteHelper
  BY <1>29 DEF DeleteHelper
<1>30. CASE UNCHANGED vars
  BY <1>30 DEF vars
<1> QED
  BY <1>1, <1>2, <1>3, <1>4, <1>5, <1>6, <1>7, <1>8, <1>9, <1>10, <1>11, <1>12, <1>13, <1>14,
     <1>15, <1>16, <1>17, <1>18, <1>19, <1>20, <1>21, <1>22, <1>23, <1>24, <1>25, <1>26, <1>27,
     <1>28, <1>29, <1>30, <1>31, Steps

\* What one thread holds is not touched by the other.
LEMMA HandedKept ==
  ASSUME TypeOK, Shape, Within, Handed, Numbered, [Next]_vars
  PROVE  Handed'
<1> USE SimNumbers, CurrentExists, Functions, Numbers DEF Handed, Live, Alive, SlotindexOK,
        ByAny, ByNested, slotVars, simVars, blockVars, outer, exchange
<1>1. CASE ByNested /\ BeginOutputs
  BY <1>1 DEF BeginOutputs, Enter
<1>2. CASE ByNested /\ EndOutputs
  BY <1>2 DEF EndOutputs, Leave, CalcOutputs
<1>31. CASE ByNested /\ MarkInitialised
  BY <1>31 DEF MarkInitialised
<1>3. CASE ByNested /\ CopyOutputs
  BY <1>3 DEF CopyOutputs, Enter, Leave
<1>4. CASE ByNested /\ BeginReset
  BY <1>4 DEF BeginReset, Enter
<1>5. CASE ByNested /\ EndReset
  BY <1>5 DEF EndReset, Leave, ResetBlocks
<1>6. CASE ByNested /\ NoReset
  BY <1>6 DEF NoReset
<1>7. CASE ByNested /\ ReadSwitch
  BY <1>7 DEF ReadSwitch
<1>8. CASE ByNested /\ SwitchInput
  <2>1. Switch(nSim)
    BY <1>8 DEF SwitchInput
  <2> QED
    BY <1>8, <2>1, SwitchTo DEF SwitchInput
<1>9. CASE ByNested /\ TestInitialised
  BY <1>9 DEF TestInitialised
<1>10. CASE ByNested /\ BeginUpdate
  BY <1>10 DEF BeginUpdate, Enter
<1>11. CASE ByNested /\ EndUpdate
  BY <1>11 DEF EndUpdate, Leave, UpdateStates
<1>12. CASE ByNested /\ (\E u \in BOOLEAN : BeginExchange(u))
  <2>1. defined' => rt # "helper"
    BY <1>12 DEF BeginExchange
  <2> QED
    BY <1>12, <2>1 DEF BeginExchange
<1>13. CASE ByNested /\ NoSecondSlot
  BY <1>13 DEF NoSecondSlot, SlotindexOK
<1>14. CASE ByNested /\ TakeOutSecond
  <2>1. 1 \in Slot
    BY <1>14, SlotIndex DEF TakeOutSecond
  <2>2. CASE sim_slots[1] = NoSim
    BY <1>14, <2>1, <2>2 DEF TakeOutSecond
  <2>3. CASE sim_slots[1] # NoSim
    <3>1. /\ sim_slots' = [sim_slots EXCEPT ![1] = NoSim] /\ victim' = sim_slots[1]
          /\ xpc' = "destruct" /\ ~slots_mutex /\ UNCHANGED <<slots_mutex, current_irdata>>
      BY <1>14, <2>3 DEF TakeOutSecond, TakeOut
    <3>2. victim' \in {1, current_irdata}
      BY <2>1, <2>3, <3>1 DEF Shape
    <3>3. \A i \in Slot : sim_slots'[i] # victim'
      BY <2>1, <2>3, <3>1, Different
    <3>4. sim_slots'[1] = NoSim
      BY <2>1, <3>1
    <3> QED
      BY <1>14, <2>3, <3>1, <3>2, <3>3, <3>4 DEF TakeOutSecond
  <2> QED
    BY <2>2, <2>3
<1>15. CASE ByNested /\ DestructVictim
  BY <1>15 DEF DestructVictim
<1>16. CASE ByNested /\ DeleteIrdata
  BY <1>16 DEF DeleteIrdata
<1>17. CASE ByNested /\ Compile
  <2>1. life' = [life EXCEPT ![current_irdata] = "initial"] /\ current_irdata \in Sim
    BY <1>17 DEF Compile, Numbered
  <2> QED
    BY <1>17, <2>1 DEF Compile
<1>18. CASE ByNested /\ CompileFails
  BY <1>18 DEF CompileFails
<1>19. CASE ByNested /\ PutInSecond
  <2>1. 1 \in Slot
    BY <1>19, SecondSlot DEF PutInSecond
  <2>2. CASE PutIn(1, current_irdata)
    <3>1. sim_slots'[1] = current_irdata
      BY <2>1, <2>2 DEF PutIn
    <3> QED
      BY <1>19, <2>1, <2>2, <3>1 DEF PutInSecond, PutIn, FinishPutIn
  <2>3. CASE FinishPutIn(1)
    BY <1>19, <2>3 DEF PutInSecond, PutIn, FinishPutIn
  <2> QED
    BY <1>19, <2>2, <2>3 DEF PutInSecond
<1>20. CASE ByAny /\ PlainOutputs
  BY <1>20 DEF PlainOutputs, Call, CalcOutputs
<1>21. CASE ByAny /\ PlainUpdate
  BY <1>21 DEF PlainUpdate, Call, UpdateStates
<1>22. CASE ByAny /\ (\E handOver \in BOOLEAN : StayInState(handOver))
  BY <1>22 DEF StayInState, Call, UpdateStates
<1>23. CASE ByAny /\ (\E active \in 0 .. usedSlots : GoToState(active))
  <2>1. PICK active \in Int : GoToState(active)
    BY <1>23
  <2>2. Switch(active) /\ rt = "update" /\ rt' = "outputs"
    BY <2>1 DEF GoToState, Call
  <2> QED
    BY <1>23, <2>1, <2>2, SwitchTo DEF GoToState, ResetBlocks, Call
<1>24. CASE ByAny /\ ResetStateMachine
  <2>1. Switch(initial_state) /\ rt = "outputs" /\ rt' = "outputs"
    BY <1>24 DEF ResetStateMachine, Call
  <2> QED
    BY <1>24, <2>1, SwitchTo DEF ResetStateMachine, ResetBlocks, Call
<1>25. CASE ByAny /\ (\E n \in 0 .. usedSlots : SelectCase(n))
  <2>1. PICK n \in Int : SelectCase(n)
    BY <1>25
  <2>2. Switch(n) /\ rt = "outputs" /\ rt' = "outputs"
    BY <2>1 DEF SelectCase, Call
  <2>3. life' = [life EXCEPT ![current_sim'] = "updated"]
    BY <2>1 DEF SelectCase
  <2>4. \/ current_sim' = current_sim
        \/ \E i \in Slot : current_sim' = sim_slots[i] /\ sim_slots[i] # NoSim
    BY <2>2, SwitchTo
  <2>5. current_sim \in Sim /\ life[current_sim] \in {"initial", "updated"}
    BY <1>25, <2>2, CurrentExists DEF Live, Alive
  <2>6. current_sim' \in Sim /\ life[current_sim'] \in {"initial", "updated"}
    BY <2>4, <2>5, Functions DEF Shape, Alive
  <2>7. \A s \in Sim : life'[s] \in {"initial", "updated"} <=> life[s] \in {"initial", "updated"}
    BY <2>3, <2>6, Functions
  <2> QED
    BY <1>25, <2>1, <2>2, <2>3, <2>4, <2>7, SwitchTo DEF SelectCase, Call
<1>26. CASE ByAny /\ (\E iterates, resetStates \in BOOLEAN : Loop(iterates, resetStates))
  BY <1>26 DEF Loop, Call
<1>27. CASE ByAny /\ ResetNest
  BY <1>27 DEF ResetNest, Call, ResetBlocks
<1>28. CASE ByAny /\ DestructSimulations
  <2>1. xpc = "put_in" => Alive(current_irdata)'
    <3>1. CASE xpc = "put_in"
      <4>1. 1 \in Slot /\ sim_slots[1] = NoSim /\ Alive(current_irdata)
        BY <3>1, SecondSlot
      <4>0. current_irdata \in Sim \ Slot
        BY <3>1, Numbers, SimNumbers, MaxSlotsAssumption DEF Numbered, Slot
      <4>2. \A i \in Slot : sim_slots[i] # current_irdata
        BY <4>0, <4>1 DEF Shape
      <4> QED
        BY <1>28, <3>1, <4>0, <4>1, <4>2 DEF DestructSimulations, DestructSlots
    <3> QED
      BY <3>1
  <2>2. \A i \in Slot : sim_slots'[i] = NoSim
    BY <1>28 DEF DestructSimulations, DestructSlots
  <2>3. xpc \notin {"idle", "take_out"} => sim_slots'[1] = NoSim
    BY <2>2, SecondSlot
  <2>4. rt' \in {"helper", "gone"} /\ (defined' => xpc = "idle")
    BY <1>28 DEF DestructSimulations
  <2>5. UNCHANGED <<slots_mutex, xpc, victim, current_irdata, usedSlots>>
    BY <1>28 DEF DestructSimulations, DestructSlots
  <2>6. victim # NoSim => \A i \in Slot : sim_slots'[i] # victim
    BY <2>2
  <2> QED
    BY <2>1, <2>2, <2>3, <2>4, <2>5, <2>6
<1>29. CASE ByAny /\ DeleteHelper
  BY <1>29 DEF DeleteHelper
<1>30. CASE UNCHANGED vars
  BY <1>30 DEF vars
<1> QED
  BY <1>1, <1>2, <1>3, <1>4, <1>5, <1>6, <1>7, <1>8, <1>9, <1>10, <1>11, <1>12, <1>13, <1>14,
     <1>15, <1>16, <1>17, <1>18, <1>19, <1>20, <1>21, <1>22, <1>23, <1>24, <1>25, <1>26, <1>27,
     <1>28, <1>29, <1>30, <1>31, Steps

\* The parameter set of an exchange stays the newest one.
LEMMA NumberedKept ==
  ASSUME TypeOK, Numbered, Handed, [Next]_vars
  PROVE  Numbered'
<1> USE SimNumbers, CurrentExists, Functions, Numbers DEF Numbered, ByAny, ByNested, slotVars,
        simVars, blockVars, outer, exchange
<1>1. CASE ByNested /\ BeginOutputs
  BY <1>1 DEF BeginOutputs, Enter
<1>2. CASE ByNested /\ EndOutputs
  BY <1>2 DEF EndOutputs, Leave, CalcOutputs
<1>31. CASE ByNested /\ MarkInitialised
  BY <1>31 DEF MarkInitialised
<1>3. CASE ByNested /\ CopyOutputs
  BY <1>3 DEF CopyOutputs, Enter, Leave
<1>4. CASE ByNested /\ BeginReset
  BY <1>4 DEF BeginReset, Enter
<1>5. CASE ByNested /\ EndReset
  BY <1>5 DEF EndReset, Leave, ResetBlocks
<1>6. CASE ByNested /\ NoReset
  BY <1>6 DEF NoReset
<1>7. CASE ByNested /\ ReadSwitch
  BY <1>7 DEF ReadSwitch
<1>8. CASE ByNested /\ SwitchInput
  <2>1. Switch(nSim)
    BY <1>8 DEF SwitchInput
  <2> QED
    BY <1>8, <2>1, SwitchTo DEF SwitchInput
<1>9. CASE ByNested /\ TestInitialised
  BY <1>9 DEF TestInitialised
<1>10. CASE ByNested /\ BeginUpdate
  BY <1>10 DEF BeginUpdate, Enter
<1>11. CASE ByNested /\ EndUpdate
  BY <1>11 DEF EndUpdate, Leave, UpdateStates
<1>12. CASE ByNested /\ (\E u \in BOOLEAN : BeginExchange(u))
  <2>1. PICK u \in BOOLEAN : BeginExchange(u)
    BY <1>12
  <2>2. UNCHANGED current_irdata /\ xpc' = "take_out" /\ unload' = u
    BY <2>1 DEF BeginExchange
  <2>3. CASE u
    BY <2>1, <2>2, <2>3 DEF BeginExchange
  <2>4. CASE ~u
    <3>1. loads' = loads + 1 /\ MaxSlots + loads \in irdata'
      BY <2>1, <2>4 DEF BeginExchange
    <3>2. MaxSlots + loads' - 1 = MaxSlots + loads /\ loads' > 0
      BY <3>1, MaxSlotsAssumption
    <3>3. current_irdata # NoSim => MaxSlots <= current_irdata /\ current_irdata < MaxSlots + loads
      OBVIOUS
    <3>4. current_irdata # MaxSlots + loads
      BY <3>3, MaxSlotsAssumption DEF NoSim
    <3>5. current_irdata # NoSim => current_irdata < MaxSlots + loads'
      BY <3>1, <3>3, MaxSlotsAssumption, SimNumbers
    <3> QED
      BY <2>2, <3>1, <3>2, <3>3, <3>4, <3>5
  <2> QED
    BY <2>3, <2>4
<1>13. CASE ByNested /\ NoSecondSlot
  BY <1>13 DEF NoSecondSlot, SlotindexOK
<1>14. CASE ByNested /\ TakeOutSecond
  BY <1>14 DEF TakeOutSecond, TakeOut, SlotindexOK, WithinStep
<1>15. CASE ByNested /\ DestructVictim
  BY <1>15 DEF DestructVictim
<1>16. CASE ByNested /\ DeleteIrdata
  <2>1. unload => current_irdata' = NoSim /\ xpc' = "idle"
    BY <1>16 DEF DeleteIrdata
  <2>2. ~unload => /\ current_irdata' = MaxSlots + loads - 1 /\ current_irdata' \in irdata'
                   /\ xpc' = "compile"
    BY <1>16 DEF DeleteIrdata
  <2>3. UNCHANGED loads /\ (~unload => loads > 0)
    BY <1>16 DEF DeleteIrdata
  <2> QED
    BY <2>1, <2>2, <2>3, MaxSlotsAssumption DEF NoSim
<1>17. CASE ByNested /\ Compile
  BY <1>17 DEF Compile
<1>18. CASE ByNested /\ CompileFails
  BY <1>18 DEF CompileFails
<1>19. CASE ByNested /\ PutInSecond
  BY <1>19 DEF PutInSecond, PutIn, FinishPutIn, WithinStep
<1>20. CASE ByAny /\ PlainOutputs
  BY <1>20 DEF PlainOutputs, Call, CalcOutputs
<1>21. CASE ByAny /\ PlainUpdate
  BY <1>21 DEF PlainUpdate, Call, UpdateStates
<1>22. CASE ByAny /\ (\E handOver \in BOOLEAN : StayInState(handOver))
  BY <1>22 DEF StayInState, Call, UpdateStates
<1>23. CASE ByAny /\ (\E active \in 0 .. usedSlots : GoToState(active))
  <2>1. PICK active \in Int : GoToState(active)
    BY <1>23
  <2>2. Switch(active) /\ rt = "update" /\ rt' = "outputs"
    BY <2>1 DEF GoToState, Call
  <2> QED
    BY <1>23, <2>1, <2>2, SwitchTo DEF GoToState, ResetBlocks, Call
<1>24. CASE ByAny /\ ResetStateMachine
  <2>1. Switch(initial_state) /\ rt = "outputs" /\ rt' = "outputs"
    BY <1>24 DEF ResetStateMachine, Call
  <2> QED
    BY <1>24, <2>1, SwitchTo DEF ResetStateMachine, ResetBlocks, Call
<1>25. CASE ByAny /\ (\E n \in 0 .. usedSlots : SelectCase(n))
  <2>1. PICK n \in Int : SelectCase(n)
    BY <1>25
  <2>2. Switch(n) /\ rt = "outputs" /\ rt' = "outputs"
    BY <2>1 DEF SelectCase, Call
  <2>3. life' = [life EXCEPT ![current_sim'] = "updated"]
    BY <2>1 DEF SelectCase
  <2>4. \/ current_sim' = current_sim
        \/ \E i \in Slot : current_sim' = sim_slots[i] /\ sim_slots[i] # NoSim
    BY <2>2, SwitchTo
  <2> QED
    BY <1>25, <2>1, <2>2, <2>3, <2>4, SwitchTo DEF SelectCase, Call
<1>26. CASE ByAny /\ (\E iterates, resetStates \in BOOLEAN : Loop(iterates, resetStates))
  BY <1>26 DEF Loop, Call
<1>27. CASE ByAny /\ ResetNest
  BY <1>27 DEF ResetNest, Call, ResetBlocks
<1>28. CASE ByAny /\ DestructSimulations
  BY <1>28 DEF DestructSimulations, DestructSlots
<1>29. CASE ByAny /\ DeleteHelper
  BY <1>29 DEF DeleteHelper, Handed
<1>30. CASE UNCHANGED vars
  BY <1>30 DEF vars
<1> QED
  BY <1>1, <1>2, <1>3, <1>4, <1>5, <1>6, <1>7, <1>8, <1>9, <1>10, <1>11, <1>12, <1>13, <1>14,
     <1>15, <1>16, <1>17, <1>18, <1>19, <1>20, <1>21, <1>22, <1>23, <1>24, <1>25, <1>26, <1>27,
     <1>28, <1>29, <1>30, <1>31, Steps

\* No simulation loaded from files loses its parameter set.
LEMMA LoadedKept ==
  ASSUME TypeOK, Shape, Within, Handed, Numbered, Loaded, [Next]_vars
  PROVE  Loaded'
<1> USE SimNumbers, CurrentExists, Functions, Numbers DEF Loaded, Live, Alive, ByAny, ByNested,
        slotVars, simVars, blockVars, outer, exchange
<1>1. CASE ByNested /\ BeginOutputs
  BY <1>1 DEF BeginOutputs, Enter
<1>2. CASE ByNested /\ EndOutputs
  BY <1>2 DEF EndOutputs, Leave, CalcOutputs
<1>31. CASE ByNested /\ MarkInitialised
  BY <1>31 DEF MarkInitialised
<1>3. CASE ByNested /\ CopyOutputs
  BY <1>3 DEF CopyOutputs, Enter, Leave
<1>4. CASE ByNested /\ BeginReset
  BY <1>4 DEF BeginReset, Enter
<1>5. CASE ByNested /\ EndReset
  BY <1>5 DEF EndReset, Leave, ResetBlocks, Within
<1>6. CASE ByNested /\ NoReset
  BY <1>6 DEF NoReset
<1>7. CASE ByNested /\ ReadSwitch
  BY <1>7 DEF ReadSwitch
<1>8. CASE ByNested /\ SwitchInput
  <2>1. Switch(nSim)
    BY <1>8 DEF SwitchInput
  <2> QED
    BY <1>8, <2>1, SwitchTo DEF SwitchInput
<1>9. CASE ByNested /\ TestInitialised
  BY <1>9 DEF TestInitialised
<1>10. CASE ByNested /\ BeginUpdate
  BY <1>10 DEF BeginUpdate, Enter
<1>11. CASE ByNested /\ EndUpdate
  BY <1>11 DEF EndUpdate, Leave, UpdateStates, Within
<1>12. CASE ByNested /\ (\E u \in BOOLEAN : BeginExchange(u))
  BY <1>12 DEF BeginExchange
<1>13. CASE ByNested /\ NoSecondSlot
  BY <1>13 DEF NoSecondSlot, SlotindexOK
<1>14. CASE ByNested /\ TakeOutSecond
  <2>1. 1 \in Slot
    BY <1>14, SlotIndex DEF TakeOutSecond
  <2>2. CASE sim_slots[1] = NoSim
    BY <1>14, <2>2 DEF TakeOutSecond
  <2>3. CASE sim_slots[1] # NoSim
    BY <1>14, <2>1, <2>3 DEF TakeOutSecond, TakeOut, Handed
  <2> QED
    BY <2>2, <2>3
<1>15. CASE ByNested /\ DestructVictim
  BY <1>15 DEF DestructVictim
<1>16. CASE ByNested /\ DeleteIrdata
  BY <1>16, NoneLoaded DEF DeleteIrdata
<1>17. CASE ByNested /\ Compile
  <2>1. /\ life' = [life EXCEPT ![current_irdata] = "initial"]
        /\ current_irdata \in Sim /\ current_irdata \in irdata
    BY <1>17 DEF Compile, Numbered
  <2> QED
    BY <1>17, <2>1, NoneLoaded DEF Compile
<1>18. CASE ByNested /\ CompileFails
  BY <1>18, NoneLoaded DEF CompileFails
<1>19. CASE ByNested /\ PutInSecond
  <2>1. 1 \in Slot
    BY <1>19, SecondSlot DEF PutInSecond
  <2>2. CASE PutIn(1, current_irdata)
    <3>1. sim_slots' = [sim_slots EXCEPT ![1] = current_irdata] /\ sim_slots[1] = NoSim
      BY <2>2 DEF PutIn
    <3>2. \A s \in Sim \ Slot : Alive(s) => \E i \in Slot : sim_slots'[i] = s
      BY <2>1, <3>1
    <3> QED
      BY <1>19, <3>2 DEF PutInSecond
  <2>3. CASE FinishPutIn(1)
    BY <1>19, <2>3 DEF PutInSecond, PutIn, FinishPutIn, Handed
  <2> QED
    BY <1>19, <2>2, <2>3 DEF PutInSecond
<1>20. CASE ByAny /\ PlainOutputs
  BY <1>20 DEF PlainOutputs, Call, CalcOutputs
<1>21. CASE ByAny /\ PlainUpdate
  BY <1>21 DEF PlainUpdate, Call, UpdateStates
<1>22. CASE ByAny /\ (\E handOver \in BOOLEAN : StayInState(handOver))
  BY <1>22 DEF StayInState, Call, UpdateStates
<1>23. CASE ByAny /\ (\E active \in 0 .. usedSlots : GoToState(active))
  <2>1. PICK active \in Int : GoToState(active)
    BY <1>23
  <2>2. Switch(active) /\ rt = "update" /\ rt' = "outputs"
    BY <2>1 DEF GoToState, Call
  <2> QED
    BY <1>23, <2>1, <2>2, SwitchTo DEF GoToState, ResetBlocks, Call
<1>24. CASE ByAny /\ ResetStateMachine
  <2>1. Switch(initial_state) /\ rt = "outputs" /\ rt' = "outputs"
    BY <1>24 DEF ResetStateMachine, Call
  <2> QED
    BY <1>24, <2>1, SwitchTo DEF ResetStateMachine, ResetBlocks, Call
<1>25. CASE ByAny /\ (\E n \in 0 .. usedSlots : SelectCase(n))
  <2>1. PICK n \in Int : SelectCase(n)
    BY <1>25
  <2>2. Switch(n) /\ rt = "outputs" /\ rt' = "outputs"
    BY <2>1 DEF SelectCase, Call
  <2>3. life' = [life EXCEPT ![current_sim'] = "updated"]
    BY <2>1 DEF SelectCase
  <2>4. \/ current_sim' = current_sim
        \/ \E i \in Slot : current_sim' = sim_slots[i] /\ sim_slots[i] # NoSim
    BY <2>2, SwitchTo
  <2>5. current_sim \in Sim /\ life[current_sim] \in {"initial", "updated"}
    BY <1>25, <2>2, CurrentExists DEF Live, Alive
  <2>6. current_sim' \in Sim /\ life[current_sim'] \in {"initial", "updated"}
    BY <2>4, <2>5, Functions DEF Shape, Alive
  <2>7. \A s \in Sim : life'[s] \in {"initial", "updated"} <=> life[s] \in {"initial", "updated"}
    BY <2>3, <2>6, Functions
  <2> QED
    BY <1>25, <2>1, <2>2, <2>3, <2>4, <2>7, SwitchTo DEF SelectCase, Call
<1>26. CASE ByAny /\ (\E iterates, resetStates \in BOOLEAN : Loop(iterates, resetStates))
  BY <1>26 DEF Loop, Call
<1>27. CASE ByAny /\ ResetNest
  BY <1>27 DEF ResetNest, Call, ResetBlocks
<1>28. CASE ByAny /\ DestructSimulations
  BY <1>28 DEF DestructSimulations, DestructSlots
<1>29. CASE ByAny /\ DeleteHelper
  BY <1>29 DEF DeleteHelper, Within, Handed
<1>30. CASE UNCHANGED vars
  BY <1>30 DEF vars
<1> QED
  BY <1>1, <1>2, <1>3, <1>4, <1>5, <1>6, <1>7, <1>8, <1>9, <1>10, <1>11, <1>12, <1>13, <1>14,
     <1>15, <1>16, <1>17, <1>18, <1>19, <1>20, <1>21, <1>22, <1>23, <1>24, <1>25, <1>26, <1>27,
     <1>28, <1>29, <1>30, <1>31, Steps

\* No parameter set is forgotten.
LEMMA ParametersKept ==
  ASSUME TypeOK, Handed, Numbered, Shape, Parameters, [Next]_vars
  PROVE  Parameters'
<1> USE SimNumbers, CurrentExists, Functions, Numbers DEF Parameters, Live, SlotindexOK, ByAny,
        ByNested, slotVars, simVars, blockVars, outer, exchange
<1>1. CASE ByNested /\ BeginOutputs
  BY <1>1 DEF BeginOutputs, Enter
<1>2. CASE ByNested /\ EndOutputs
  BY <1>2 DEF EndOutputs, Leave, CalcOutputs
<1>31. CASE ByNested /\ MarkInitialised
  BY <1>31 DEF MarkInitialised
<1>3. CASE ByNested /\ CopyOutputs
  BY <1>3 DEF CopyOutputs, Enter, Leave
<1>4. CASE ByNested /\ BeginReset
  BY <1>4 DEF BeginReset, Enter
<1>5. CASE ByNested /\ EndReset
  BY <1>5 DEF EndReset, Leave, ResetBlocks
<1>6. CASE ByNested /\ NoReset
  BY <1>6 DEF NoReset
<1>7. CASE ByNested /\ ReadSwitch
  BY <1>7 DEF ReadSwitch
<1>8. CASE ByNested /\ SwitchInput
  <2>1. Switch(nSim)
    BY <1>8 DEF SwitchInput
  <2> QED
    BY <1>8, <2>1, SwitchTo DEF SwitchInput
<1>9. CASE ByNested /\ TestInitialised
  BY <1>9 DEF TestInitialised
<1>10. CASE ByNested /\ BeginUpdate
  BY <1>10 DEF BeginUpdate, Enter
<1>11. CASE ByNested /\ EndUpdate
  BY <1>11 DEF EndUpdate, Leave, UpdateStates
<1>12. CASE ByNested /\ (\E u \in BOOLEAN : BeginExchange(u))
  <2>1. PICK u \in BOOLEAN : BeginExchange(u)
    BY <1>12
  <2>2. UNCHANGED <<current_irdata, sim_slots, usedSlots, rt>> /\ xpc = "idle"
    BY <1>12, <2>1 DEF BeginExchange
  <2>3. xpc' = "take_out" /\ unload' = u
    BY <2>1 DEF BeginExchange
  <2>4. CASE u
    BY <1>12, <2>1, <2>2, <2>3, <2>4 DEF BeginExchange
  <2>5. CASE ~u
    <3>1. irdata' = irdata \union {MaxSlots + loads} /\ MaxSlots + loads' - 1 = MaxSlots + loads
      BY <2>1, <2>5, MaxSlotsAssumption DEF BeginExchange
    <3> QED
      BY <1>12, <2>2, <2>3, <2>5, <3>1
  <2> QED
    BY <2>4, <2>5
<1>13. CASE ByNested /\ NoSecondSlot
  BY <1>13 DEF NoSecondSlot, SlotindexOK
<1>14. CASE ByNested /\ TakeOutSecond
  BY <1>14 DEF TakeOutSecond, TakeOut, SlotindexOK, WithinStep
<1>15. CASE ByNested /\ DestructVictim
  BY <1>15 DEF DestructVictim
<1>16. CASE ByNested /\ DeleteIrdata
  BY <1>16 DEF DeleteIrdata
<1>17. CASE ByNested /\ Compile
  BY <1>17 DEF Compile
<1>18. CASE ByNested /\ CompileFails
  BY <1>18 DEF CompileFails
<1>19. CASE ByNested /\ PutInSecond
  <2>1. 1 \in Slot
    BY <1>19, SecondSlot DEF PutInSecond
  <2>2. CASE PutIn(1, current_irdata) /\ xpc = "put_in" /\ xpc' = "finish"
    <3>1. sim_slots'[1] = current_irdata /\ UNCHANGED <<current_irdata, irdata, usedSlots>>
      BY <1>19, <2>1, <2>2 DEF PutIn, PutInSecond
    <3> QED
      BY <1>19, <2>2, <3>1 DEF PutInSecond, PutIn
  <2>3. CASE FinishPutIn(1) /\ xpc = "finish" /\ xpc' = "idle"
    BY <1>19, <2>3 DEF PutInSecond, FinishPutIn
  <2> QED
    BY <1>19, <2>2, <2>3 DEF PutInSecond
<1>20. CASE ByAny /\ PlainOutputs
  BY <1>20 DEF PlainOutputs, Call, CalcOutputs
<1>21. CASE ByAny /\ PlainUpdate
  BY <1>21 DEF PlainUpdate, Call, UpdateStates
<1>22. CASE ByAny /\ (\E handOver \in BOOLEAN : StayInState(handOver))
  BY <1>22 DEF StayInState, Call, UpdateStates
<1>23. CASE ByAny /\ (\E active \in 0 .. usedSlots : GoToState(active))
  <2>1. PICK active \in Int : GoToState(active)
    BY <1>23
  <2>2. Switch(active) /\ rt = "update" /\ rt' = "outputs"
    BY <2>1 DEF GoToState, Call
  <2> QED
    BY <1>23, <2>1, <2>2, SwitchTo DEF GoToState, ResetBlocks, Call
<1>24. CASE ByAny /\ ResetStateMachine
  <2>1. Switch(initial_state) /\ rt = "outputs" /\ rt' = "outputs"
    BY <1>24 DEF ResetStateMachine, Call
  <2> QED
    BY <1>24, <2>1, SwitchTo DEF ResetStateMachine, ResetBlocks, Call
<1>25. CASE ByAny /\ (\E n \in 0 .. usedSlots : SelectCase(n))
  <2>1. PICK n \in Int : SelectCase(n)
    BY <1>25
  <2>2. Switch(n) /\ rt = "outputs" /\ rt' = "outputs"
    BY <2>1 DEF SelectCase, Call
  <2>3. life' = [life EXCEPT ![current_sim'] = "updated"]
    BY <2>1 DEF SelectCase
  <2>4. \/ current_sim' = current_sim
        \/ \E i \in Slot : current_sim' = sim_slots[i] /\ sim_slots[i] # NoSim
    BY <2>2, SwitchTo
  <2> QED
    BY <1>25, <2>1, <2>2, <2>3, <2>4, SwitchTo DEF SelectCase, Call
<1>26. CASE ByAny /\ (\E iterates, resetStates \in BOOLEAN : Loop(iterates, resetStates))
  BY <1>26 DEF Loop, Call
<1>27. CASE ByAny /\ ResetNest
  BY <1>27 DEF ResetNest, Call, ResetBlocks
<1>28. CASE ByAny /\ DestructSimulations
  BY <1>28 DEF DestructSimulations, DestructSlots
<1>29. CASE ByAny /\ DeleteHelper
  BY <1>29 DEF DeleteHelper
<1>30. CASE UNCHANGED vars
  BY <1>30 DEF vars
<1> QED
  BY <1>1, <1>2, <1>3, <1>4, <1>5, <1>6, <1>7, <1>8, <1>9, <1>10, <1>11, <1>12, <1>13, <1>14,
     <1>15, <1>16, <1>17, <1>18, <1>19, <1>20, <1>21, <1>22, <1>23, <1>24, <1>25, <1>26, <1>27,
     <1>28, <1>29, <1>30, <1>31, Steps

\* The other blocks never exchange anything, and update what they evaluated.
LEMMA SingleKept ==
  ASSUME TypeOK, Single, [Next]_vars
  PROVE  Single'
<1> USE SimNumbers, CurrentExists, Functions, Numbers DEF Single, ByAny, ByNested, slotVars,
        simVars, blockVars, outer, exchange
<1>1. CASE ByNested /\ BeginOutputs
  BY <1>1 DEF BeginOutputs, Enter
<1>2. CASE ByNested /\ EndOutputs
  BY <1>2 DEF EndOutputs, Leave, CalcOutputs
<1>31. CASE ByNested /\ MarkInitialised
  BY <1>31 DEF MarkInitialised
<1>3. CASE ByNested /\ CopyOutputs
  BY <1>3 DEF CopyOutputs, Enter, Leave
<1>4. CASE ByNested /\ BeginReset
  BY <1>4 DEF BeginReset, Enter
<1>5. CASE ByNested /\ EndReset
  BY <1>5 DEF EndReset, Leave, ResetBlocks
<1>6. CASE ByNested /\ NoReset
  BY <1>6 DEF NoReset
<1>7. CASE ByNested /\ ReadSwitch
  BY <1>7 DEF ReadSwitch
<1>8. CASE ByNested /\ SwitchInput
  <2>1. Switch(nSim)
    BY <1>8 DEF SwitchInput
  <2> QED
    BY <1>8, <2>1, SwitchTo DEF SwitchInput
<1>9. CASE ByNested /\ TestInitialised
  BY <1>9 DEF TestInitialised
<1>10. CASE ByNested /\ BeginUpdate
  BY <1>10 DEF BeginUpdate, Enter
<1>11. CASE ByNested /\ EndUpdate
  BY <1>11 DEF EndUpdate, Leave, UpdateStates
<1>12. CASE ByNested /\ (\E u \in BOOLEAN : BeginExchange(u))
  BY <1>12 DEF BeginExchange
<1>13. CASE ByNested /\ NoSecondSlot
  BY <1>13 DEF NoSecondSlot, SlotindexOK
<1>14. CASE ByNested /\ TakeOutSecond
  BY <1>14 DEF TakeOutSecond, TakeOut, SlotindexOK, WithinStep
<1>15. CASE ByNested /\ DestructVictim
  BY <1>15 DEF DestructVictim
<1>16. CASE ByNested /\ DeleteIrdata
  BY <1>16 DEF DeleteIrdata
<1>17. CASE ByNested /\ Compile
  BY <1>17 DEF Compile
<1>18. CASE ByNested /\ CompileFails
  BY <1>18 DEF CompileFails
<1>19. CASE ByNested /\ PutInSecond
  BY <1>19 DEF PutInSecond, PutIn, FinishPutIn, WithinStep
<1>20. CASE ByAny /\ PlainOutputs
  BY <1>20 DEF PlainOutputs, Call, CalcOutputs
<1>21. CASE ByAny /\ PlainUpdate
  BY <1>21 DEF PlainUpdate, Call, UpdateStates
<1>22. CASE ByAny /\ (\E handOver \in BOOLEAN : StayInState(handOver))
  BY <1>22 DEF StayInState, Call, UpdateStates
<1>23. CASE ByAny /\ (\E active \in 0 .. usedSlots : GoToState(active))
  <2>1. PICK active \in Int : GoToState(active)
    BY <1>23
  <2>2. Switch(active) /\ rt = "update" /\ rt' = "outputs"
    BY <2>1 DEF GoToState, Call
  <2> QED
    BY <1>23, <2>1, <2>2, SwitchTo DEF GoToState, ResetBlocks, Call
<1>24. CASE ByAny /\ ResetStateMachine
  <2>1. Switch(initial_state) /\ rt = "outputs" /\ rt' = "outputs"
    BY <1>24 DEF ResetStateMachine, Call
  <2> QED
    BY <1>24, <2>1, SwitchTo DEF ResetStateMachine, ResetBlocks, Call
<1>25. CASE ByAny /\ (\E n \in 0 .. usedSlots : SelectCase(n))
  <2>1. PICK n \in Int : SelectCase(n)
    BY <1>25
  <2>2. Switch(n) /\ rt = "outputs" /\ rt' = "outputs"
    BY <2>1 DEF SelectCase, Call
  <2>3. life' = [life EXCEPT ![current_sim'] = "updated"]
    BY <2>1 DEF SelectCase
  <2>4. \/ current_sim' = current_sim
        \/ \E i \in Slot : current_sim' = sim_slots[i] /\ sim_slots[i] # NoSim
    BY <2>2, SwitchTo
  <2> QED
    BY <1>25, <2>1, <2>2, <2>3, <2>4, SwitchTo DEF SelectCase, Call
<1>26. CASE ByAny /\ (\E iterates, resetStates \in BOOLEAN : Loop(iterates, resetStates))
  BY <1>26 DEF Loop, Call
<1>27. CASE ByAny /\ ResetNest
  BY <1>27 DEF ResetNest, Call, ResetBlocks
<1>28. CASE ByAny /\ DestructSimulations
  BY <1>28 DEF DestructSimulations, DestructSlots
<1>29. CASE ByAny /\ DeleteHelper
  BY <1>29 DEF DeleteHelper
<1>30. CASE UNCHANGED vars
  BY <1>30 DEF vars
<1> QED
  BY <1>1, <1>2, <1>3, <1>4, <1>5, <1>6, <1>7, <1>8, <1>9, <1>10, <1>11, <1>12, <1>13, <1>14,
     <1>15, <1>16, <1>17, <1>18, <1>19, <1>20, <1>21, <1>22, <1>23, <1>24, <1>25, <1>26, <1>27,
     <1>28, <1>29, <1>30, <1>31, Steps

\* No state of a state machine is left without being reset.
LEMMA StatesResetKept ==
  ASSUME TypeOK, Shape, Within, Single, StatesReset, [Next]_vars
  PROVE  StatesReset'
<1> USE SimNumbers, CurrentExists, Functions, Numbers DEF StatesReset, Live, Used, SlotindexOK,
        ByAny, ByNested, slotVars, simVars, blockVars, outer, exchange
<1>1. CASE ByNested /\ BeginOutputs
  BY <1>1 DEF BeginOutputs, Enter
<1>2. CASE ByNested /\ EndOutputs
  BY <1>2 DEF EndOutputs, Leave, CalcOutputs
<1>31. CASE ByNested /\ MarkInitialised
  BY <1>31 DEF MarkInitialised
<1>3. CASE ByNested /\ CopyOutputs
  BY <1>3 DEF CopyOutputs, Enter, Leave
<1>4. CASE ByNested /\ BeginReset
  BY <1>4 DEF BeginReset, Enter
<1>5. CASE ByNested /\ EndReset
  BY <1>5 DEF EndReset, Leave, ResetBlocks
<1>6. CASE ByNested /\ NoReset
  BY <1>6 DEF NoReset
<1>7. CASE ByNested /\ ReadSwitch
  BY <1>7 DEF ReadSwitch
<1>8. CASE ByNested /\ SwitchInput
  <2>1. Switch(nSim)
    BY <1>8 DEF SwitchInput
  <2> QED
    BY <1>8, <2>1, SwitchTo DEF SwitchInput
<1>9. CASE ByNested /\ TestInitialised
  BY <1>9 DEF TestInitialised
<1>10. CASE ByNested /\ BeginUpdate
  BY <1>10 DEF BeginUpdate, Enter
<1>11. CASE ByNested /\ EndUpdate
  BY <1>11 DEF EndUpdate, Leave, UpdateStates
<1>12. CASE ByNested /\ (\E u \in BOOLEAN : BeginExchange(u))
  BY <1>12 DEF BeginExchange
<1>13. CASE ByNested /\ NoSecondSlot
  BY <1>13 DEF NoSecondSlot, SlotindexOK
<1>14. CASE ByNested /\ TakeOutSecond
  BY <1>14 DEF TakeOutSecond, TakeOut, SlotindexOK, WithinStep
<1>15. CASE ByNested /\ DestructVictim
  BY <1>15 DEF DestructVictim
<1>16. CASE ByNested /\ DeleteIrdata
  BY <1>16 DEF DeleteIrdata
<1>17. CASE ByNested /\ Compile
  BY <1>17 DEF Compile
<1>18. CASE ByNested /\ CompileFails
  BY <1>18 DEF CompileFails
<1>19. CASE ByNested /\ PutInSecond
  BY <1>19 DEF PutInSecond, PutIn, FinishPutIn, WithinStep
<1>20. CASE ByAny /\ PlainOutputs
  BY <1>20 DEF PlainOutputs, Call, CalcOutputs
<1>21. CASE ByAny /\ PlainUpdate
  BY <1>21 DEF PlainUpdate, Call, UpdateStates
<1>22. CASE ByAny /\ (\E handOver \in BOOLEAN : StayInState(handOver))
  BY <1>22 DEF StayInState, Call, UpdateStates
<1>23. CASE ByAny /\ (\E active \in 0 .. usedSlots : GoToState(active))
  <2>1. PICK active \in Int : GoToState(active)
    BY <1>23
  <2>2. Switch(active) /\ rt = "update" /\ rt' = "outputs"
    BY <2>1 DEF GoToState, Call
  <2> QED
    BY <1>23, <2>1, <2>2, SwitchTo DEF GoToState, ResetBlocks, Call
<1>24. CASE ByAny /\ ResetStateMachine
  <2>1. Switch(initial_state) /\ rt = "outputs" /\ rt' = "outputs"
    BY <1>24 DEF ResetStateMachine, Call
  <2> QED
    BY <1>24, <2>1, SwitchTo DEF ResetStateMachine, ResetBlocks, Call
<1>25. CASE ByAny /\ (\E n \in 0 .. usedSlots : SelectCase(n))
  <2>1. PICK n \in Int : SelectCase(n)
    BY <1>25
  <2>2. Switch(n) /\ rt = "outputs" /\ rt' = "outputs"
    BY <2>1 DEF SelectCase, Call
  <2>3. life' = [life EXCEPT ![current_sim'] = "updated"]
    BY <2>1 DEF SelectCase
  <2>4. \/ current_sim' = current_sim
        \/ \E i \in Slot : current_sim' = sim_slots[i] /\ sim_slots[i] # NoSim
    BY <2>2, SwitchTo
  <2> QED
    BY <1>25, <2>1, <2>2, <2>3, <2>4, SwitchTo DEF SelectCase, Call
<1>26. CASE ByAny /\ (\E iterates, resetStates \in BOOLEAN : Loop(iterates, resetStates))
  BY <1>26 DEF Loop, Call
<1>27. CASE ByAny /\ ResetNest
  BY <1>27 DEF ResetNest, Call, ResetBlocks
<1>28. CASE ByAny /\ DestructSimulations
  BY <1>28 DEF DestructSimulations, DestructSlots
<1>29. CASE ByAny /\ DeleteHelper
  BY <1>29 DEF DeleteHelper
<1>30. CASE UNCHANGED vars
  BY <1>30 DEF vars
<1> QED
  BY <1>1, <1>2, <1>3, <1>4, <1>5, <1>6, <1>7, <1>8, <1>9, <1>10, <1>11, <1>12, <1>13, <1>14,
     <1>15, <1>16, <1>17, <1>18, <1>19, <1>20, <1>21, <1>22, <1>23, <1>24, <1>25, <1>26, <1>27,
     <1>28, <1>29, <1>30, <1>31, Steps

\* No states are updated whose outputs were never calculated, as long as no
\* exchange disturbs a step.
LEMMA EvaluatedKept ==
  ASSUME TypeOK, Shape, Within, Handed, Single, Evaluated, [Next]_vars
  PROVE  Evaluated'
<1> USE SimNumbers, CurrentExists, Functions, Numbers DEF Evaluated, Live, ByAny, ByNested,
        slotVars, simVars, blockVars, outer, exchange
<1>1. CASE ByNested /\ BeginOutputs
  BY <1>1 DEF BeginOutputs, Enter
<1>2. CASE ByNested /\ EndOutputs
  BY <1>2 DEF EndOutputs, Leave, CalcOutputs
<1>31. CASE ByNested /\ MarkInitialised
  BY <1>31 DEF MarkInitialised
<1>3. CASE ByNested /\ CopyOutputs
  BY <1>3 DEF CopyOutputs, Enter, Leave
<1>4. CASE ByNested /\ BeginReset
  BY <1>4 DEF BeginReset, Enter
<1>5. CASE ByNested /\ EndReset
  BY <1>5 DEF EndReset, Leave, ResetBlocks
<1>6. CASE ByNested /\ NoReset
  BY <1>6 DEF NoReset
<1>7. CASE ByNested /\ ReadSwitch
  BY <1>7 DEF ReadSwitch
<1>8. CASE ByNested /\ SwitchInput
  <2>1. Switch(nSim)
    BY <1>8 DEF SwitchInput
  <2> QED
    BY <1>8, <2>1, SwitchTo DEF SwitchInput
<1>9. CASE ByNested /\ TestInitialised
  BY <1>9 DEF TestInitialised
<1>10. CASE ByNested /\ BeginUpdate
  BY <1>10 DEF BeginUpdate, Enter
<1>11. CASE ByNested /\ EndUpdate
  BY <1>11 DEF EndUpdate, Leave, UpdateStates
<1>12. CASE ByNested /\ (\E u \in BOOLEAN : BeginExchange(u))
  BY <1>12 DEF BeginExchange
<1>13. CASE ByNested /\ NoSecondSlot
  BY <1>13 DEF NoSecondSlot, SlotindexOK
<1>14. CASE ByNested /\ TakeOutSecond
  <2>1. 1 \in Slot
    BY <1>14, SlotIndex DEF TakeOutSecond
  <2>2. CASE sim_slots[1] = NoSim
    BY <1>14, <2>2 DEF TakeOutSecond
  <2>3. CASE sim_slots[1] # NoSim
    <3>1. /\ sim_slots' = [sim_slots EXCEPT ![1] = NoSim] /\ current_sim' = sim_slots[0]
          /\ UNCHANGED <<initialised, current_slot, slots_mutex, simVars, rt, inside, defined, blockVars>>
          /\ ~disturbed' => ~disturbed /\ rt = "outputs" /\ current_slot \in {0, 1}
      BY <1>14, <2>3 DEF TakeOutSecond, TakeOut, WithinStep
    <3>2. \A i \in Slot : sim_slots'[i] # NoSim => sim_slots'[i] = sim_slots[i]
      BY <2>1, <3>1
    <3>3. ~disturbed' => sim_slots'[current_slot] \in {NoSim, current_sim'}
      BY <2>1, <3>1, SimNumbers
    <3> QED
      BY <3>1, <3>2, <3>3
  <2> QED
    BY <2>2, <2>3
<1>15. CASE ByNested /\ DestructVictim
  BY <1>15 DEF DestructVictim
<1>16. CASE ByNested /\ DeleteIrdata
  BY <1>16 DEF DeleteIrdata
<1>17. CASE ByNested /\ Compile
  BY <1>17 DEF Compile
<1>18. CASE ByNested /\ CompileFails
  BY <1>18 DEF CompileFails
<1>19. CASE ByNested /\ PutInSecond
  <2>1. 1 \in Slot
    BY <1>19, SecondSlot DEF PutInSecond
  <2>2. /\ ~disturbed' => ~disturbed /\ rt = "outputs"
        /\ UNCHANGED <<life, evaluated, rt, inside, defined, blockVars>>
    BY <1>19 DEF PutInSecond, WithinStep
  <2>3. CASE PutIn(1, current_irdata)
    <3>1. /\ sim_slots' = [sim_slots EXCEPT ![1] = current_irdata] /\ slots_mutex' = TRUE
          /\ initialised' = [initialised EXCEPT ![1] = FALSE]
      BY <2>3 DEF PutIn
    <3>2. ~disturbed' /\ kind = "nested" /\ Live =>
            \A i \in Slot : initialised'[i] /\ sim_slots'[i] # NoSim => sim_slots'[i] \in evaluated
      BY <2>1, <2>2, <3>1
    <3> QED
      BY <2>2, <3>1, <3>2
  <2>4. CASE FinishPutIn(1)
    <3>1. xpc = "finish"
      BY <1>19, <2>4, SimNumbers DEF PutInSecond, PutIn, FinishPutIn, Handed
    <3>2. Live => sim_slots[1] = current_sim
      BY <3>1 DEF Handed
    <3> QED
      BY <2>2, <2>4, <3>2 DEF FinishPutIn
  <2> QED
    BY <1>19, <2>3, <2>4 DEF PutInSecond
<1>20. CASE ByAny /\ PlainOutputs
  BY <1>20 DEF PlainOutputs, Call, CalcOutputs
<1>21. CASE ByAny /\ PlainUpdate
  BY <1>21 DEF PlainUpdate, Call, UpdateStates, Single
<1>22. CASE ByAny /\ (\E handOver \in BOOLEAN : StayInState(handOver))
  BY <1>22 DEF StayInState, Call, UpdateStates, Single
<1>23. CASE ByAny /\ (\E active \in 0 .. usedSlots : GoToState(active))
  <2>1. PICK active \in Int : GoToState(active)
    BY <1>23
  <2>2. Switch(active) /\ rt = "update" /\ rt' = "outputs"
    BY <2>1 DEF GoToState, Call
  <2> QED
    BY <1>23, <2>1, <2>2, SwitchTo DEF GoToState, ResetBlocks, Call
<1>24. CASE ByAny /\ ResetStateMachine
  <2>1. Switch(initial_state) /\ rt = "outputs" /\ rt' = "outputs"
    BY <1>24 DEF ResetStateMachine, Call
  <2> QED
    BY <1>24, <2>1, SwitchTo DEF ResetStateMachine, ResetBlocks, Call
<1>25. CASE ByAny /\ (\E n \in 0 .. usedSlots : SelectCase(n))
  <2>1. PICK n \in Int : SelectCase(n)
    BY <1>25
  <2>2. Switch(n) /\ rt = "outputs" /\ rt' = "outputs"
    BY <2>1 DEF SelectCase, Call
  <2>3. life' = [life EXCEPT ![current_sim'] = "updated"]
    BY <2>1 DEF SelectCase
  <2>4. \/ current_sim' = current_sim
        \/ \E i \in Slot : current_sim' = sim_slots[i] /\ sim_slots[i] # NoSim
    BY <2>2, SwitchTo
  <2> QED
    BY <1>25, <2>1, <2>2, <2>3, <2>4, SwitchTo DEF SelectCase, Call
<1>26. CASE ByAny /\ (\E iterates, resetStates \in BOOLEAN : Loop(iterates, resetStates))
  BY <1>26 DEF Loop, Call
<1>27. CASE ByAny /\ ResetNest
  BY <1>27 DEF ResetNest, Call, ResetBlocks
<1>28. CASE ByAny /\ DestructSimulations
  BY <1>28 DEF DestructSimulations, DestructSlots
<1>29. CASE ByAny /\ DeleteHelper
  BY <1>29 DEF DeleteHelper
<1>30. CASE UNCHANGED vars
  BY <1>30 DEF vars
<1> QED
  BY <1>1, <1>2, <1>3, <1>4, <1>5, <1>6, <1>7, <1>8, <1>9, <1>10, <1>11, <1>12, <1>13, <1>14,
     <1>15, <1>16, <1>17, <1>18, <1>19, <1>20, <1>21, <1>22, <1>23, <1>24, <1>25, <1>26, <1>27,
     <1>28, <1>29, <1>30, <1>31, Steps

-----------------------------------------------------------------------------
\* A container as it is compiled from the parameters of a block.
LEMMA InitInvariant == Init => IInv
<1> SUFFICES ASSUME Init
             PROVE  IInv
  OBVIOUS
<1>1. PICK n \in SlotsOf(kind), last \in Slot : /\ last < n /\ initial_state = last
                                                /\ SlotsInit(n, last)
  BY DEF Init
<1>2. n \in 1 .. MaxSlots
  BY MaxSlotsAssumption DEF SlotsOf
<1>3. /\ usedSlots = n /\ current_sim = last /\ current_slot = last /\ slots_mutex = FALSE
      /\ sim_slots = [i \in Slot |-> IF i < n THEN i ELSE NoSim]
      /\ initialised = [i \in Slot |-> FALSE] /\ evaluated = {}
      /\ life = [s \in Sim |-> IF s < n THEN "initial" ELSE "absent"]
  BY <1>1 DEF SlotsInit
<1>4. /\ kind \in Kinds /\ defined = TRUE /\ rt = "outputs" /\ inside = NoSim /\ nSim = 0
      /\ x_global = NoSim /\ xpc = "idle" /\ unload = FALSE /\ victim = NoSim /\ loads = 0
      /\ irdata = {} /\ current_irdata = NoSim /\ disturbed = FALSE
  BY DEF Init
<1>5. \A i \in Slot : sim_slots[i] # NoSim => sim_slots[i] = i /\ i < n
  BY <1>3
<1>6. \A s \in Sim : life[s] # "updated" /\ (life[s] \in {"initial", "updated"} <=> s < n)
                      /\ (s < n => life[s] = "initial")
  BY <1>3
<1>7. n \in Int /\ last \in Slot /\ last < n /\ n <= MaxSlots /\ n > 0
  BY <1>1, <1>2, MaxSlotsAssumption
<1>8. TypeOK
  <2>1. sim_slots \in [Slot -> Sim \union {NoSim}] /\ initialised \in [Slot -> BOOLEAN]
    BY <1>3, SimNumbers
  <2>2. life \in [Sim -> {"absent", "initial", "updated", "destructed"}] /\ evaluated \subseteq Sim
    BY <1>3
  <2>3. nSim \in 0 .. MaxSlots /\ loads \in 0 .. MaxLoads
    BY <1>4, MaxSlotsAssumption, MaxLoadsAssumption
  <2>4. current_sim \in Sim /\ current_slot \in Slot /\ slots_mutex \in BOOLEAN
        /\ initial_state \in Slot /\ usedSlots \in 1 .. MaxSlots
    BY <1>1, <1>2, <1>3, SimNumbers
  <2> QED
    BY <1>4, <2>1, <2>2, <2>3, <2>4 DEF TypeOK
<1>9. Shape
  <2>1. sim_slots[0] = 0 /\ sim_slots[last] = last
    BY <1>3, <1>7, SimNumbers
  <2> QED
    BY <1>3, <1>5, <1>6, <1>7, <2>1, SimNumbers DEF Shape, Live, Alive
<1>10. Within /\ Handed /\ Numbered
  BY <1>3, <1>4 DEF Within, Handed, Numbered, Live
<1>11. Loaded
  BY <1>3, <1>6, <1>7, SimNumbers, MaxSlotsAssumption DEF Loaded, Alive, Slot, Sim
<1>12. Parameters /\ Single
  BY <1>4 DEF Parameters, Single
<1>13. StatesReset
  BY <1>3, <1>5, <1>6, <1>7, SimNumbers DEF StatesReset, Used
<1>14. Evaluated
  BY <1>3, <1>4, <1>5, <1>6, <1>7, SimNumbers DEF Evaluated, Live
<1> QED
  BY <1>8, <1>9, <1>10, <1>11, <1>12, <1>13, <1>14 DEF IInv

-----------------------------------------------------------------------------
\* The invariant is inductive: it holds whatever the two threads do, for any
\* number of slots and of exchanges.
THEOREM Invariant == Spec => []IInv
<1>1. IInv /\ [Next]_vars => IInv'
  BY TypeKept, ShapeKept, WithinKept, HandedKept, NumberedKept, LoadedKept, ParametersKept,
     SingleKept, StatesResetKept, EvaluatedKept DEF IInv
<1> QED
  BY InitInvariant, <1>1, PTL DEF Spec

\* The variables keep their types.
THEOREM TypeCorrect == Spec => []TypeOK
<1>1. IInv => TypeOK
  BY DEF IInv
<1> QED
  BY Invariant, <1>1, PTL

\* The simulation the outer thread enters next is always one that exists and is
\* in a slot, also while the other thread exchanges the second one.
THEOREM CurrentStaysAlive == Spec => []CurrentIsAlive
<1>1. IInv => CurrentIsAlive
  BY CurrentExists DEF IInv, CurrentIsAlive, Shape, Live
<1> QED
  BY Invariant, <1>1, PTL

\* The parameters of a simulation loaded from files are in memory as long as
\* the simulation exists.
THEOREM ParametersStay == Spec => []ParametersOutlive
<1>1. IInv => ParametersOutlive
  BY DEF IInv, ParametersOutlive, Loaded
<1> QED
  BY Invariant, <1>1, PTL

\* However exchanges succeed and fail, between two of them no parameter set is
\* in memory without its simulation being in the second slot.
THEOREM NothingLeaked == Spec => []NoParametersLeaked
<1>1. IInv => NoParametersLeaked
  <2> SUFFICES ASSUME IInv, SlotindexOK(1), defined, xpc = "idle", rt \notin {"helper", "gone"},
                      NEW p \in irdata
               PROVE  sim_slots[1] = p
    BY DEF NoParametersLeaked
  <2>1. p = current_irdata
    BY DEF IInv, Parameters
  <2>2. current_irdata # NoSim
    BY <2>1, SimNumbers DEF IInv, TypeOK
  <2> QED
    BY <2>1, <2>2 DEF IInv, Parameters, Live
<1> QED
  BY Invariant, <1>1, PTL

\* A state of the state machine is entered in its initial state.
THEOREM StatesStayReset == Spec => []InactiveStatesReset
<1>1. IInv => InactiveStatesReset
  BY DEF IInv, StatesReset, InactiveStatesReset
<1> QED
  BY Invariant, <1>1, PTL

\* Undisturbed, no states are updated before outputs were calculated.
THEOREM OutputsBeforeUpdates == Spec => []UpdatedAfterOutputs
<1>1. IInv => UpdatedAfterOutputs
  BY DEF IInv, Evaluated, UpdatedAfterOutputs
<1> QED
  BY Invariant, <1>1, PTL

-----------------------------------------------------------------------------
\* What a step does while the slots are locked: either the exchange releases
\* them, having destructed and deleted nothing, or the outer thread goes on and
\* what is current stays as it is.
LEMMA LockedStep ==
  ASSUME IInv, slots_mutex, [Next]_vars
  PROVE  \/ ~slots_mutex' /\ UNCHANGED <<sim_slots, current_sim, life, irdata>>
         \/ slots_mutex' /\ UNCHANGED <<exchange, sim_slots, current_sim, current_slot>>
<1>1. xpc = "finish" /\ kind = "nested"
  BY DEF IInv, Handed, Single
<1>2. nSim \in Int
  BY Numbers DEF IInv
<1>3. CASE UNCHANGED vars
  BY <1>3 DEF vars, slotVars
<1>4. CASE BeginOutputs \/ EndOutputs \/ MarkInitialised
  BY <1>4 DEF BeginOutputs, EndOutputs, MarkInitialised, slotVars, exchange
<1>5. CASE CopyOutputs \/ BeginReset \/ EndReset \/ NoReset \/ ReadSwitch
  BY <1>5 DEF CopyOutputs, BeginReset, EndReset, NoReset, ReadSwitch, slotVars, exchange
<1>6. CASE SwitchInput
  BY <1>6 DEF SwitchInput, Switch, CanLock, SetCurrent, Used, exchange
<1>7. CASE TestInitialised \/ BeginUpdate \/ EndUpdate
  BY <1>7 DEF TestInitialised, BeginUpdate, EndUpdate, slotVars, exchange
<1>8. CASE PutInSecond
  BY <1>1, <1>8, SimNumbers DEF PutInSecond, FinishPutIn, simVars
<1>9. ~(\/ (\E u \in BOOLEAN : BeginExchange(u)) \/ NoSecondSlot \/ TakeOutSecond
        \/ DestructVictim \/ DeleteIrdata \/ Compile \/ CompileFails)
  BY <1>1 DEF BeginExchange, NoSecondSlot, TakeOutSecond, DestructVictim, DeleteIrdata,
              Compile, CompileFails
<1>10. ~(\/ PlainOutputs \/ PlainUpdate \/ (\E handOver \in BOOLEAN : StayInState(handOver))
         \/ (\E active \in 0 .. usedSlots : GoToState(active)) \/ ResetStateMachine
         \/ (\E n \in 0 .. usedSlots : SelectCase(n))
         \/ (\E iterates, resetStates \in BOOLEAN : Loop(iterates, resetStates)) \/ ResetNest)
  BY <1>1 DEF PlainOutputs, PlainUpdate, StayInState, GoToState, ResetStateMachine, SelectCase,
              Loop, ResetNest
<1>11. ~DestructSimulations
  BY DEF DestructSimulations, DestructSlots
<1>12. ~(ByAny /\ DeleteHelper)
  BY <1>1 DEF DeleteHelper, ByAny, IInv, Handed
<1> QED
  BY <1>3, <1>4, <1>5, <1>6, <1>7, <1>8, <1>9, <1>10, <1>11, <1>12, Steps DEF ByNested

\* The slots are locked across steps only while an exchange makes the new
\* simulation the current one; its next step releases them, without destructing,
\* compiling or deleting, and until then the outer thread changes neither the
\* slots nor what is current.  This is the safety part of SwitchReturns.
THEOREM LockIsShort ==
  Spec => /\ [](slots_mutex => xpc = "finish")
          /\ [][slots_mutex =>
                  \/ ~slots_mutex' /\ UNCHANGED <<sim_slots, current_sim, life, irdata>>
                  \/ slots_mutex' /\ UNCHANGED <<exchange, sim_slots, current_sim, current_slot>>]_vars
<1>1. IInv => (slots_mutex => xpc = "finish")
  BY DEF IInv, Handed
<1>2. IInv /\ [Next]_vars =>
        [slots_mutex =>
           \/ ~slots_mutex' /\ UNCHANGED <<sim_slots, current_sim, life, irdata>>
           \/ slots_mutex' /\ UNCHANGED <<exchange, sim_slots, current_sim, current_slot>>]_vars
  BY LockedStep
<1> QED
  BY Invariant, <1>1, <1>2, PTL DEF Spec
=============================================================================

---------------------------- MODULE SimulationStep ----------------------------
(***************************************************************************)
(* The execution of a compiled schematic: libdyn_simulation_step and       *)
(* libdyn_simulation_resetblocks of libdyn.c, on top of the execution list *)
(* set up by ExecutionList.                                                *)
(*                                                                         *)
(* A step is two calls.  The first computes outputs along the execution    *)
(* list; a block without direct feedthrough computes only when its flag    *)
(* needs_output_update is set.  The second updates the states of the       *)
(* blocks for which an event is active, and sets their flags.  The caller  *)
(* triggers the events; a nested schematic computes outputs whenever its   *)
(* surrounding block does, so that several output calls may precede one    *)
(* update.  A reset may come between the two calls: a nested schematic is  *)
(* reset between its outputs and its state update.                         *)
(*                                                                         *)
(* Computational functions are constants.  All outputs of a block carry    *)
(* one value and all external inputs are connected to one variable.        *)
(***************************************************************************)
EXTENDS ExecutionList

CONSTANTS
  Value, InitialState,
  CalcOutput(_, _, _),  (* COMPF_FLAG_CALCOUTPUTS: kind, state, inputs       *)
  UpdateState(_, _, _), (* COMPF_FLAG_UPDATESTATES: kind, state, inputs      *)
  ResetOutput(_, _)     (* COMPF_FLAG_RESETSTATES: what a block of the kind  *)
                        (* shows afterwards, if it showed this output before *)

ASSUME ValueAssumption == InitialState \in Value

ASSUME FunctionsAssumption ==
  \A k \in Kinds, x \in Value : \A u \in [1 .. k.nin -> Value] :
    CalcOutput(k, x, u) \in Value /\ UpdateState(k, x, u) \in Value

ASSUME ResetAssumption == \A k \in Kinds, y \in Value : ResetOutput(k, y) \in Value

\* What a block says with the flag d_feedthrough of its outputs: without it they
\* do not depend on the inputs.
ASSUME FeedthroughAssumption ==
  \A k \in Kinds, x \in Value : \A u, v \in [1 .. k.nin -> Value] :
    ~k.dfeed => CalcOutput(k, x, u) = CalcOutput(k, x, v)

VARIABLES
  phase,    (* "off", "idle", "calc", "settled", "reset" (settled outputs   *)
            (* that were reset before the update) or "update"               *)
  cur,      (* position in the list being traversed                         *)
  ext,      (* the external input                                           *)
  active,   (* events.event_active as the set of its bits                   *)
  state,
  out,
  needs,    (* the blocks whose flag needs_output_update is set             *)
  before,   (* history: the states when the state update began              *)
  left      (* history: the blocks whose outputs did not fit the initial    *)
            (* states after the latest reset, without those that the        *)
            (* computation of the outputs takes care of since               *)

compiled == <<pc, schematic, setup, at>>
run      == <<phase, cur, ext, active, state, out, needs, before, left>>

Events == UNION {k.events : k \in Kinds}

RunInit ==
  /\ Init
  /\ phase = "off" /\ cur = 1 /\ ext \in Value /\ active = {}
  /\ state = [b \in Block |-> InitialState]
  /\ out = [b \in Block |-> InitialState]
  /\ needs = Block
  /\ before = state
  /\ left = {}

-----------------------------------------------------------------------------

\* What block b reads while the outputs are y.
Reads(y, b) ==
  [i \in 1 .. kind[b].nin |->
     IF intype[<<b, i>>] = "extern" THEN ext ELSE y[pre[<<b, i>>][1]]]

Inputs(b) == Reads(out, b)

\* __libdyn_event_triggered: event_active & event_mask > 0, in signed ints: a
\* result with its highest bit set is negative.
Triggered(b) ==
  LET hit == kind[b].events \intersect active IN hit # {} /\ 31 \notin hit

\* After a reset, blocks of kind k without a direct feedthrough show what fits
\* their initial state: the function that resets a state sets the output as well,
\* as the delays of basic_ldblocks.c do, and one without a state lets it be.  The
\* nested simulations, for example, reset what is inside and set no output.
Restores(k) ==
  ~k.dfeed /\ \A y \in Value, u \in [1 .. k.nin -> Value] :
    ResetOutput(k, y) = IF k.dynamic THEN CalcOutput(k, InitialState, u) ELSE y

\* libdyn_irpar_setup succeeded and the blocks are initialised.  A port that
\* is unconnected and was not found out would be read through a garbage
\* pointer: that has no model.
Start ==
  /\ phase = "off"
  /\ pc = "done"
  /\ Unconnected = {}
  /\ phase' = "idle"
  /\ UNCHANGED <<cur, ext, active, state, out, needs, before, left>>

\* The caller sets the external input, triggers events (an overwriting
\* libdyn_event_trigger_mask) and calls for the outputs.
BeginOutputs(value, mask) ==
  /\ phase \in {"idle", "settled", "reset"}
  /\ ext' = value
  /\ active' = mask
  /\ phase' = "calc" /\ cur' = 1
  /\ left' = {b \in left : ~kind[b].dfeed /\ b \notin needs}
  /\ UNCHANGED <<state, out, needs, before>>

CalcOutputs ==
  /\ phase = "calc"
  /\ LET b == execlist[cur] IN
       IF kind[b].dfeed
         THEN /\ out' = [out EXCEPT ![b] = CalcOutput(kind[b], state[b], Inputs(b))]
              /\ UNCHANGED needs
       ELSE IF b \in needs
         THEN /\ out' = [out EXCEPT ![b] = CalcOutput(kind[b], state[b], Inputs(b))]
              /\ needs' = needs \ {b}
       ELSE UNCHANGED <<out, needs>>
  /\ IF cur < Len(execlist) THEN cur' = cur + 1 /\ UNCHANGED phase
                            ELSE cur' = 1 /\ phase' = "settled"
  /\ UNCHANGED <<ext, active, state, before, left>>

\* The states are updated from the outputs as they are, reset or not.
BeginUpdate ==
  /\ phase \in {"settled", "reset"}
  /\ phase' = "update"
  /\ before' = state
  /\ UNCHANGED <<cur, ext, active, state, out, needs, left>>

\* Mutants: the flag of the block before is set; the outputs are computed with
\* the states, block by block.
FlagBefore ==
  /\ phase = "update"
  /\ IF kind[cur].dynamic /\ Triggered(cur)
       THEN /\ state' = [state EXCEPT ![cur] = UpdateState(kind[cur], @, Inputs(cur))]
            /\ needs' = needs \union {cur - 1}
       ELSE UNCHANGED <<state, needs>>
  /\ IF cur < Len(kind) THEN cur' = cur + 1 /\ UNCHANGED <<phase, active>>
                        ELSE cur' = 1 /\ phase' = "idle" /\ active' = {}
  /\ UNCHANGED <<ext, out, before, left>>

UpdateInTurn ==
  /\ phase = "update"
  /\ IF kind[cur].dynamic /\ Triggered(cur)
       THEN /\ state' = [state EXCEPT ![cur] = UpdateState(kind[cur], @, Inputs(cur))]
            /\ out' = [out EXCEPT ![cur] = CalcOutput(kind[cur], state'[cur], Inputs(cur))]
            /\ needs' = needs \union {cur}
       ELSE UNCHANGED <<state, needs, out>>
  /\ IF cur < Len(kind) THEN cur' = cur + 1 /\ UNCHANGED <<phase, active>>
                        ELSE cur' = 1 /\ phase' = "idle" /\ active' = {}
  /\ UNCHANGED <<ext, before, left>>

\* The state update visits the blocks with a state in the order of creation.
UpdateStates ==
  /\ phase = "update"
  /\ IF kind[cur].dynamic /\ Triggered(cur)
       THEN /\ state' = [state EXCEPT ![cur] = UpdateState(kind[cur], @, Inputs(cur))]
            /\ needs' = needs \union {cur}
       ELSE UNCHANGED <<state, needs>>
  /\ IF cur < Len(kind) THEN cur' = cur + 1 /\ UNCHANGED <<phase, active>>
                        ELSE cur' = 1 /\ phase' = "idle" /\ active' = {}
  /\ UNCHANGED <<ext, out, before, left>>

\* The blocks whose outputs y, after a reset, do not fit the initial states.
LeftWith(y) ==
  {b \in Created : y[b] # CalcOutput(kind[b], InitialState, Reads(y, b))}

\* Mutant: the reset leaves the outputs to the next computation.
ResetStates ==
  /\ phase \in {"idle", "settled", "reset"}
  /\ state' = [b \in Block |-> InitialState]
  /\ phase' = IF phase = "idle" THEN "idle" ELSE "reset"
  /\ left' = LeftWith(out)
  /\ UNCHANGED <<cur, ext, active, out, needs, before>>

\* COMPF_FLAG_RESETSTATES of every block, with or without a direct feedthrough.
\* libdyn_simulation_resetblocks leaves needs_output_update alone, and whether a
\* block sets its output is up to its function.
ResetBlocks ==
  /\ phase \in {"idle", "settled", "reset"}
  /\ state' = [b \in Block |-> InitialState]
  /\ out' = [b \in Block |->
               IF b \in Created THEN ResetOutput(kind[b], out[b]) ELSE out[b]]
  /\ phase' = IF phase = "idle" THEN "idle" ELSE "reset"
  /\ left' = LeftWith(out')
  /\ UNCHANGED <<cur, ext, active, needs, before>>

Run ==
  \/ Start
  \/ \E value \in Value, mask \in SUBSET Events : BeginOutputs(value, mask)
  \/ CalcOutputs
  \/ BeginUpdate
  \/ UpdateStates
  \/ ResetBlocks

\* Nothing runs after a set-up that failed or missed an unconnected port.
NotStarted == pc \in Ended /\ phase = "off" /\ UNCHANGED <<compiled, run>>

RunNext ==
  \/ Compile /\ UNCHANGED run
  \/ Run /\ UNCHANGED compiled
  \/ NotStarted

RunSpec == RunInit /\ [][RunNext]_<<compiled, run>>

-----------------------------------------------------------------------------

RunTypeOK ==
  /\ phase \in {"off", "idle", "calc", "settled", "reset", "update"}
  /\ phase # "off" => pc = "done"
  /\ cur \in 1 .. MaxBlocks
  /\ ext \in Value
  /\ active \subseteq Events
  /\ state \in [Block -> Value] /\ out \in [Block -> Value] /\ before \in [Block -> Value]
  /\ needs \subseteq Block /\ left \subseteq Created

\* After the outputs are computed, they solve the equations of the schematic:
\* the output of every block on the list is the one its computational function
\* gives for its state and for the inputs its neighbours and the outside show
\* now.  Neither the order of the list nor a skipped computation leaves an
\* output of an earlier step behind, but for one case: a block without a direct
\* feedthrough, of a kind that does not restore its output, that was reset after
\* its outputs were computed and has not been updated since.
OutputsSettled ==
  phase = "settled" /\ Overridden = {} =>
    \A b \in executed :
      \/ out[b] = CalcOutput(kind[b], state[b], Inputs(b))
      \/ b \in left \ needs /\ ~kind[b].dfeed /\ ~Restores(kind[b])

\* The execution implements synchronous data flow: the states change all at
\* once, from outputs that solve the equations of all blocks but those whose
\* outputs a reset left behind.
Flow == INSTANCE Dataflow WITH
  net  <- [kind |-> kind, intype |-> intype, pre |-> pre, computed |-> executed,
           sound |-> Overridden = {}],
  x    <- IF phase = "update" THEN before ELSE state,
  u    <- ext,
  on   <- phase # "off",
  held <- IF phase = "idle" THEN left \ needs ELSE left
FlowSpec == Flow!Spec

\* "Jedes Bit ein event: Wenn 1 dann signal in diesem Schritt": when the state
\* update ends, every block with a state that subscribes to an active event has
\* got it, and its outputs are to be computed anew.
EveryBitIsAnEvent ==
  [][phase = "update" /\ phase' = "idle" =>
       \A b \in Created :
         kind[b].dynamic /\ kind[b].events \intersect active # {} => b \in needs'
    ]_<<compiled, run>>
=============================================================================

------------------------------- MODULE Dataflow -------------------------------
(***************************************************************************)
(* What the execution of a schematic promises: synchronous data flow.  In  *)
(* every step the outputs of the blocks solve the equations of the         *)
(* network for the present states and the external input, and all states   *)
(* are updated at once from that solution.  No order of blocks, no list    *)
(* and no flag appears here.                                               *)
(*                                                                         *)
(* A reset gives all blocks their initial states and may leave outputs     *)
(* that fit no longer.  Those blocks are held: their equations need not be *)
(* solved.  The next input ends this, except for blocks without a direct   *)
(* feedthrough whose kind does not restore its output; these are held      *)
(* until they are triggered.                                               *)
(***************************************************************************)
EXTENDS Integers, Sequences

CONSTANTS
  Value,                (* the values of states, outputs and external input  *)
  InitialState,
  CalcOutput(_, _, _),  (* of block kind, state and inputs                    *)
  UpdateState(_, _, _),
  Restores(_)           (* blocks of this kind show what fits after a reset   *)

VARIABLES
  net,   (* the network: the kind of each block, the type and the source of  *)
         (* its inputs, which blocks compute outputs, and whether it is      *)
         (* sound: no connection overridden by another                       *)
  x,     (* the states of the blocks                                         *)
  u,     (* the external input                                               *)
  on,    (* the schematic is running                                         *)
  held   (* the blocks with the output a reset left                          *)

vars == <<net, x, u, on, held>>

Inputs(y, b) ==
  [i \in 1 .. net.kind[b].nin |->
     IF net.intype[<<b, i>>] = "extern" THEN u ELSE y[net.pre[<<b, i>>][1]]]

\* The outputs y solve the equations of the blocks that compute outputs and are
\* not held.
Solves(y) ==
  \A b \in net.computed \ held : y[b] = CalcOutput(net.kind[b], x[b], Inputs(y, b))

Triggered(b, active) ==
  net.kind[b].dynamic /\ net.kind[b].events \intersect active # {}

Init == on = FALSE /\ held = {} /\ x = [b \in DOMAIN x |-> InitialState]

Compile == ~on /\ UNCHANGED <<x, held>>

Start == ~on /\ on' /\ UNCHANGED <<net, x, u, held>>

Input ==
  /\ on
  /\ u' \in Value
  /\ held' \subseteq {b \in held : ~net.kind[b].dfeed /\ ~Restores(net.kind[b])}
  /\ UNCHANGED <<net, x, on>>

Step(active) ==
  /\ on
  /\ net.sound
  /\ \E y \in [DOMAIN x -> Value] :
       /\ Solves(y)
       /\ x' = [b \in DOMAIN x |->
                  IF b \in DOMAIN net.kind /\ Triggered(b, active)
                    THEN UpdateState(net.kind[b], x[b], Inputs(y, b))
                    ELSE x[b]]
  /\ held' \subseteq {b \in held : ~Triggered(b, active)}
  /\ UNCHANGED <<net, u, on>>

\* Nothing is promised for a schematic with an overridden connection.
UnsoundStep ==
  /\ on /\ ~net.sound
  /\ x' \in [DOMAIN x -> Value] /\ held' \subseteq held
  /\ UNCHANGED <<net, u, on>>

Reset ==
  /\ on
  /\ x' = [b \in DOMAIN x |-> InitialState]
  /\ held' \subseteq DOMAIN net.kind
  /\ UNCHANGED <<net, u, on>>

Next ==
  \/ Compile \/ Start \/ Input \/ Reset \/ UnsoundStep
  \/ \E active \in SUBSET (UNION {net.kind[b].events : b \in DOMAIN net.kind}) : Step(active)

Spec == Init /\ [][Next]_vars
=============================================================================

---------------------------- MODULE ExecutionList ----------------------------
(***************************************************************************)
(* From a complete schematic to the order in which the blocks compute      *)
(* their outputs: libdyn_simulation_checkinputs and                        *)
(* libdyn_setup_executionlist of libdyn.c, called by libdyn_irpar_setup.   *)
(*                                                                         *)
(* The set-up runs in one thread.  It passes over all blocks twice and     *)
(* then walks the execution list it is extending: for every block on the   *)
(* list it marks the input ports its outputs feed as available, and a      *)
(* block whose last missing input becomes available joins the list.        *)
(***************************************************************************)
EXTENDS Schematic

VARIABLES
  remaining,  (* per block: inputs not yet known to be available           *)
  available,  (* the input ports marked available                          *)
  executed,   (* the blocks whose flag block_executed is set               *)
  execlist,   (* the execution list                                        *)
  at          (* cursor: block of a pass, or list position/port/junction   *)

setup == <<remaining, available, executed, execlist>>
vars  == <<pc, schematic, setup, at>>

Begin == [pos |-> 1, out |-> 1, jct |-> 1]

Init ==
  /\ SchematicInit
  /\ remaining = [b \in Block |-> 0]
  /\ available = {}
  /\ executed = {}
  /\ execlist = <<>>
  /\ at = Begin

-----------------------------------------------------------------------------

Unconnected == {in \in UNION {InPorts(b) : b \in Created} : intype[in] = "undef"}

\* The data pointer of an unconnected port was never written, the port array
\* comes from malloc: the check against NULL may find the fault or miss it.
CheckInputs ==
  /\ pc = "build"
  /\ \/ /\ pc' = IF Len(kind) = 0 THEN "crashed" ELSE "pass1"
        /\ UNCHANGED schematic
     \/ /\ Unconnected # {}
        /\ pc' = "refused"
        /\ DeleteSchematic
  /\ UNCHANGED <<setup, at>>

\* Mutant: does not look at block_executed.
AddAlways(b) ==
  /\ execlist' = Append(execlist, b)
  /\ executed' = executed \union {b}

\* libdyn_add_to_execution_list
AddToExecutionList(b) ==
  /\ execlist' = IF b \in executed THEN execlist ELSE Append(execlist, b)
  /\ executed' = executed \union {b}

\* One round of a pass over all blocks, and where the pass goes on.
Advance(next) ==
  IF at.pos < Len(kind)
    THEN at' = [at EXCEPT !.pos = @ + 1] /\ UNCHANGED pc
    ELSE at' = Begin /\ pc' = next

\* Mutant: one available input is enough.
Pass1OneInput ==
  /\ pc = "pass1"
  /\ LET b      == at.pos
         extern == {in \in InPorts(b) : intype[in] = "extern"}
     IN  /\ remaining' = [remaining EXCEPT ![b] = kind[b].nin - Cardinality(extern)]
         /\ available' = available \union extern
         /\ IF extern # {} \/ kind[b].nin = 0 THEN AddToExecutionList(b)
                                              ELSE UNCHANGED <<executed, execlist>>
  /\ Advance("pass2")
  /\ UNCHANGED schematic

\* First pass: external inputs are available, a block with no other input can
\* be executed.
Pass1 ==
  /\ pc = "pass1"
  /\ LET b      == at.pos
         extern == {in \in InPorts(b) : intype[in] = "extern"}
     IN  /\ remaining' = [remaining EXCEPT ![b] = kind[b].nin - Cardinality(extern)]
         /\ available' = available \union extern
         /\ IF extern = InPorts(b) THEN AddToExecutionList(b)
                                   ELSE UNCHANGED <<executed, execlist>>
  /\ Advance("pass2")
  /\ UNCHANGED schematic

\* Second pass: purely dynamic blocks can be executed whatever feeds them.
\* After it an empty execution list is an error.
Pass2 ==
  /\ pc = "pass2"
  /\ IF PureDynamic(at.pos) THEN AddToExecutionList(at.pos)
                            ELSE UNCHANGED <<executed, execlist>>
  /\ Advance(IF execlist' = <<>> THEN "empty" ELSE "walk")
  /\ UNCHANGED <<schematic, remaining, available>>

\* The output port the walk is at.
Here == <<execlist[at.pos], at.out>>

\* Mutants: the counter is tested before it is decremented; the port number
\* is one too small.
MarkInputLate ==
  /\ pc = "walk"
  /\ at.out <= kind[execlist[at.pos]].nout
  /\ at.jct <= Len(post[Here])
  /\ LET in == post[Here][at.jct]
         b  == in[1]
     IN  /\ available' = available \union {in}
         /\ remaining' = [remaining EXCEPT ![b] = @ - 1]
         /\ IF remaining[b] = 0
              THEN AddToExecutionList(b)
              ELSE UNCHANGED <<executed, execlist>>
  /\ at' = [at EXCEPT !.jct = @ + 1]
  /\ UNCHANGED <<pc, schematic>>

MarkInputBefore ==
  /\ pc = "walk"
  /\ at.out <= kind[execlist[at.pos]].nout
  /\ at.jct <= Len(post[Here])
  /\ LET in == post[Here][at.jct]
         b  == in[1]
     IN  /\ available' = available \union {<<b, in[2] - 1>>}
         /\ remaining' = [remaining EXCEPT ![b] = @ - 1]
         /\ IF remaining[b] = 1
              THEN AddToExecutionList(b)
              ELSE UNCHANGED <<executed, execlist>>
  /\ at' = [at EXCEPT !.jct = @ + 1]
  /\ UNCHANGED <<pc, schematic>>

\* One entry of a junction list: libdyn_setup_executionlist_setandcheck_avail
\* and, when no input remains, the block joins the list or, if it is already
\* on it and has a direct feedthrough, an algebraic loop is reported.
MarkInput ==
  /\ pc = "walk"
  /\ at.out <= kind[execlist[at.pos]].nout
  /\ at.jct <= Len(post[Here])
  /\ LET in == post[Here][at.jct]
         b  == in[1]
     IN  /\ available' = available \union {in}
         /\ remaining' = [remaining EXCEPT ![b] = @ - 1]
         /\ IF remaining[b] = 1
              THEN /\ AddToExecutionList(b)
                   /\ pc' = IF b \in executed /\ kind[b].dfeed THEN "loop" ELSE "walk"
              ELSE UNCHANGED <<executed, execlist, pc>>
  /\ at' = [at EXCEPT !.jct = @ + 1]
  /\ UNCHANGED schematic

\* Mutant: stays at the output port.
SameOutput ==
  /\ pc = "walk"
  /\ at.out <= kind[execlist[at.pos]].nout
  /\ at.jct > Len(post[Here])
  /\ at' = [at EXCEPT !.jct = 1]
  /\ UNCHANGED <<pc, schematic, setup>>

NextOutput ==
  /\ pc = "walk"
  /\ at.out <= kind[execlist[at.pos]].nout
  /\ at.jct > Len(post[Here])
  /\ at' = [at EXCEPT !.out = @ + 1, !.jct = 1]
  /\ UNCHANGED <<pc, schematic, setup>>

NextBlock ==
  /\ pc = "walk"
  /\ at.out > kind[execlist[at.pos]].nout
  /\ IF at.pos < Len(execlist)
       THEN at' = [pos |-> at.pos + 1, out |-> 1, jct |-> 1] /\ UNCHANGED pc
       ELSE pc' = "done" /\ UNCHANGED at
  /\ UNCHANGED <<schematic, setup>>

\* libdyn_setup_executionlist returned an error: the simulation is deleted.
Undo ==
  /\ pc \in {"empty", "loop"}
  /\ pc' = "refused"
  /\ DeleteSchematic
  /\ remaining' = [b \in Block |-> 0]
  /\ available' = {} /\ executed' = {} /\ execlist' = <<>>
  /\ at' = Begin

SetupStep == Pass1 \/ Pass2 \/ MarkInput \/ NextOutput \/ NextBlock \/ Undo

Ended == {"done", "refused", "crashed"}

\* libdyn_irpar_setup has returned (or crashed); nothing is left to do.
Stopped == pc \in Ended /\ UNCHANGED vars

Compile ==
  \/ Build /\ UNCHANGED <<setup, at>>
  \/ CheckInputs
  \/ SetupStep

Next == Compile \/ Stopped

\* The set-up is a sequential function: once called it runs.
Spec == Init /\ [][Next]_vars /\ WF_vars(SetupStep)

-----------------------------------------------------------------------------

TypeOK ==
  /\ pc \in {"build", "pass1", "pass2", "walk", "empty", "loop"} \union Ended
  /\ kind \in Seq(Kinds) /\ Len(kind) <= MaxBlocks
  /\ intype \in [Port -> {"undef", "direct", "extern"}]
  /\ pre \in [Port -> Port \union {NoPort}]
  /\ post \in [Port -> Seq(Port)]
  /\ remaining \in [Block -> Int]
  /\ available \subseteq Port
  /\ executed \subseteq Block
  /\ execlist \in Seq(Block)
  /\ at \in [pos : Nat \ {0}, out : Nat \ {0}, jct : Nat \ {0}]

\* Every block is on the execution list at most once, and block_executed says
\* exactly which ones are: a step of the simulation calls CALCOUTPUTS once.
ScheduledOnce ==
  /\ \A i, j \in 1 .. Len(execlist) : execlist[i] = execlist[j] => i = j
  /\ \A b \in Block : b \in executed <=> \E i \in 1 .. Len(execlist) : execlist[i] = b

\* At every moment of the set-up, a block on the execution list whose outputs
\* depend on its inputs comes after every block that feeds it: it never
\* computes from outputs of the step before.  (As long as no connection between
\* blocks was overridden by an external one: libdyn_block_connect_external
\* leaves the junction list alone, and the input would be counted twice.)
OrderValid ==
  Overridden = {} =>
    \A i \in 1 .. Len(execlist) :
      ~PureDynamic(execlist[i]) =>
        \A in \in InPorts(execlist[i]) :
          intype[in] = "direct" => \E j \in 1 .. (i - 1) : execlist[j] = pre[in][1]

\* When the set-up returns success, a block it left off the list has an input
\* that is unconnected or fed by a block that is off the list too: only
\* blocks on or behind a loop of such blocks (or behind a fault the input
\* check missed) are never executed.
LeftOutOnlyBehindLoops ==
  pc = "done" /\ Overridden = {} =>
    \A b \in Created \ executed :
      /\ ~PureDynamic(b)
      /\ \E in \in InPorts(b) :
           \/ intype[in] = "undef"
           \/ intype[in] = "direct" /\ pre[in][1] \notin executed

\* The branch that reports an algebraic loop is never taken: a block with a
\* direct feedthrough joins the list only when none of its inputs remains,
\* so its counter cannot reach zero once more.
LoopNeverReported == pc # "loop"

\* What the error message "algebraic loop containing block ... detected"
\* promises: with all inputs connected, a set-up that returns success has
\* every block on the execution list.
EveryBlockExecuted == pc = "done" /\ Unconnected = {} => Created \subseteq executed

\* The set-up ends for every schematic, loops of blocks included.
SetupEnds == (pc \in {"pass1", "pass2", "walk", "empty", "loop"}) ~> (pc \in Ended)

=============================================================================

---------------------------- MODULE BlockLifecycle ----------------------------
(***************************************************************************)
(* How the blocks of a simulation come into being and are destroyed:       *)
(* libdyn_simulation_init, libdyn_simulation_callinitflag and              *)
(* libdyn_del_simulation of libdyn.c.                                      *)
(*                                                                         *)
(* A block is created in two stages.  PREINIT creates what other blocks    *)
(* need (shared objects, ring buffers, persistent memory), INIT creates    *)
(* the block itself; DESTUCTOR undoes INIT and POSTDESTUCTOR undoes        *)
(* PREINIT.  Each flag goes to all blocks, in the order of their creation, *)
(* before the next one does.  PREINIT and INIT of a block may fail.        *)
(*                                                                         *)
(* Blocks made from the templates of libdyn_cpp.h, the shared objects      *)
(* among them, keep to this.  The blocks that own ring buffers and         *)
(* persistent memory do not: they delete what PREINIT made with DESTUCTOR, *)
(* and do not know POSTDESTUCTOR.  They are called early here.             *)
(*                                                                         *)
(* The simulation is used by libdyn::irpar_setup, which initialises it     *)
(* itself and, when that fails, never runs and never deletes it ("cpp"),   *)
(* or by a C program, which leaves the initialisation to the first step;   *)
(* a step ignores its result ("c").                                        *)
(***************************************************************************)
EXTENDS Integers

CONSTANT NumBlocks

ASSUME NumBlocksAssumption == NumBlocks \in Nat \ {0}

VARIABLES
  client,              (* "cpp" or "c"                                       *)
  early,               (* the blocks with ring buffers or persistent memory  *)
  pc,                  (* what the simulation does next                      *)
  at,                  (* the block it has come to                           *)
  abort_at,            (* the block that failed                              *)
  block_initialised,   (* of each block                                      *)
  blocks_initialised,  (* of the simulation                                  *)
  pre,                 (* what PREINIT made of each block                    *)
  obj,                 (* what INIT made of each block                       *)
  failed,              (* history: an initialisation failed                  *)
  misused,             (* history: blocks that were run without INIT         *)
  unborn,              (* history: blocks destructed without INIT            *)
  again                (* history: blocks destructed twice                   *)

flags   == <<block_initialised, blocks_initialised>>
history == <<failed, misused, unborn, again>>
vars    == <<client, early, pc, at, abort_at, flags, pre, obj, history>>

Block == 1 .. NumBlocks

Init ==
  /\ client \in {"cpp", "c"} /\ early \in SUBSET Block
  /\ pc = "ready" /\ at = 1 /\ abort_at = 0
  /\ block_initialised = [b \in Block |-> 0] /\ blocks_initialised = 0
  /\ pre = [b \in Block |-> "none"] /\ obj = [b \in Block |-> "none"]
  /\ failed = 0 /\ misused = {} /\ unborn = {} /\ again = {}

\* Mutant: one block too many.
OnwardLate(to) ==
  IF at <= NumBlocks THEN at' = at + 1 /\ pc' = pc
                     ELSE at' = 1 /\ pc' = to

\* On to the next block of the list, or to what follows the last one.
Onward(to) ==
  IF at < NumBlocks THEN at' = at + 1 /\ pc' = pc
                    ELSE at' = 1 /\ pc' = to

-----------------------------------------------------------------------------
(* The functions of a block                                                *)

\* Mutant: DESTUCTOR of every block deletes what PREINIT made.
DestructorOfBoth(b) ==
  /\ obj' = [obj EXCEPT ![b] = "destroyed"]
  /\ pre' = [pre EXCEPT ![b] = "destroyed"]
  /\ unborn' = IF obj[b] = "none" THEN unborn \union {b} ELSE unborn
  /\ again' = IF obj[b] = "destroyed" THEN again \union {b} ELSE again

\* The counter of users that an early block looks at is never incremented.
Destructor(b) ==
  /\ obj' = [obj EXCEPT ![b] = "destroyed"]
  /\ pre' = IF b \in early THEN [pre EXCEPT ![b] = "destroyed"] ELSE pre
  /\ unborn' = IF obj[b] = "none" THEN unborn \union {b} ELSE unborn
  /\ again' = IF obj[b] = "destroyed" THEN again \union {b} ELSE again

PostDestructor(b) ==
  pre' = IF b \in early THEN pre ELSE [pre EXCEPT ![b] = "destroyed"]

\* CALCOUTPUTS, UPDATESTATES and RESETSTATES, which a block without INIT does
\* not survive.
RunBlocks == misused' = misused \union {b \in Block : obj[b] # "alive"}

-----------------------------------------------------------------------------
(* Initialisation                                                          *)

\* libdyn::irpar_setup, or the first step of a C program, and any later one
\* as long as blocks_initialised is not set.
BeginInit ==
  /\ pc = "ready" /\ blocks_initialised = 0
  /\ pc' = "preinit" /\ at' = 1
  /\ UNCHANGED <<client, early, abort_at, flags, pre, obj, history>>

\* A pass of libdyn_simulation_callinitflag marks each block and, at its end,
\* the simulation.
Mark ==
  /\ block_initialised' = [block_initialised EXCEPT ![at] = 1]
  /\ blocks_initialised' = IF at = NumBlocks THEN 1 ELSE blocks_initialised

PreInit ==
  /\ pc = "preinit"
  /\ pre' = [pre EXCEPT ![at] = "alive"]
  /\ Mark /\ Onward("init")
  /\ UNCHANGED <<client, early, abort_at, obj, history>>

InitBlock ==
  /\ pc = "init"
  /\ obj' = [obj EXCEPT ![at] = "alive"]
  /\ Mark /\ Onward("postinit")
  /\ UNCHANGED <<client, early, abort_at, pre, history>>

\* Nothing is done about a POSTINIT that fails.
PostInit ==
  /\ pc = "postinit"
  /\ Mark /\ Onward(IF client = "cpp" THEN "ready" ELSE "step")
  /\ UNCHANGED <<client, early, abort_at, pre, obj, history>>

Fail ==
  /\ \/ /\ pc = "preinit" /\ pc' = "undo_preinit"
        /\ pre' = [pre EXCEPT ![at] = "failed"] /\ UNCHANGED obj
     \/ /\ pc = "init" /\ pc' = "undo_init"
        /\ obj' = [obj EXCEPT ![at] = "failed"] /\ UNCHANGED pre
  /\ abort_at' = at /\ at' = 1 /\ failed' = 1
  /\ UNCHANGED <<client, early, flags, misused, unborn, again>>

\* Mutant: the block stays marked.
UndoMarked ==
  /\ at < abort_at /\ at' = at + 1
  /\ \/ pc = "undo_preinit" /\ PostDestructor(at) /\ UNCHANGED <<obj, unborn, again>>
     \/ pc = "undo_init" /\ Destructor(at)
  /\ UNCHANGED <<client, early, pc, abort_at, flags, failed, misused>>

\* undo_everything: the blocks before the one that failed.  A failed INIT
\* leaves what PREINIT made.
Undo ==
  /\ at < abort_at /\ at' = at + 1
  /\ \/ pc = "undo_preinit" /\ PostDestructor(at) /\ UNCHANGED <<obj, unborn, again>>
     \/ pc = "undo_init" /\ Destructor(at)
  /\ block_initialised' = [block_initialised EXCEPT ![at] = 0]
  /\ UNCHANGED <<client, early, pc, abort_at, blocks_initialised, failed, misused>>

Undone ==
  /\ pc \in {"undo_preinit", "undo_init"} /\ at = abort_at
  /\ pc' = IF client = "cpp" THEN "abandoned" ELSE "step"
  /\ at' = 1 /\ abort_at' = 0
  /\ UNCHANGED <<client, early, flags, pre, obj, history>>

-----------------------------------------------------------------------------
(* Use and destruction                                                     *)

\* Mutant: blocks_initialised is not looked at.
StepAnyway ==
  /\ pc \in {"step", "ready"} /\ pc' = "ready"
  /\ RunBlocks
  /\ UNCHANGED <<client, early, at, abort_at, flags, pre, obj, failed, unborn, again>>

\* libdyn_simulation_step, right after the initialisation it made or not.
Step ==
  /\ \/ pc = "step"
     \/ pc = "ready" /\ blocks_initialised = 1
  /\ pc' = "ready"
  /\ RunBlocks
  /\ UNCHANGED <<client, early, at, abort_at, flags, pre, obj, failed, unborn, again>>

\* libdyn_del_simulation; libdyn::irpar_setup is done when it is called, and so
\* is libdyn_irpar_setup, which deletes what it could not compile.
BeginDelete ==
  /\ pc = "ready" /\ pc' = "delete" /\ at' = 1
  /\ UNCHANGED <<client, early, abort_at, flags, pre, obj, history>>

\* Mutant: the mark is removed in the first pass.
DeleteAndClear ==
  /\ pc = "delete"
  /\ IF block_initialised[at] = 1 THEN Destructor(at) ELSE UNCHANGED <<pre, obj, unborn, again>>
  /\ block_initialised' = [block_initialised EXCEPT ![at] = 0]
  /\ Onward("post_delete")
  /\ UNCHANGED <<client, early, abort_at, blocks_initialised, failed, misused>>

Delete ==
  /\ pc = "delete"
  /\ IF block_initialised[at] = 1 THEN Destructor(at) ELSE UNCHANGED <<pre, obj, unborn, again>>
  /\ Onward("post_delete")
  /\ UNCHANGED <<client, early, abort_at, flags, failed, misused>>

PostDelete ==
  /\ pc = "post_delete"
  /\ IF block_initialised[at] = 1 THEN PostDestructor(at) ELSE UNCHANGED pre
  /\ block_initialised' = [block_initialised EXCEPT ![at] = 0]
  /\ Onward("gone")
  /\ UNCHANGED <<client, early, abort_at, blocks_initialised, obj, history>>

Ended == pc \in {"gone", "abandoned"} /\ UNCHANGED vars

InitStep   == PreInit \/ InitBlock \/ PostInit \/ Fail \/ Undo \/ Undone
DeleteStep == Delete \/ PostDelete

Next == BeginInit \/ InitStep \/ Step \/ BeginDelete \/ DeleteStep \/ Ended

Spec == Init /\ [][Next]_vars

-----------------------------------------------------------------------------
TypeOK ==
  /\ client \in {"cpp", "c"} /\ early \subseteq Block
  /\ pc \in {"ready", "preinit", "init", "postinit", "undo_preinit", "undo_init", "step",
             "delete", "post_delete", "gone", "abandoned"}
  /\ at \in Block /\ abort_at \in 0 .. NumBlocks
  /\ block_initialised \in [Block -> {0, 1}] /\ blocks_initialised \in {0, 1}
  /\ pre \in [Block -> {"none", "alive", "failed", "destroyed"}]
  /\ obj \in [Block -> {"none", "alive", "failed", "destroyed"}]
  /\ failed \in {0, 1}
  /\ misused \subseteq Block /\ unborn \subseteq Block /\ again \subseteq Block

\* As long as a single block exists, so does what PREINIT made for it in any
\* other block that keeps to the two stages: a block may use the shared objects of
\* others from its INIT to its DESTUCTOR, whatever initialisation fails and
\* whenever the simulation is deleted.  Of ring buffers and persistent memory this
\* holds for the blocks created before their owner only, which are destructed
\* before it.
ProvidersAlive ==
  \A b, p \in Block : obj[b] = "alive" /\ (p \in early => b <= p) => pre[p] = "alive"

\* No block is destructed a second time, be it by the undo pass, by a repeated
\* initialisation or by the deletion of a simulation that was undone.
DestructedOnce == again = {}

\* Blocks are run, and are destructed, without having been initialised only
\* if an initialisation failed.
OnlyInitialisedUsed == failed = 0 => misused = {} /\ unborn = {}

\* The deletion leaves no block behind, and nothing of what PREINIT made unless
\* an initialisation failed.
NothingLeftBehind ==
  pc = "gone" =>
    \A b \in Block : obj[b] # "alive" /\ (pre[b] = "alive" => failed = 1)
=============================================================================

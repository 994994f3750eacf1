------------------------- MODULE BlockLifecycleProofs -------------------------
(***************************************************************************)
(* The invariants of BlockLifecycle hold for any number of blocks.  The    *)
(* inductive invariant says, for each phase, what has been made of the     *)
(* blocks the phase has passed and of those it has not come to yet.        *)
(***************************************************************************)
EXTENDS BlockLifecycle, TLAPS

\* Marked exactly as long as the destructor has not been called.
Marks == \A b \in Block : block_initialised[b] = 1 <=> obj[b] # "destroyed"

\* What PREINIT made of the blocks that keep to the two stages.
AllPre(v) == \A b \in Block \ early : pre[b] = v
AllObj(v) == \A b \in Block : obj[b] = v

\* The destructor of an early block takes along what PREINIT made.
EarlyGone == \A b \in early : obj[b] = "destroyed" => pre[b] = "destroyed"

\* Until PREINIT was successful for all blocks.
BeforeInit ==
  /\ pc \in {"ready", "preinit", "undo_preinit", "step", "delete", "post_delete",
             "gone", "abandoned"}
  /\ AllObj("none")
  /\ \A b \in Block :
       block_initialised[b] =
         IF \/ pc = "preinit" /\ b < at
            \/ pc = "undo_preinit" /\ at <= b /\ b < abort_at
           THEN 1 ELSE 0
  /\ pc = "preinit" => \A b \in Block : b < at => pre[b] = "alive"
  /\ pc \in {"ready", "step", "delete", "post_delete", "gone", "abandoned"} /\ failed = 0 =>
       \A b \in Block : pre[b] = "none"

\* INIT, POSTINIT, and the undo pass of INIT.
DuringInit ==
  /\ pc \in {"init", "postinit", "undo_init"} => AllPre("alive")
  /\ pc = "init" =>
       \A b \in Block : block_initialised[b] = 1 /\ obj[b] = IF b < at THEN "alive" ELSE "none"
  /\ pc = "postinit" => AllObj("alive") /\ \A b \in Block : block_initialised[b] = 1
  /\ pc = "undo_init" =>
       \A b \in Block :
         /\ block_initialised[b] = IF b < at THEN 0 ELSE 1
         /\ obj[b] = IF b < at THEN "destroyed"
                     ELSE IF b < abort_at THEN "alive"
                     ELSE IF b = abort_at THEN "failed" ELSE "none"

\* Afterwards all blocks are alive unless an initialisation failed.
AfterInit ==
  /\ pc \in {"ready", "step", "abandoned", "delete"} => AllPre("alive")
  /\ pc \in {"ready", "step", "abandoned"} =>
       Marks /\ (failed = 0 => AllObj("alive"))
  /\ pc = "delete" =>
       \A b \in Block :
         IF b < at THEN obj[b] = "destroyed" /\ (failed = 0 => block_initialised[b] = 1)
         ELSE /\ block_initialised[b] = 1 <=> obj[b] # "destroyed"
              /\ failed = 0 => obj[b] = "alive"
  /\ pc \in {"post_delete", "gone"} => AllObj("destroyed")
  /\ pc = "post_delete" /\ failed = 0 =>
       \A b \in Block : IF b < at THEN pre[b] = "destroyed" ELSE block_initialised[b] = 1
  /\ pc = "gone" /\ failed = 0 => AllPre("destroyed")

Phases ==
  /\ pc \in {"undo_preinit", "undo_init"} => failed = 1 /\ at <= abort_at
  /\ pc \in {"undo_preinit", "undo_init"} => abort_at \in Block
  /\ blocks_initialised = 0 => BeforeInit
  /\ pc \in {"preinit", "undo_preinit"} => blocks_initialised = 0
  /\ blocks_initialised = 1 => DuringInit /\ AfterInit
  /\ pc = "step" /\ blocks_initialised = 0 => failed = 1
  /\ EarlyGone
  /\ again = {}
  /\ failed = 0 => misused = {} /\ unborn = {}

IInv == TypeOK /\ Phases
-----------------------------------------------------------------------------

\* A simulation that was just created.
LEMMA InitInvariant == Init => IInv
<1> SUFFICES ASSUME Init PROVE IInv
  OBVIOUS
<1>1. TypeOK
  BY NumBlocksAssumption DEF Init, TypeOK, Block
<1>2. Phases
  BY NumBlocksAssumption DEF Init, Phases, BeforeInit, AllObj, EarlyGone, Block
<1> QED BY <1>1, <1>2 DEF IInv

\* Type correctness is kept.
LEMMA TypeOKStep ==
  ASSUME IInv, [Next]_vars
  PROVE  TypeOK'
<1> USE NumBlocksAssumption DEF flags, history, IInv, TypeOK, Phases, Block, Mark, Onward
<1>1. CASE BeginInit
  BY <1>1 DEF BeginInit
<1>2. CASE PreInit
  BY <1>2 DEF PreInit
<1>3. CASE InitBlock
  BY <1>3 DEF InitBlock
<1>4. CASE PostInit
  BY <1>4 DEF PostInit
<1>5. CASE Fail
  BY <1>5 DEF Fail
<1>6. CASE Undo
  <2>1. at' \in Block
    BY <1>6 DEF Undo
  <2>2. /\ pre' \in [Block -> {"none", "alive", "failed", "destroyed"}]
        /\ obj' \in [Block -> {"none", "alive", "failed", "destroyed"}]
    BY <1>6 DEF Undo, PostDestructor, Destructor
  <2>3. block_initialised' \in [Block -> {0, 1}] /\ unborn' \subseteq Block /\ again' \subseteq Block
    BY <1>6 DEF Undo, PostDestructor, Destructor
  <2> QED
    BY <1>6, <2>1, <2>2, <2>3 DEF Undo
<1>7. CASE Undone
  BY <1>7 DEF Undone
<1>8. CASE Step
  BY <1>8 DEF Step, RunBlocks
<1>9. CASE BeginDelete
  BY <1>9 DEF BeginDelete
<1>10. CASE Delete
  <2>1. at' \in Block /\ pc' \in {"delete", "post_delete"}
    BY <1>10 DEF Delete
  <2>2. /\ pre' \in [Block -> {"none", "alive", "failed", "destroyed"}]
        /\ obj' \in [Block -> {"none", "alive", "failed", "destroyed"}]
        /\ unborn' \subseteq Block /\ again' \subseteq Block
    <3>1. /\ at \in Block /\ unborn \subseteq Block /\ again \subseteq Block
          /\ pre \in [Block -> {"none", "alive", "failed", "destroyed"}]
          /\ obj \in [Block -> {"none", "alive", "failed", "destroyed"}]
      OBVIOUS
    <3>2. UNCHANGED <<pre, obj, unborn, again>> \/ Destructor(at)
      BY <1>10 DEF Delete
    <3> HIDE DEF IInv, TypeOK, Phases, Block
    <3>3. CASE Destructor(at)
      BY <3>1, <3>3 DEF Destructor
    <3> QED
      BY <3>1, <3>2, <3>3
  <2> QED
    BY <1>10, <2>1, <2>2 DEF Delete
<1>11. CASE PostDelete
  BY <1>11 DEF PostDelete, PostDestructor
<1>12. CASE UNCHANGED vars
  BY <1>12 DEF vars
<1> QED
  BY <1>1, <1>2, <1>3, <1>4, <1>5, <1>6, <1>7, <1>8, <1>9, <1>10, <1>11, <1>12
  DEF Next, InitStep, DeleteStep, Ended

\* The phases follow one another.
LEMMA PhasesStep ==
  ASSUME IInv, [Next]_vars
  PROVE  Phases'
<1> USE NumBlocksAssumption DEF flags, history, IInv, TypeOK, Phases, Block, BeforeInit,
      DuringInit, AfterInit, Marks, AllPre, AllObj, EarlyGone, Mark, Onward
<1>1. CASE BeginInit
  BY <1>1 DEF BeginInit
<1>2. CASE PreInit
  BY <1>2 DEF PreInit
<1>3. CASE InitBlock
  BY <1>3 DEF InitBlock
<1>4. CASE PostInit
  BY <1>4 DEF PostInit
<1>5. CASE Fail
  BY <1>5 DEF Fail
<1>6. CASE Undo
  BY <1>6 DEF Undo, PostDestructor, Destructor
<1>7. CASE Undone
  BY <1>7 DEF Undone
<1>8. CASE Step
  BY <1>8 DEF Step, RunBlocks
<1>9. CASE BeginDelete
  BY <1>9 DEF BeginDelete
<1>10. CASE Delete
  <2>1. at \in Block /\ (blocks_initialised = 0 \/ blocks_initialised = 1)
    OBVIOUS
  <2>2. CASE blocks_initialised = 0
    <3>1. UNCHANGED <<pre, obj, unborn, again>>
      BY <1>10, <2>2 DEF Delete
    <3> QED
      BY <1>10, <2>2, <3>1 DEF Delete
  <2>3. CASE blocks_initialised = 1
    <3>1. obj' \in [Block -> {"none", "alive", "failed", "destroyed"}] /\ obj'[at] = "destroyed"
      BY <1>10, <2>3 DEF Delete, Destructor
    <3>2. \A b \in Block : b # at => obj'[b] = obj[b]
      BY <1>10 DEF Delete, Destructor
    <3>3. again' = {}
      BY <1>10, <2>3 DEF Delete, Destructor
    <3>4. failed = 0 => misused' = {} /\ unborn' = {}
      BY <1>10, <2>3 DEF Delete, Destructor
    <3>5. UNCHANGED <<flags, failed, early>>
      BY <1>10 DEF Delete
    <3>9. \A b \in Block \ early : pre'[b] = pre[b]
      BY <1>10 DEF Delete, Destructor
    <3>10. EarlyGone'
      <4>1. \A b \in early : b # at => pre'[b] = pre[b]
        BY <1>10 DEF Delete, Destructor
      <4>2. CASE obj[at] = "destroyed"
        BY <1>10, <2>3, <4>2 DEF Delete
      <4>3. CASE obj[at] # "destroyed"
        <5>1. Destructor(at)
          BY <1>10, <2>3, <4>3 DEF Delete
        <5>2. at \in early => pre'[at] = "destroyed"
          BY <5>1 DEF Destructor
        <5> QED
          BY <3>2, <3>5, <4>1, <5>2
      <4> QED
        BY <4>2, <4>3
    <3>6. CASE at < NumBlocks
      <4>1. pc = "delete" /\ pc' = "delete" /\ at' = at + 1
        BY <1>10, <3>6 DEF Delete
      <4>2. AllPre("alive")'
        BY <2>3, <3>5, <3>9, <4>1
      <4>3. ASSUME NEW b \in Block
            PROVE  IF b < at' THEN obj'[b] = "destroyed" /\ (failed = 0 => block_initialised[b] = 1)
                   ELSE /\ block_initialised[b] = 1 <=> obj'[b] # "destroyed"
                        /\ failed = 0 => obj'[b] = "alive"
        BY <2>3, <3>1, <3>2, <4>1
      <4> QED
        BY <2>3, <3>3, <3>4, <3>5, <3>10, <4>1, <4>2, <4>3
    <3>7. CASE at = NumBlocks
      <4>1. pc' = "post_delete" /\ at' = 1
        BY <1>10, <3>7 DEF Delete
      <4>2. AllObj("destroyed")'
        BY <1>10, <2>3, <3>1, <3>2, <3>7 DEF Delete
      <4>3. failed = 0 => \A b \in Block : block_initialised'[b] = 1
        BY <1>10, <2>3, <3>5, <3>7 DEF Delete
      <4> QED
        BY <2>3, <3>3, <3>4, <3>5, <3>10, <4>1, <4>2, <4>3
    <3> QED
      BY <2>1, <3>6, <3>7
  <2> QED
    BY <2>1, <2>2, <2>3
<1>11. CASE PostDelete
  BY <1>11 DEF PostDelete, PostDestructor
<1>12. CASE UNCHANGED vars
  BY <1>12 DEF vars
<1> QED
  BY <1>1, <1>2, <1>3, <1>4, <1>5, <1>6, <1>7, <1>8, <1>9, <1>10, <1>11, <1>12
  DEF Next, InitStep, DeleteStep, Ended

\* The inductive invariant holds throughout.
THEOREM Invariant == Spec => []IInv
<1>1. IInv /\ [Next]_vars => IInv'
  BY TypeOKStep, PhasesStep DEF IInv
<1> QED
  BY InitInvariant, <1>1, PTL DEF Spec

\* Every variable keeps its type, for any number of blocks.
THEOREM TypeCorrect == Spec => []TypeOK
<1>1. IInv => TypeOK
  BY DEF IInv
<1> QED
  BY Invariant, <1>1, PTL

\* From PREINIT of all blocks on, what it made of an early block is there until
\* the block is destructed.
EarlyKept ==
  blocks_initialised = 1 => \A p \in early : obj[p] # "destroyed" => pre[p] = "alive"

\* Both the undo pass and the deletion destruct blocks in the order of their creation.
DestructedInOrder ==
  \A b, p \in Block : obj[b] = "alive" /\ b <= p => obj[p] # "destroyed"

\* No step takes away what an early block made before it destructs the block.
LEMMA EarlyKeptStep ==
  ASSUME IInv, EarlyKept, [Next]_vars
  PROVE  EarlyKept'
<1> USE DEF IInv, TypeOK, Phases, EarlyKept, Block, Mark, flags, history
<1>1. CASE PreInit
  BY <1>1, NumBlocksAssumption DEF PreInit, BeforeInit
<1>2. CASE InitBlock \/ Fail
  <2>1. blocks_initialised = 1 => pc = "init"
    BY <1>2 DEF InitBlock, Fail
  <2>2. pc = "init" => obj[at] = "none"
    BY DEF BeforeInit, DuringInit
  <2>3. pc = "init" => blocks_initialised = 1
    BY DEF BeforeInit
  <2>4. pc = "init" => early' = early /\ pre' = pre /\ \A p \in early : p # at => obj'[p] = obj[p]
    BY <1>2 DEF InitBlock, Fail
  <2>5. CASE pc = "init"
    BY <2>2, <2>3, <2>4, <2>5
  <2>6. CASE pc # "init"
    BY <1>2, <2>1, <2>6 DEF InitBlock, Fail
  <2> QED
    BY <2>5, <2>6
<1>3. CASE Undo
  BY <1>3 DEF Undo, PostDestructor, Destructor
<1>4. CASE Delete
  BY <1>4 DEF Delete, Destructor
<1>5. CASE PostDelete
  BY <1>5 DEF PostDelete, PostDestructor
<1>6. CASE PostInit
  BY <1>6 DEF PostInit, BeforeInit
<1>7. CASE BeginInit \/ Undone \/ Step \/ BeginDelete \/ UNCHANGED vars
  BY <1>7 DEF BeginInit, Undone, Step, BeginDelete, vars
<1> QED
  BY <1>1, <1>2, <1>3, <1>4, <1>5, <1>6, <1>7 DEF Next, InitStep, DeleteStep, Ended

\* The order is kept: a block that is destructed has no living block before it.
LEMMA DestructedInOrderStep ==
  ASSUME IInv, DestructedInOrder, [Next]_vars
  PROVE  DestructedInOrder'
<1> USE DEF IInv, TypeOK, Phases, DestructedInOrder, Block, flags, history
<1>1. CASE InitBlock
  BY <1>1 DEF InitBlock, BeforeInit, DuringInit
<1>2. CASE Fail
  BY <1>2 DEF Fail
<1>3. CASE Undo
  BY <1>3, NumBlocksAssumption DEF Undo, Destructor, BeforeInit, DuringInit, AllObj
<1>4. CASE Delete
  BY <1>4, NumBlocksAssumption DEF Delete, Destructor, BeforeInit, AfterInit, AllObj
<1>5. CASE UNCHANGED obj
  BY <1>5
<1> QED
  BY <1>1, <1>2, <1>3, <1>4, <1>5
  DEF Next, InitStep, DeleteStep, Ended, BeginInit, PreInit, PostInit, Undone, Step,
      BeginDelete, PostDelete, vars

\* Whatever PREINIT made exists as long as any block does, or, where one function
\* destructs both, any block up to its owner.
THEOREM ProvidersStayAlive == Spec => []ProvidersAlive
<1>1. Init => EarlyKept /\ DestructedInOrder
  BY DEF Init, EarlyKept, DestructedInOrder
<1>2. IInv /\ EarlyKept /\ DestructedInOrder /\ [Next]_vars => (EarlyKept /\ DestructedInOrder)'
  BY EarlyKeptStep, DestructedInOrderStep
<1>3. IInv /\ EarlyKept /\ DestructedInOrder => ProvidersAlive
  <2> SUFFICES ASSUME IInv, EarlyKept, DestructedInOrder, NEW b \in Block, NEW p \in Block,
                      obj[b] = "alive", p \in early => b <= p
               PROVE  pre[p] = "alive"
    BY DEF ProvidersAlive
  <2>1. blocks_initialised = 1
    BY DEF IInv, TypeOK, Phases, BeforeInit, AllObj
  <2>2. CASE p \in early
    BY <2>1, <2>2 DEF EarlyKept, DestructedInOrder
  <2>3. CASE p \notin early
    BY <2>1, <2>3 DEF IInv, TypeOK, Phases, BeforeInit, DuringInit, AfterInit, AllPre, AllObj
  <2> QED
    BY <2>2, <2>3
<1> QED
  BY Invariant, <1>1, <1>2, <1>3, PTL DEF Spec

\* No block is destructed a second time.
THEOREM NoSecondDestruction == Spec => []DestructedOnce
<1>1. IInv => DestructedOnce
  BY DEF IInv, Phases, DestructedOnce
<1> QED
  BY Invariant, <1>1, PTL

\* Without a failure only blocks that were initialised are run and destructed.
THEOREM InitialisedUsedOnly == Spec => []OnlyInitialisedUsed
<1>1. IInv => OnlyInitialisedUsed
  BY DEF IInv, Phases, OnlyInitialisedUsed
<1> QED
  BY Invariant, <1>1, PTL

\* Nothing is left of a deleted simulation.
THEOREM DeletedCompletely == Spec => []NothingLeftBehind
<1>1. IInv => NothingLeftBehind
  BY DEF IInv, TypeOK, Phases, NothingLeftBehind, BeforeInit, AfterInit, AllPre, AllObj, EarlyGone
<1> QED
  BY Invariant, <1>1, PTL
=============================================================================

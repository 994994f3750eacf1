------------------------- MODULE SimulationStepProofs -------------------------
(***************************************************************************)
(* Proofs that the steps of a compiled schematic are synchronous data      *)
(* flow, for every set of block kinds, every computational functions and   *)
(* every schematic without an overridden connection.                       *)
(*                                                                         *)
(* The idea: the blocks of the execution list before the cursor solve      *)
(* their equations, and none of them is disturbed by the block that is     *)
(* computed next, for what a block with a direct feedthrough reads stands  *)
(* before it on the list (OrderValid), where no block occurs twice         *)
(* (ScheduledOnce).  A block that is skipped has an output that fits its   *)
(* state.  The state update runs through the blocks while the outputs and  *)
(* the states of the beginning stay as they were.                          *)
(***************************************************************************)
EXTENDS SimulationStep, ExecutionOrderProofs

\* Block b solves its equation for the states x.
Solved(b, x) == out[b] = CalcOutput(kind[b], x[b], Inputs(b))

\* Until the start nothing runs; afterwards the schematic is compiled, and no
\* port of it is unconnected.
Started ==
  IF phase = "off"
    THEN state = [b \in Block |-> InitialState] /\ needs = Block /\ left = {}
    ELSE pc = "done" /\ Unconnected = {}

\* A block without a direct feedthrough whose flag is not set has an output
\* that fits its state, unless a reset left it with another one.
Fresh ==
  phase # "off" =>
    \A b \in Created \ (needs \union left) : ~kind[b].dfeed => Solved(b, state)

\* Which outputs a reset can leave for good: those of blocks without a direct
\* feedthrough whose flag is not set and whose kind does not restore the output.
\* The computation takes care of all others.
Leaving ==
  /\ \A b \in left \ needs : ~kind[b].dfeed => ~Restores(kind[b])
  /\ phase \in {"calc", "settled"} => \A b \in left : ~kind[b].dfeed /\ b \notin needs

\* The state of a block that has none stays what it was.
Stateless ==
  \A b \in Block : ~(b \in Created /\ kind[b].dynamic) => state[b] = InitialState

\* The cursor is in the list being traversed.
Cursor ==
  /\ phase \in {"off", "idle", "settled", "reset"} => cur = 1
  /\ phase = "calc" => cur \in 1 .. Len(execlist)
  /\ phase = "update" => cur \in Created

\* The blocks the cursor has passed are computed.
Computed ==
  phase = "calc" /\ Overridden = {} =>
    \A i \in 1 .. cur - 1 : execlist[i] \notin left => Solved(execlist[i], state)

\* Once all blocks are computed, and after a reset as well, only the outputs
\* left by a reset do not solve their equations.
Settled ==
  phase \in {"settled", "reset"} /\ Overridden = {} =>
    \A b \in executed \ left : Solved(b, state)

\* What the update does to block b.
Updated(b) ==
  IF b \in Created /\ kind[b].dynamic /\ Triggered(b)
    THEN UpdateState(kind[b], before[b], Inputs(b)) ELSE before[b]

\* During the update the outputs solve the equations for the states of its
\* beginning, and the cursor divides new states from old ones.  The flags of
\* the blocks updated are set.
Updating ==
  phase = "update" =>
    /\ Overridden = {} => \A b \in executed \ left : Solved(b, before)
    /\ \A b \in Block : state[b] = IF b < cur THEN Updated(b) ELSE before[b]
    /\ \A b \in Created : b < cur /\ kind[b].dynamic /\ Triggered(b) => b \in needs

RInv ==
  /\ RunTypeOK /\ Started /\ Cursor
  /\ Fresh /\ Stateless /\ Leaving /\ Computed /\ Settled /\ Updating

-----------------------------------------------------------------------------

\* The execution list holds created blocks, each once, and no more than there
\* are.
LEMMA OnList ==
  ASSUME IInv
  PROVE  /\ Len(execlist) \in Nat /\ Len(execlist) <= MaxBlocks
         /\ \A i \in 1 .. Len(execlist) : execlist[i] \in executed /\ execlist[i] \in Block
         /\ executed \subseteq Created /\ Created \subseteq Block
<1>1. /\ execlist \in Seq(Block) /\ Len(execlist) \in Nat
      /\ \A i \in 1 .. Len(execlist) : execlist[i] \in Block
  BY DEF IInv, TypeOK
<1>2. \A i \in 1 .. Len(execlist) : execlist[i] \in executed
  BY <1>1 DEF IInv, ScheduledOnce
<1>3. executed \subseteq Created /\ Created \subseteq Block
  BY PortsOfCreated DEF IInv, Progress
<1>4. Len(execlist) <= MaxBlocks
  BY ListLength DEF IInv
<1> QED BY <1>1, <1>2, <1>3, <1>4

\* With no port unconnected, an input is external or fed by a created block.
LEMMA InputPorts ==
  ASSUME IInv, Unconnected = {}, NEW b \in Created
  PROVE  /\ b \in Block /\ kind[b] \in Kinds /\ kind[b].nin \in Nat
         /\ \A i \in 1 .. kind[b].nin :
              /\ <<b, i>> \in InPorts(b) /\ <<b, i>> \in Port
              /\ \/ intype[<<b, i>>] = "extern"
                 \/ intype[<<b, i>>] = "direct" /\ pre[<<b, i>>][1] \in Created
<1>1. /\ b \in Block /\ kind[b] \in Kinds /\ kind[b].nin \in Nat
      /\ InPorts(b) \subseteq Port
  BY PortsOfCreated
<1>2. ASSUME NEW i \in 1 .. kind[b].nin
      PROVE  /\ <<b, i>> \in InPorts(b) /\ <<b, i>> \in Port
             /\ \/ intype[<<b, i>>] = "extern"
                \/ intype[<<b, i>>] = "direct" /\ pre[<<b, i>>][1] \in Created
  <2>1. <<b, i>> \in InPorts(b) /\ <<b, i>> \in Port
    BY <1>1 DEF InPorts
  <2>2. intype[<<b, i>>] \in {"undef", "direct", "extern"}
    BY <2>1 DEF IInv, TypeOK
  <2>3. intype[<<b, i>>] # "undef"
    BY <2>1 DEF Unconnected
  <2> QED BY <2>1, <2>2, <2>3, SourceOf
<1> QED BY <1>1, <1>2

\* What a block reads are values, and so is what it computes from them.
LEMMA InputValues ==
  ASSUME IInv, RunTypeOK, Unconnected = {}, NEW b \in Created, NEW s \in Value
  PROVE  /\ Inputs(b) \in [1 .. kind[b].nin -> Value]
         /\ CalcOutput(kind[b], s, Inputs(b)) \in Value
         /\ UpdateState(kind[b], s, Inputs(b)) \in Value
<1>1. \A i \in 1 .. kind[b].nin :
        intype[<<b, i>>] = "extern" \/ pre[<<b, i>>][1] \in Block
  BY InputPorts, OnList
<1>2. out \in [Block -> Value] /\ ext \in Value
  BY DEF RunTypeOK
<1>3. Inputs(b) \in [1 .. kind[b].nin -> Value]
  BY <1>1, <1>2 DEF Inputs, Reads
<1>4. kind[b] \in Kinds
  BY InputPorts
<1> QED BY <1>3, <1>4, FunctionsAssumption

\* A step that leaves the output of block b alone, and what b reads if it has a
\* direct feedthrough, leaves its equation solved.
LEMMA StaysSolved ==
  ASSUME IInv, RunTypeOK, Unconnected = {}, UNCHANGED compiled,
         out' \in [Block -> Value], ext' \in Value,
         NEW b \in Created, NEW s \in Value,
         out'[b] = CalcOutput(kind[b], s, Inputs(b)),
         kind[b].dfeed =>
           /\ ext' = ext
           /\ \A i \in 1 .. kind[b].nin :
                intype[<<b, i>>] = "direct" =>
                  out'[pre[<<b, i>>][1]] = out[pre[<<b, i>>][1]]
  PROVE  out'[b] = CalcOutput(kind'[b], s, Inputs(b)')
<1>1. UNCHANGED <<kind, intype, pre>>
  BY DEF compiled, schematic
<1>2. \A i \in 1 .. kind[b].nin :
        \/ intype[<<b, i>>] = "extern"
        \/ intype[<<b, i>>] = "direct" /\ pre[<<b, i>>][1] \in Block
  BY InputPorts, OnList
<1>3. Inputs(b)' \in [1 .. kind[b].nin -> Value]
  BY <1>1, <1>2 DEF Inputs, Reads
<1>4. CASE kind[b].dfeed
  BY <1>1, <1>2, <1>4 DEF Inputs, Reads
<1>5. CASE ~kind[b].dfeed
  <2>1. kind[b] \in Kinds /\ Inputs(b) \in [1 .. kind[b].nin -> Value]
    BY InputPorts, InputValues
  <2>2. CalcOutput(kind[b], s, Inputs(b)) = CalcOutput(kind[b], s, Inputs(b)')
    BY <1>3, <1>5, <2>1, FeedthroughAssumption
  <2> QED BY <1>1, <2>2
<1> QED BY <1>4, <1>5

\* A step of the execution leaves the compiled schematic alone.
LEMMA SameCompiled ==
  ASSUME UNCHANGED compiled
  PROVE  /\ UNCHANGED <<pc, kind, intype, pre, executed, execlist>>
         /\ Created' = Created /\ Unconnected' = Unconnected /\ Overridden' = Overridden
<1>1. UNCHANGED <<pc, kind, intype, pre, post, executed, execlist>>
  BY DEF compiled, schematic, setup
<1> QED BY <1>1 DEF Created, Unconnected, Overridden, InPorts

\* While the schematic is compiled nothing is executed.
LEMMA CompileRun ==
  ASSUME RInv, Compile, UNCHANGED run
  PROVE  RInv'
<1>1. pc # "done"
  BY DEF Compile, Build, NewBlock, Connect, ConnectExternal, RefuseEntry, CheckInputs,
         SetupStep, Pass1, Pass2, MarkInput, NextOutput, NextBlock, Undo
<1>2. phase = "off" /\ state = [b \in Block |-> InitialState] /\ needs = Block /\ left = {}
  BY <1>1 DEF RInv, RunTypeOK, Started
<1>3. UNCHANGED <<phase, cur, ext, active, state, out, needs, before, left>>
  BY DEF run
<1>4. RunTypeOK' /\ Started' /\ Cursor'
  BY <1>2, <1>3 DEF RInv, RunTypeOK, Started, Cursor
<1>5. Fresh' /\ Stateless' /\ Leaving' /\ Computed' /\ Settled' /\ Updating'
  BY <1>2, <1>3 DEF Fresh, Stateless, Leaving, Computed, Settled, Updating
<1> QED BY <1>4, <1>5 DEF RInv

\* At the start no output is fresh, and no block has been updated.
LEMMA StartRun ==
  ASSUME IInv, RInv, Start, UNCHANGED compiled
  PROVE  RInv'
<1>1. /\ UNCHANGED <<pc, kind, intype, pre, executed, execlist>>
      /\ Created' = Created /\ Unconnected' = Unconnected /\ Overridden' = Overridden
  BY SameCompiled
<1>2. /\ phase = "off" /\ phase' = "idle" /\ pc = "done" /\ Unconnected = {}
      /\ needs = Block /\ left = {}
      /\ UNCHANGED <<cur, ext, active, state, out, needs, before, left>>
  BY DEF Start, RInv, Started
<1>3. RunTypeOK' /\ Started' /\ Cursor'
  BY <1>1, <1>2 DEF RInv, RunTypeOK, Started, Cursor
<1>4. Fresh'
  BY <1>1, <1>2, OnList DEF RInv, Started, Fresh
<1>5. Stateless'
  BY <1>2 DEF RInv, Started, Stateless
<1>6. Leaving' /\ Computed' /\ Settled' /\ Updating'
  BY <1>2 DEF Leaving, Computed, Settled, Updating
<1> QED BY <1>3, <1>4, <1>5, <1>6 DEF RInv

\* A new external input does not disturb a block without a direct feedthrough.
LEMMA BeginOutputsRun ==
  ASSUME IInv, OInv, RInv, NEW value \in Value, NEW mask \in SUBSET Events,
         BeginOutputs(value, mask), UNCHANGED compiled
  PROVE  RInv'
<1>1. /\ UNCHANGED <<pc, kind, intype, pre, executed, execlist>>
      /\ Created' = Created /\ Unconnected' = Unconnected /\ Overridden' = Overridden
  BY SameCompiled
<1>2. /\ phase # "off" /\ phase' = "calc" /\ cur' = 1 /\ ext' = value /\ active' = mask
      /\ UNCHANGED <<state, out, needs, before>>
      /\ left' = {b \in left : ~kind[b].dfeed /\ b \notin needs}
  BY DEF BeginOutputs
<1>3. pc = "done" /\ Unconnected = {}
  BY <1>2 DEF RInv, Started
<1>4. 1 \in 1 .. Len(execlist)
  <2>1. execlist # <<>> /\ execlist \in Seq(Block)
    BY <1>3 DEF OInv, Ends, IInv, TypeOK
  <2> QED BY <2>1
<1>5. RunTypeOK' /\ Started' /\ Cursor'
  BY <1>1, <1>2, <1>3, <1>4, BoundsAssumption DEF RInv, RunTypeOK, Started, Cursor
<1>6. Fresh'
  <2>1. SUFFICES ASSUME NEW b \in Created \ (needs \union left), ~kind[b].dfeed
                 PROVE  Solved(b, state)'
    BY <1>1, <1>2 DEF Fresh
  <2>2. state[b] \in Value /\ out'[b] = CalcOutput(kind[b], state[b], Inputs(b))
    BY <1>2, <2>1, OnList DEF RInv, RunTypeOK, Fresh, Solved
  <2>3. out'[b] = CalcOutput(kind'[b], state[b], Inputs(b)')
    <3>1. RunTypeOK /\ out' \in [Block -> Value] /\ ext' \in Value
      BY <1>2 DEF RInv, RunTypeOK
    <3> HIDE DEF Inputs, Reads
    <3> QED BY <1>3, <2>1, <2>2, <3>1, StaysSolved
  <2> QED BY <1>2, <2>3 DEF Solved
<1>7. Stateless'
  BY <1>1, <1>2 DEF RInv, Stateless
<1>8. Leaving'
  BY <1>1, <1>2 DEF RInv, Leaving
<1>9. Computed' /\ Settled' /\ Updating'
  BY <1>2 DEF Computed, Settled, Updating
<1> QED BY <1>5, <1>6, <1>7, <1>8, <1>9 DEF RInv

\* The outputs of the block at the cursor become or are already those of its
\* equation, unless they are left from a reset, and no other output changes.
LEMMA CalcOutputsOut ==
  ASSUME IInv, RInv, CalcOutputs
  PROVE  LET b == execlist[cur] IN
         /\ b \in executed /\ b \in Created /\ b \in Block /\ state[b] \in Value
         /\ b \notin left => out'[b] = CalcOutput(kind[b], state[b], Inputs(b))
         /\ \A c \in Block : c # b => out'[c] = out[c]
         /\ out' \in [Block -> Value]
         /\ needs \ {b} \subseteq needs' /\ needs' \subseteq needs
<1> DEFINE b == execlist[cur]
<1>1. phase = "calc" /\ Unconnected = {} /\ cur \in 1 .. Len(execlist)
  BY DEF CalcOutputs, RInv, Started, Cursor
<1>2. b \in executed /\ b \in Created /\ b \in Block /\ state[b] \in Value
  BY <1>1, OnList DEF RInv, RunTypeOK
<1>3. out \in [Block -> Value] /\ CalcOutput(kind[b], state[b], Inputs(b)) \in Value
  BY <1>1, <1>2, InputValues DEF RInv, RunTypeOK
<1>4. CASE kind[b].dfeed \/ b \in needs
  <2>1. /\ out' = [out EXCEPT ![b] = CalcOutput(kind[b], state[b], Inputs(b))]
        /\ needs' = needs \/ needs' = needs \ {b}
    BY <1>4 DEF CalcOutputs
  <2>2. needs \ {b} \subseteq needs' /\ needs' \subseteq needs
    BY <2>1
  <2>3. /\ out'[b] = CalcOutput(kind[b], state[b], Inputs(b))
        /\ \A c \in Block : c # b => out'[c] = out[c]
        /\ out' \in [Block -> Value]
    <3> HIDE DEF b
    <3> QED BY <1>2, <1>3, <2>1
  <2> QED BY <1>2, <2>2, <2>3
<1>5. CASE ~kind[b].dfeed /\ b \notin needs
  <2>1. b \notin left => out[b] = CalcOutput(kind[b], state[b], Inputs(b))
    BY <1>1, <1>2, <1>5 DEF RInv, Fresh, Solved
  <2>2. out' = out /\ needs' = needs
    BY <1>5 DEF CalcOutputs
  <2> QED BY <1>2, <1>3, <2>1, <2>2
<1> QED BY <1>2, <1>4, <1>5

\* The computation leaves what came before the cursor solved: the block at the
\* cursor is none of those, and none of those reads from it.
LEMMA CalcOutputsSolved ==
  ASSUME IInv, OInv, RInv, CalcOutputs, UNCHANGED compiled, Overridden = {},
         NEW i \in 1 .. cur, execlist[i] \notin left
  PROVE  Solved(execlist[i], state)'
<1> DEFINE b == execlist[cur]
<1>1. /\ UNCHANGED <<pc, kind, intype, pre, executed, execlist>>
      /\ Created' = Created /\ Unconnected' = Unconnected /\ Overridden' = Overridden
  BY SameCompiled
<1>2. /\ phase = "calc" /\ Unconnected = {} /\ cur \in 1 .. Len(execlist)
      /\ ext' = ext /\ state' = state /\ ext \in Value
  BY DEF CalcOutputs, RInv, RunTypeOK, Started, Cursor
<1>3. /\ b \in Block
      /\ b \notin left => out'[b] = CalcOutput(kind[b], state[b], Inputs(b))
      /\ \A c \in Block : c # b => out'[c] = out[c]
      /\ out' \in [Block -> Value] /\ out \in [Block -> Value]
  BY CalcOutputsOut DEF RInv, RunTypeOK
<1>4. PICK c \in Created : c = execlist[i]
  BY <1>2, OnList
<1>5. i \in 1 .. Len(execlist) /\ c \in Block /\ state[c] \in Value
  BY <1>2, OnList DEF RInv, RunTypeOK
<1>6. ASSUME NEW j \in 1 .. cur - 1
      PROVE  execlist[j] # b /\ execlist[j] \in Block /\ out'[execlist[j]] = out[execlist[j]]
  <2>1. j \in 1 .. Len(execlist) /\ j # cur
    BY <1>2
  <2>2. execlist[j] # b /\ execlist[j] \in Block
    BY <1>2, <2>1, OnList DEF IInv, ScheduledOnce
  <2> HIDE DEF b
  <2> QED BY <1>3, <2>2
<1>7. out'[c] = CalcOutput(kind[c], state[c], Inputs(c))
  <2>1. CASE i = cur
    <3>1. c = b /\ c \notin left
      BY <1>4, <2>1
    <3> HIDE DEF b
    <3> QED BY <1>3, <3>1
  <2>2. CASE i # cur
    <3>1. i \in 1 .. cur - 1
      BY <1>2, <2>2
    <3>2. Solved(c, state)
      BY <1>2, <1>4, <3>1 DEF RInv, Computed
    <3> QED BY <1>4, <1>6, <3>1, <3>2 DEF Solved
  <2> QED BY <2>1, <2>2
<1>8. ASSUME kind[c].dfeed, NEW k \in 1 .. kind[c].nin, intype[<<c, k>>] = "direct"
      PROVE  out'[pre[<<c, k>>][1]] = out[pre[<<c, k>>][1]]
  <2>1. <<c, k>> \in InPorts(c)
    BY <1>2, <1>4, InputPorts
  <2>2. \E j \in 1 .. (i - 1) : execlist[j] = pre[<<c, k>>][1]
    BY <1>4, <1>5, <1>8, <2>1 DEF OInv, OrderValid, PureDynamic
  <2>3. PICK j \in 1 .. cur - 1 : execlist[j] = pre[<<c, k>>][1]
    BY <1>2, <2>2
  <2> QED BY <1>6, <2>3
<1>9. out'[c] = CalcOutput(kind'[c], state[c], Inputs(c)')
  <2>1. RunTypeOK /\ ext' \in Value /\ out' \in [Block -> Value] /\ Unconnected = {}
    BY <1>2, <1>3 DEF RInv
  <2>2. kind[c].dfeed =>
          /\ ext' = ext
          /\ \A k \in 1 .. kind[c].nin :
               intype[<<c, k>>] = "direct" =>
                 out'[pre[<<c, k>>][1]] = out[pre[<<c, k>>][1]]
    BY <1>2, <1>8
  <2> QED BY <1>5, <1>7, <2>1, <2>2, StaysSolved
<1> QED BY <1>1, <1>2, <1>4, <1>9 DEF Solved, Inputs, Reads

\* At the end of the computation every equation is solved.
LEMMA CalcOutputsRun ==
  ASSUME IInv, OInv, RInv, CalcOutputs, UNCHANGED compiled
  PROVE  RInv'
<1> DEFINE b == execlist[cur]
<1>1. /\ UNCHANGED <<pc, kind, intype, pre, executed, execlist>>
      /\ Created' = Created /\ Unconnected' = Unconnected /\ Overridden' = Overridden
  BY SameCompiled
<1>2. /\ phase = "calc" /\ pc = "done" /\ Unconnected = {} /\ cur \in 1 .. Len(execlist)
      /\ UNCHANGED <<ext, active, state, before, left>>
      /\ \/ cur < Len(execlist) /\ cur' = cur + 1 /\ phase' = "calc"
         \/ cur = Len(execlist) /\ cur' = 1 /\ phase' = "settled"
  BY DEF CalcOutputs, RInv, Started, Cursor
<1>3. /\ b \in Created /\ b \in Block /\ state[b] \in Value
      /\ b \notin left => out'[b] = CalcOutput(kind[b], state[b], Inputs(b))
      /\ \A c \in Block : c # b => out'[c] = out[c]
      /\ out' \in [Block -> Value] /\ out \in [Block -> Value]
      /\ needs \ {b} \subseteq needs' /\ needs' \subseteq needs
  BY CalcOutputsOut DEF RInv, RunTypeOK
<1>4. Len(execlist) \in Nat /\ Len(execlist) <= MaxBlocks
  BY OnList
<1>5. RunTypeOK' /\ Started' /\ Cursor'
  <2>1. cur' \in 1 .. MaxBlocks /\ Cursor'
    BY <1>1, <1>2, <1>4, BoundsAssumption DEF Cursor
  <2>2. needs' \subseteq Block
    BY <1>3 DEF RInv, RunTypeOK
  <2> QED BY <1>1, <1>2, <1>3, <2>1, <2>2 DEF RInv, RunTypeOK, Started
<1>6. Fresh'
  <2>1. SUFFICES ASSUME NEW c \in Created \ (needs' \union left), ~kind[c].dfeed
                 PROVE  Solved(c, state)'
    BY <1>1, <1>2 DEF Fresh
  <2>2. c \in Block /\ state[c] \in Value
    BY OnList DEF RInv, RunTypeOK
  <2>3. out'[c] = CalcOutput(kind[c], state[c], Inputs(c))
    <3>1. CASE c = b
      <4> HIDE DEF b
      <4> QED BY <1>3, <3>1
    <3>2. CASE c # b
      <4>1. Solved(c, state)
        BY <1>2, <1>3, <2>1, <3>2 DEF RInv, Fresh
      <4> HIDE DEF b
      <4> QED BY <1>3, <2>2, <3>2, <4>1 DEF Solved
    <3> QED BY <3>1, <3>2
  <2>4. out'[c] = CalcOutput(kind'[c], state[c], Inputs(c)')
    <3>1. RunTypeOK /\ ext' \in Value
      BY <1>2 DEF RInv, RunTypeOK
    <3> QED BY <1>2, <1>3, <2>1, <2>2, <2>3, <3>1, StaysSolved
  <2> QED BY <1>2, <2>4 DEF Solved
<1>7. Stateless'
  BY <1>1, <1>2 DEF RInv, Stateless
<1>8. Computed'
  <2>1. SUFFICES ASSUME phase' = "calc", Overridden = {}, NEW i \in 1 .. cur' - 1,
                        execlist[i] \notin left
                 PROVE  Solved(execlist[i], state)'
    BY <1>1, <1>2 DEF Computed, Solved, Inputs, Reads
  <2>2. i \in 1 .. cur
    BY <1>2, <2>1
  <2> QED BY <2>1, <2>2, CalcOutputsSolved
<1>9. Settled'
  <2>1. SUFFICES ASSUME phase' = "settled", Overridden = {}, NEW c \in executed \ left
                 PROVE  Solved(c, state)'
    BY <1>1, <1>2 DEF Settled, Solved
  <2>2. c \in Block
    BY OnList
  <2>3. PICK i \in 1 .. cur : execlist[i] = c
    BY <1>2, <2>1, <2>2 DEF IInv, ScheduledOnce
  <2>4. Solved(execlist[i], state)'
    BY <2>1, <2>3, CalcOutputsSolved
  <2> QED BY <1>1, <2>3, <2>4 DEF Solved, Inputs, Reads
<1>10. Updating'
  BY <1>2 DEF Updating
<1>11. Leaving'
  BY <1>1, <1>2, <1>3 DEF RInv, Leaving
<1> QED BY <1>5, <1>6, <1>7, <1>8, <1>9, <1>10, <1>11 DEF RInv

\* The outputs solve the equations for the states the update begins with.
LEMMA BeginUpdateRun ==
  ASSUME IInv, OInv, RInv, BeginUpdate, UNCHANGED compiled
  PROVE  RInv'
<1>1. /\ UNCHANGED <<pc, kind, intype, pre, executed, execlist>>
      /\ Created' = Created /\ Unconnected' = Unconnected /\ Overridden' = Overridden
  BY SameCompiled
<1>2. /\ phase \in {"settled", "reset"} /\ phase' = "update" /\ before' = state
      /\ pc = "done" /\ Unconnected = {} /\ cur = 1
      /\ UNCHANGED <<cur, ext, active, state, out, needs, left>>
  BY DEF BeginUpdate, RInv, Started, Cursor
<1>3. cur \in Created
  <2>1. execlist # <<>> /\ execlist \in Seq(Block)
    BY <1>2 DEF OInv, Ends, IInv, TypeOK
  <2>2. execlist[1] \in Created
    BY <2>1, OnList
  <2>3. Len(kind) \in Nat
    BY DEF IInv, TypeOK
  <2> QED BY <1>2, <2>2, <2>3 DEF Created
<1>4. RunTypeOK' /\ Started' /\ Cursor'
  BY <1>1, <1>2, <1>3 DEF RInv, RunTypeOK, Started, Cursor
<1>5. \A b : Inputs(b)' = Inputs(b)
  BY <1>1, <1>2 DEF Inputs, Reads
<1>6. Fresh' /\ Stateless' /\ Leaving'
  BY <1>1, <1>2, <1>5 DEF RInv, Fresh, Stateless, Leaving, Solved
<1>7. Computed' /\ Settled'
  BY <1>2 DEF Computed, Settled
<1>8. Updating'
  <2>1. \A b \in Block : state'[b] = before'[b] /\ ~(b < cur')
    BY <1>2 DEF Block
  <2>2. Overridden' = {} => \A b \in executed' \ left' : Solved(b, before)'
    BY <1>1, <1>2, <1>5 DEF RInv, Settled, Solved
  <2>3. \A b \in Created' : ~(b < cur')
    BY <1>2 DEF Created
  <2> QED BY <2>1, <2>2, <2>3 DEF Updating
<1> QED BY <1>4, <1>6, <1>7, <1>8 DEF RInv

\* An update changes the state of the block at the cursor, from its state at
\* the beginning, and clears no flag.
LEMMA UpdateStatesState ==
  ASSUME IInv, RInv, UpdateStates
  PROVE  /\ cur \in Created /\ cur \in Block /\ Unconnected = {}
         /\ state' \in [Block -> Value] /\ needs \subseteq needs' /\ needs' \subseteq Block
         /\ \A b \in Block : state'[b] = IF b = cur THEN Updated(b) ELSE state[b]
         /\ state'[cur] # state[cur] => kind[cur].dynamic /\ cur \in needs'
         /\ kind[cur].dynamic /\ Triggered(cur) => cur \in needs'
<1>1. phase = "update" /\ Unconnected = {} /\ cur \in Created /\ cur \in Block
  BY OnList DEF UpdateStates, RInv, Started, Cursor
<1>2. /\ state \in [Block -> Value] /\ state[cur] = before[cur] /\ state[cur] \in Value
      /\ needs \subseteq Block
  BY <1>1, BoundsAssumption DEF RInv, RunTypeOK, Updating, Block
<1>3. UpdateState(kind[cur], before[cur], Inputs(cur)) \in Value
  BY <1>1, <1>2, InputValues DEF RInv
<1>4. CASE kind[cur].dynamic /\ Triggered(cur)
  <2>1. /\ state' = [state EXCEPT ![cur] = UpdateState(kind[cur], before[cur], Inputs(cur))]
        /\ needs' = needs \union {cur}
    BY <1>2, <1>4 DEF UpdateStates
  <2> QED BY <1>1, <1>2, <1>3, <1>4, <2>1 DEF Updated
<1>5. CASE ~(kind[cur].dynamic /\ Triggered(cur))
  <2>1. state' = state /\ needs' = needs
    BY <1>5 DEF UpdateStates
  <2> QED BY <1>1, <1>2, <1>5, <2>1 DEF Updated
<1> QED BY <1>1, <1>4, <1>5

\* The outputs, and all states the cursor has not reached, are those of the
\* beginning of the update.
LEMMA UpdateStatesRun ==
  ASSUME IInv, RInv, UpdateStates, UNCHANGED compiled
  PROVE  RInv'
<1>1. /\ UNCHANGED <<pc, kind, intype, pre, executed, execlist>>
      /\ Created' = Created /\ Unconnected' = Unconnected /\ Overridden' = Overridden
  BY SameCompiled
<1>2. /\ phase = "update" /\ pc = "done" /\ Unconnected = {}
      /\ UNCHANGED <<ext, out, before, left>>
      /\ \/ cur < Len(kind) /\ cur' = cur + 1 /\ phase' = "update" /\ active' = active
         \/ ~(cur < Len(kind)) /\ cur' = 1 /\ phase' = "idle" /\ active' = {}
  BY DEF UpdateStates, RInv, Started
<1>3. /\ cur \in Created /\ cur \in Block
      /\ state' \in [Block -> Value] /\ needs \subseteq needs' /\ needs' \subseteq Block
      /\ \A b \in Block : state'[b] = IF b = cur THEN Updated(b) ELSE state[b]
      /\ state'[cur] # state[cur] => kind[cur].dynamic /\ cur \in needs'
      /\ kind[cur].dynamic /\ Triggered(cur) => cur \in needs'
  BY UpdateStatesState
<1>4. Len(kind) \in Nat /\ Len(kind) <= MaxBlocks /\ Created \subseteq Block
  BY OnList DEF IInv, TypeOK
<1>5. \A b : Inputs(b)' = Inputs(b)
  BY <1>1, <1>2 DEF Inputs, Reads
<1>6. RunTypeOK' /\ Started' /\ Cursor'
  <2>1. cur' \in 1 .. MaxBlocks /\ Cursor'
    BY <1>1, <1>2, <1>3, <1>4, BoundsAssumption DEF Cursor, Created, Block
  <2>2. active' \subseteq Events
    BY <1>2 DEF RInv, RunTypeOK
  <2> QED BY <1>1, <1>2, <1>3, <2>1, <2>2 DEF RInv, RunTypeOK, Started
<1>7. Fresh'
  <2>1. SUFFICES ASSUME NEW b \in Created \ (needs' \union left), ~kind[b].dfeed
                 PROVE  Solved(b, state)'
    BY <1>1, <1>2 DEF Fresh
  <2>2. Solved(b, state) /\ b \in Block
    BY <1>2, <1>3, <1>4, <2>1 DEF RInv, Fresh
  <2>3. state'[b] = state[b]
    BY <1>3, <2>1, <2>2
  <2> QED BY <1>1, <1>2, <1>5, <2>2, <2>3 DEF Solved
<1>8. Stateless'
  <2>1. SUFFICES ASSUME NEW b \in Block, ~(b \in Created /\ kind[b].dynamic)
                 PROVE  state'[b] = InitialState
    BY <1>1 DEF Stateless
  <2>2. state[b] = InitialState
    BY <2>1 DEF RInv, Stateless
  <2>3. state'[b] = state[b]
    BY <1>3, <2>1
  <2> QED BY <2>2, <2>3
<1>9. Computed' /\ Settled' /\ Leaving'
  BY <1>1, <1>2, <1>3 DEF RInv, Computed, Settled, Leaving
<1>10. Updating'
  <2>1. SUFFICES ASSUME phase' = "update"
                 PROVE  /\ Overridden' = {} => \A b \in executed' \ left' : Solved(b, before)'
                        /\ \A b \in Block :
                             state'[b] = IF b < cur' THEN Updated(b)' ELSE before'[b]
                        /\ \A b \in Created' :
                             b < cur' /\ kind'[b].dynamic /\ Triggered(b)' => b \in needs'
    BY DEF Updating
  <2>2. cur' = cur + 1 /\ active' = active
    BY <1>2, <2>1
  <2>3. Overridden' = {} => \A b \in executed' \ left' : Solved(b, before)'
    BY <1>1, <1>2, <1>5 DEF RInv, Updating, Solved
  <2>4. \A b \in Block : Updated(b)' = Updated(b)
    BY <1>1, <1>2, <1>5, <2>2 DEF Updated, Triggered
  <2>5. \A b \in Block : state[b] = IF b < cur THEN Updated(b) ELSE before[b]
    BY <1>2 DEF RInv, Updating
  <2>6. ASSUME NEW b \in Block
        PROVE  state'[b] = IF b < cur' THEN Updated(b)' ELSE before'[b]
    <3>1. b \in Int /\ cur \in Int
      BY <1>3 DEF Block
    <3>2. CASE b = cur
      BY <1>2, <1>3, <2>2, <2>4, <3>1, <3>2
    <3>3. CASE b # cur
      <4>1. (b < cur') <=> (b < cur)
        BY <2>2, <3>1, <3>3
      <4> QED BY <1>2, <1>3, <2>4, <2>5, <3>3, <4>1
    <3> QED BY <3>2, <3>3
  <2>7. ASSUME NEW b \in Created, b < cur', kind[b].dynamic, Triggered(b)'
        PROVE  b \in needs'
    <3>1. Triggered(b)
      BY <1>1, <2>2, <2>7 DEF Triggered
    <3>2. b = cur \/ b < cur
      BY <1>3, <2>2, <2>7 DEF Created
    <3>3. b < cur => b \in needs
      BY <1>2, <2>7, <3>1 DEF RInv, Updating
    <3> QED BY <1>3, <2>7, <3>1, <3>2, <3>3
  <2> QED BY <1>1, <2>3, <2>6, <2>7
<1> QED BY <1>6, <1>7, <1>8, <1>9, <1>10 DEF RInv

\* A reset leaves the flags alone.  Where it does not leave an output behind, the
\* output fits the initial state; and the output of a block of a restoring kind
\* fits, since the reset sets it, or since it fitted before and the state is the
\* same.
LEMMA ResetBlocksRun ==
  ASSUME IInv, RInv, ResetBlocks, UNCHANGED compiled
  PROVE  RInv'
<1>1. /\ UNCHANGED <<pc, kind, intype, pre, executed, execlist>>
      /\ Created' = Created /\ Unconnected' = Unconnected /\ Overridden' = Overridden
  BY SameCompiled
<1>2. /\ phase \in {"idle", "settled", "reset"} /\ phase' \in {"idle", "reset"}
      /\ pc = "done" /\ Unconnected = {} /\ cur = 1
      /\ UNCHANGED <<cur, ext, active, needs, before>>
      /\ state' = [b \in Block |-> InitialState] /\ left' = LeftWith(out')
  BY DEF ResetBlocks, RInv, Started, Cursor
<1>3. out' \in [Block -> Value] /\ \A b \in Created : out'[b] = ResetOutput(kind[b], out[b])
  <2>1. out \in [Block -> Value] /\ Created \subseteq Block
    BY OnList DEF RInv, RunTypeOK
  <2>2. \A b \in Created : ResetOutput(kind[b], out[b]) \in Value
    BY <1>2, <2>1, InputPorts, ResetAssumption
  <2> QED BY <2>1, <2>2 DEF ResetBlocks
<1>4. RunTypeOK' /\ Started' /\ Cursor'
  BY <1>1, <1>2, <1>3, ValueAssumption DEF RInv, RunTypeOK, Started, Cursor, LeftWith
<1>5. ASSUME NEW b \in Created \ left'
      PROVE  Solved(b, state)'
  <2>1. out'[b] = CalcOutput(kind[b], InitialState, Reads(out', b))
    BY <1>2, <1>5 DEF LeftWith
  <2>2. Inputs(b)' = Reads(out', b) /\ state'[b] = InitialState
    BY <1>1, <1>2, <1>5, OnList DEF Inputs, Reads
  <2> QED BY <1>1, <2>1, <2>2 DEF Solved
<1>6. Fresh' /\ Settled'
  BY <1>1, <1>5, OnList DEF Fresh, Settled
<1>7. Stateless'
  BY <1>2 DEF Stateless
<1>8. Leaving'
  <2>1. SUFFICES ASSUME NEW b \in left' \ needs, ~kind[b].dfeed, Restores(kind[b])
                 PROVE  FALSE
    BY <1>1, <1>2 DEF Leaving
  <2>2. /\ b \in Created /\ kind[b] \in Kinds
        /\ out'[b] # CalcOutput(kind[b], InitialState, Reads(out', b))
    BY <1>2, <2>1, InputPorts DEF LeftWith
  <2>3. out[b] \in Value /\ Inputs(b) \in [1 .. kind[b].nin -> Value]
    BY <1>2, <2>2, InputValues, ValueAssumption, OnList DEF RInv, RunTypeOK
  <2>4. Reads(out', b) \in [1 .. kind[b].nin -> Value]
    <3>1. \A i \in 1 .. kind[b].nin : intype[<<b, i>>] = "extern" \/ pre[<<b, i>>][1] \in Block
      BY <1>2, <2>2, InputPorts, OnList
    <3> QED BY <1>3, <3>1 DEF Reads, RInv, RunTypeOK
  <2>5. out'[b] = IF kind[b].dynamic THEN CalcOutput(kind[b], InitialState, Reads(out', b))
                                     ELSE out[b]
    BY <1>3, <2>1, <2>2, <2>3, <2>4 DEF Restores
  <2>6. ~kind[b].dynamic /\ out'[b] = out[b]
    BY <2>2, <2>5
  <2>7. b \notin left
    BY <2>1 DEF RInv, Leaving
  <2>8. out[b] = CalcOutput(kind[b], InitialState, Inputs(b))
    <3>1. Solved(b, state)
      BY <1>2, <2>1, <2>2, <2>7 DEF RInv, Fresh
    <3>2. state[b] = InitialState
      BY <2>2, <2>6, OnList DEF RInv, Stateless
    <3> QED BY <3>1, <3>2 DEF Solved
  <2> QED BY <2>1, <2>2, <2>3, <2>4, <2>6, <2>8, FeedthroughAssumption, ValueAssumption
<1>9. Computed' /\ Updating'
  BY <1>2 DEF Computed, Updating
<1> QED BY <1>4, <1>6, <1>7, <1>8, <1>9 DEF RInv

-----------------------------------------------------------------------------

\* Before the first step nothing is connected and nothing runs.
LEMMA InitRun == RunInit => RInv
<1> SUFFICES ASSUME RunInit PROVE RInv
  OBVIOUS
<1>1. RunTypeOK /\ Started /\ Cursor
  BY ValueAssumption, BoundsAssumption DEF RunInit, RunTypeOK, Started, Cursor
<1>2. Fresh /\ Stateless /\ Leaving /\ Computed /\ Settled /\ Updating
  BY DEF RunInit, Fresh, Stateless, Leaving, Computed, Settled, Updating, Block
<1> QED BY <1>1, <1>2 DEF RInv

\* Every step, one case per action.
LEMMA StepRun ==
  IInv /\ OInv /\ RInv /\ [RunNext]_<<compiled, run>> => RInv'
<1> SUFFICES ASSUME IInv, OInv, RInv, [RunNext]_<<compiled, run>> PROVE RInv'
  OBVIOUS
<1>1. CASE Compile /\ UNCHANGED run
  BY <1>1, CompileRun
<1>2. CASE Run /\ UNCHANGED compiled
  <2>1. CASE Start
    BY <1>2, <2>1, StartRun
  <2>2. CASE \E value \in Value, mask \in SUBSET Events : BeginOutputs(value, mask)
    BY <1>2, <2>2, BeginOutputsRun
  <2>3. CASE CalcOutputs
    BY <1>2, <2>3, CalcOutputsRun
  <2>4. CASE BeginUpdate
    BY <1>2, <2>4, BeginUpdateRun
  <2>5. CASE UpdateStates
    BY <1>2, <2>5, UpdateStatesRun
  <2>6. CASE ResetBlocks
    BY <1>2, <2>6, ResetBlocksRun
  <2> QED BY <1>2, <2>1, <2>2, <2>3, <2>4, <2>5, <2>6 DEF Run
<1>3. CASE UNCHANGED <<compiled, run>>
  <2>1. UNCHANGED <<pc, kind, intype, pre, executed, execlist>>
    BY <1>3, SameCompiled
  <2>2. UNCHANGED <<phase, cur, ext, active, state, out, needs, before, left>>
    BY <1>3 DEF run
  <2>3. Created' = Created /\ Unconnected' = Unconnected /\ Overridden' = Overridden
    BY <1>3, SameCompiled
  <2>4. (RunTypeOK /\ Started /\ Cursor)'
    BY <2>1, <2>2, <2>3 DEF RInv, RunTypeOK, Started, Cursor
  <2>5. (Fresh /\ Stateless /\ Leaving /\ Computed /\ Settled)'
    BY <2>1, <2>2, <2>3 DEF RInv, Fresh, Stateless, Leaving, Computed, Settled, Solved, Inputs, Reads
  <2>6. Updating'
    BY <2>1, <2>2, <2>3 DEF RInv, Updating, Updated, Triggered, Solved, Inputs, Reads
  <2> QED BY <2>4, <2>5, <2>6 DEF RInv
<1> QED BY <1>1, <1>2, <1>3 DEF RunNext, NotStarted

-----------------------------------------------------------------------------

\* The last step of a state update changes all states at once, from outputs
\* that solve the equations of the network.
LEMMA LastUpdate ==
  ASSUME IInv, RInv, UpdateStates, UNCHANGED compiled, cur = Len(kind), 31 \notin active
  PROVE  Flow!Next
<1> DEFINE A == active \intersect UNION {kind[b].events : b \in DOMAIN kind}
<1>1. /\ UNCHANGED <<pc, kind, intype, pre, executed, execlist>>
      /\ Created' = Created /\ Unconnected' = Unconnected /\ Overridden' = Overridden
  BY SameCompiled
<1>2. /\ phase = "update" /\ phase' = "idle" /\ UNCHANGED <<ext, out, before, left>>
  BY DEF UpdateStates
<1>3. /\ cur \in Created /\ cur \in Block /\ state' \in [Block -> Value]
      /\ \A b \in Block : state'[b] = IF b = cur THEN Updated(b) ELSE state[b]
  BY UpdateStatesState
<1>4. /\ before \in [Block -> Value] /\ out \in [Block -> Value]
      /\ \A b \in Block : state[b] = IF b < cur THEN Updated(b) ELSE before[b]
      /\ Overridden = {} => \A b \in executed \ left : Solved(b, before)
      /\ \A b \in Created : b < cur /\ kind[b].dynamic /\ Triggered(b) => b \in needs
      /\ left \subseteq Created
  BY <1>2 DEF RInv, RunTypeOK, Updating
<1>5. DOMAIN kind = Created /\ Created \subseteq Block /\ Len(kind) \in Nat
  BY OnList DEF IInv, TypeOK, Created
<1>6. CASE Overridden # {}
  <2>1. Flow!UnsoundStep
    BY <1>1, <1>2, <1>3, <1>4, <1>6 DEF Flow!UnsoundStep
  <2> QED BY <2>1 DEF Flow!Next
<1>7. CASE Overridden = {}
  <2>1. \A b : Flow!Inputs(out, b) = Inputs(b)
    BY DEF Flow!Inputs, Inputs, Reads
  <2>2. Flow!Solves(out)
    BY <1>2, <1>4, <1>7, <2>1 DEF Flow!Solves, Solved
  <2>3. \A b \in Created : Flow!Triggered(b, A) <=> kind[b].dynamic /\ Triggered(b)
    BY <1>5 DEF Flow!Triggered, Triggered
  <2>4. ASSUME NEW b \in Block
        PROVE  state'[b] = IF b \in DOMAIN kind /\ Flow!Triggered(b, A)
                             THEN UpdateState(kind[b], before[b], Flow!Inputs(out, b))
                             ELSE before[b]
    <3>1. state'[b] = IF b \in Created THEN Updated(b) ELSE before[b]
      BY <1>3, <1>4, <1>5 DEF Created, Block
    <3>2. b \in Created /\ kind[b].dynamic /\ Triggered(b)
            <=> b \in DOMAIN kind /\ Flow!Triggered(b, A)
      BY <1>5, <2>3
    <3> HIDE DEF A
    <3> QED BY <2>1, <3>1, <3>2 DEF Updated
  <2>5. DOMAIN before = Block /\ state' = [b \in Block |-> state'[b]]
    BY <1>3, <1>4
  <2>6. state' = [b \in DOMAIN before |->
                    IF b \in DOMAIN kind /\ Flow!Triggered(b, A)
                      THEN UpdateState(kind[b], before[b], Flow!Inputs(out, b))
                      ELSE before[b]]
    <3> HIDE DEF A
    <3> QED BY <2>4, <2>5
  <2>7. left \ needs' \subseteq {b \in left : ~Flow!Triggered(b, A)}
    <3>1. ASSUME NEW b \in left, Flow!Triggered(b, A)
          PROVE  b \in needs'
      <4>1. b \in Created /\ kind[b].dynamic /\ Triggered(b)
        BY <1>4, <2>3, <3>1
      <4>2. b = cur \/ b < cur
        BY <1>5, <4>1 DEF Created
      <4> QED BY <1>4, <4>1, <4>2, UpdateStatesState
    <3> HIDE DEF A
    <3> QED BY <3>1
  <2>8. Flow!Step(A)
    <3> HIDE DEF A
    <3> QED BY <1>1, <1>2, <1>4, <1>7, <2>2, <2>5, <2>6, <2>7 DEF Flow!Step
  <2>9. A \in SUBSET UNION {kind[b].events : b \in DOMAIN kind}
    OBVIOUS
  <2> HIDE DEF A
  <2> QED BY <2>8, <2>9 DEF Flow!Next
<1> QED BY <1>6, <1>7

\* A step of the execution is one of the data flow, or changes nothing of it.
LEMMA FlowStep ==
  ASSUME IInv, RInv, RInv', [RunNext]_<<compiled, run>>, 31 \notin active
  PROVE  [Flow!Next]_(Flow!vars)
<1>1. CASE Compile /\ UNCHANGED run
  <2>1. pc # "done"
    BY <1>1 DEF Compile, Build, NewBlock, Connect, ConnectExternal, RefuseEntry, CheckInputs,
           SetupStep, Pass1, Pass2, MarkInput, NextOutput, NextBlock, Undo
  <2>2. phase = "off" /\ phase' = phase /\ state' = state /\ left' = left
    BY <1>1, <2>1 DEF RInv, Started, run
  <2>3. Flow!Compile
    BY <2>2 DEF Flow!Compile
  <2> QED BY <2>3 DEF Flow!Next
<1>2. CASE Run /\ UNCHANGED compiled
  <2>1. /\ UNCHANGED <<pc, kind, intype, pre, executed, execlist>>
        /\ Created' = Created /\ Unconnected' = Unconnected /\ Overridden' = Overridden
    BY <1>2, SameCompiled
  <2>2. CASE Start
    <3>1. left = {}
      BY <2>2 DEF Start, RInv, Started
    <3>2. Flow!Start
      BY <2>1, <2>2, <3>1 DEF Start, Flow!Start
    <3> QED BY <3>2 DEF Flow!Next
  <2>3. CASE \E value \in Value, mask \in SUBSET Events : BeginOutputs(value, mask)
    <3>1. PICK value \in Value, mask \in SUBSET Events : BeginOutputs(value, mask)
      BY <2>3
    <3>2. /\ phase \in {"idle", "settled", "reset"} /\ phase' = "calc"
          /\ ext' \in Value /\ UNCHANGED <<state, needs>>
          /\ left' = {b \in left : ~kind[b].dfeed /\ b \notin needs}
      BY <3>1 DEF BeginOutputs
    <3>3. \A b \in left \ needs : ~kind[b].dfeed => ~Restores(kind[b])
      BY DEF RInv, Leaving
    <3>4. left' \subseteq {b \in IF phase = "idle" THEN left \ needs ELSE left :
                         ~kind[b].dfeed /\ ~Restores(kind[b])}
      BY <3>2, <3>3
    <3>5. Flow!Input
      BY <2>1, <3>2, <3>4 DEF Flow!Input
    <3> QED BY <3>5 DEF Flow!Next
  <2>4. CASE CalcOutputs
    BY <2>1, <2>4 DEF CalcOutputs, Flow!vars
  <2>5. CASE BeginUpdate
    BY <2>1, <2>5 DEF BeginUpdate, Flow!vars
  <2>6. CASE UpdateStates
    <3>1. CASE cur < Len(kind)
      BY <2>1, <2>6, <3>1 DEF UpdateStates, Flow!vars
    <3>2. CASE ~(cur < Len(kind))
      <4>1. cur \in Created /\ Len(kind) \in Nat
        BY <2>6, UpdateStatesState DEF IInv, TypeOK
      <4>2. cur = Len(kind)
        BY <3>2, <4>1 DEF Created
      <4> QED BY <1>2, <2>6, <4>2, LastUpdate
    <3> QED BY <3>1, <3>2
  <2>7. CASE ResetBlocks
    <3>1. DOMAIN state = Block
      BY DEF RInv, RunTypeOK
    <3>2. /\ phase \in {"idle", "settled", "reset"} /\ phase' \in {"idle", "reset"}
          /\ ext' = ext /\ state' = [b \in Block |-> InitialState]
      BY <2>7 DEF ResetBlocks
    <3>3. left' \subseteq Created /\ Created = DOMAIN kind
      BY <2>1 DEF RInv, RunTypeOK, IInv, TypeOK, Created
    <3>4. Flow!Reset
      BY <2>1, <3>1, <3>2, <3>3 DEF Flow!Reset
    <3> QED BY <3>4 DEF Flow!Next
  <2> QED BY <1>2, <2>2, <2>3, <2>4, <2>5, <2>6, <2>7 DEF Run
<1>3. CASE UNCHANGED <<compiled, run>>
  <2>1. /\ UNCHANGED <<pc, kind, intype, pre, executed, execlist>>
        /\ Created' = Created /\ Unconnected' = Unconnected /\ Overridden' = Overridden
    BY <1>3, SameCompiled
  <2> QED BY <1>3, <2>1 DEF run, Flow!vars
<1> QED BY <1>1, <1>2, <1>3 DEF RunNext, NotStarted

\* Of two solutions of the equations that agree on the outputs left by a reset,
\* the first block on the list at which they differed would read the same from
\* both.
LEMMA SameSolution ==
  ASSUME IInv, OInv, RInv, Unconnected = {}, Overridden = {},
         NEW y \in [Block -> Value], NEW z \in [Block -> Value],
         Flow!Solves(y), Flow!Solves(z), \A b \in left : y[b] = z[b], NEW c \in executed
  PROVE  y[c] = z[c]
<1> DEFINE Differ == {i \in 1 .. Len(execlist) : y[execlist[i]] # z[execlist[i]]}
           x      == IF phase = "update" THEN before ELSE state
<1> SUFFICES ASSUME y[c] # z[c] PROVE FALSE
  OBVIOUS
<1>1. Len(execlist) \in Nat /\ x \in [Block -> Value]
  BY DEF IInv, TypeOK, RInv, RunTypeOK
<1>2. Differ \subseteq Nat /\ Differ # {}
  <2>1. \E i \in 1 .. Len(execlist) : execlist[i] = c
    BY OnList DEF IInv, ScheduledOnce
  <2> QED BY <2>1
<1>3. PICK i \in Differ : \A j \in Differ : i <= j
  <2> HIDE DEF Differ
  <2> QED BY <1>2, LeastElement
<1> DEFINE b == execlist[i]
<1>4. /\ i \in 1 .. Len(execlist) /\ y[b] # z[b]
      /\ b \in executed /\ b \in Created /\ b \in Block /\ kind[b] \in Kinds
  BY <1>3, OnList, InputPorts
<1>5. /\ y[b] = CalcOutput(kind[b], x[b], Flow!Inputs(y, b))
      /\ z[b] = CalcOutput(kind[b], x[b], Flow!Inputs(z, b))
  <2> HIDE DEF b
  <2>1. b \in executed \ left
    BY <1>4
  <2> QED BY <2>1 DEF Flow!Solves
<1>6. \A k \in 1 .. kind[b].nin :
        /\ <<b, k>> \in InPorts(b)
        /\ \/ intype[<<b, k>>] = "extern"
           \/ intype[<<b, k>>] = "direct" /\ pre[<<b, k>>][1] \in Block
  BY <1>4, InputPorts, OnList
<1>7. CASE kind[b].dfeed
  <2>1. ASSUME NEW k \in 1 .. kind[b].nin, intype[<<b, k>>] = "direct"
        PROVE  y[pre[<<b, k>>][1]] = z[pre[<<b, k>>][1]]
    <3>1. PICK j \in 1 .. (i - 1) : execlist[j] = pre[<<b, k>>][1]
      BY <1>4, <1>6, <1>7, <2>1 DEF OInv, OrderValid, PureDynamic
    <3>2. j \in 1 .. Len(execlist) /\ ~(i <= j)
      BY <1>1, <1>4, <3>1
    <3> QED BY <1>3, <3>1, <3>2
  <2>2. Flow!Inputs(y, b) = Flow!Inputs(z, b)
    <3> HIDE DEF b
    <3> QED BY <1>6, <2>1 DEF Flow!Inputs
  <2> QED BY <1>4, <1>5, <2>2
<1>8. CASE ~kind[b].dfeed
  <2>1. /\ Flow!Inputs(y, b) \in [1 .. kind[b].nin -> Value]
        /\ Flow!Inputs(z, b) \in [1 .. kind[b].nin -> Value]
    <3>1. ext \in Value
      BY DEF RInv, RunTypeOK
    <3> HIDE DEF b
    <3> QED BY <1>6, <3>1 DEF Flow!Inputs
  <2>2. x[b] \in Value
    BY <1>1, <1>4
  <2> HIDE DEF b, x
  <2> QED BY <1>4, <1>5, <1>8, <2>1, <2>2, FeedthroughAssumption
<1> QED BY <1>7, <1>8

-----------------------------------------------------------------------------

\* The invariants of the set-up hold while the schematic is compiled and as
\* long as it runs, and so does the one of the execution.
THEOREM RunInvariance == RunSpec => [](IInv /\ OInv /\ RInv)
<1>1. RunInit => IInv /\ OInv /\ RInv
  BY InitInvariant, InitOrder, InitRun DEF RunInit
<1>2. IInv /\ OInv /\ RInv /\ [RunNext]_<<compiled, run>> => (IInv /\ OInv /\ RInv)'
  <2>1. [RunNext]_<<compiled, run>> => [Next]_vars
    BY DEF RunNext, NotStarted, Next, compiled, vars
  <2> QED BY <2>1, StepInvariant, StepOrder, StepRun
<1> QED BY <1>1, <1>2, PTL DEF RunSpec

\* Every variable of the execution keeps its type: the cursor stays inside the
\* list it traverses, states and outputs are values, and nothing runs on a
\* schematic whose set-up has not succeeded.
THEOREM RunTypeCorrect == RunSpec => []RunTypeOK
<1>1. RInv => RunTypeOK
  BY DEF RInv
<1> QED BY <1>1, RunInvariance, PTL

\* After every computation the outputs of all blocks on the list solve the
\* equations of the schematic for the present states and inputs, whatever the
\* blocks, their order, and the computations that were skipped.
THEOREM OutputsSettle == RunSpec => []OutputsSettled
<1>1. RInv => OutputsSettled
  BY DEF RInv, Settled, Leaving, OutputsSettled, Solved
<1> QED BY <1>1, RunInvariance, PTL

\* Where every kind of block without a direct feedthrough restores its output
\* when it is reset, nothing is left behind: after every computation all outputs
\* fit.
THEOREM AllOutputsFit ==
  ASSUME \A k \in Kinds : k.dfeed \/ Restores(k)
  PROVE  RunSpec => [](phase = "settled" /\ Overridden = {} =>
                         \A b \in executed : out[b] = CalcOutput(kind[b], state[b], Inputs(b)))
<1>1. IInv /\ RInv
        => (phase = "settled" /\ Overridden = {} =>
              \A b \in executed : out[b] = CalcOutput(kind[b], state[b], Inputs(b)))
  <2>1. SUFFICES ASSUME IInv, RInv, phase = "settled", Overridden = {}, NEW b \in executed
                 PROVE  out[b] = CalcOutput(kind[b], state[b], Inputs(b))
    OBVIOUS
  <2>2. kind[b] \in Kinds
    BY <2>1, OnList, InputPorts DEF RInv, Started
  <2>3. b \notin left
    BY <2>1, <2>2 DEF RInv, Leaving
  <2> QED BY <2>1, <2>3 DEF RInv, Settled, Solved
<1> QED BY <1>1, RunInvariance, PTL

\* There is no other solution than the computed one: with loops or without, the
\* equations, and the outputs left by a reset, determine the outputs of all
\* blocks on the list, so a step of the data flow leaves no choice to an
\* execution in another order.
THEOREM OneSolution ==
  RunSpec => [](phase # "off" /\ Overridden = {} =>
                  \A y, z \in [Block -> Value] :
                    Flow!Solves(y) /\ Flow!Solves(z) /\ (\A b \in left : y[b] = z[b])
                      => \A b \in executed : y[b] = z[b])
<1>1. IInv /\ OInv /\ RInv
        => (phase # "off" /\ Overridden = {} =>
              \A y, z \in [Block -> Value] :
                Flow!Solves(y) /\ Flow!Solves(z) /\ (\A b \in left : y[b] = z[b])
                  => \A b \in executed : y[b] = z[b])
  BY SameSolution DEF RInv, Started
<1> QED BY <1>1, RunInvariance, PTL

\* As long as event 31 is not triggered, which no block can hear, the steps of
\* a schematic are synchronous data flow.
THEOREM StepIsDataflow == RunSpec /\ [](31 \notin active) => FlowSpec
<1>1. RunInit => Flow!Init
  BY DEF RunInit, Flow!Init
<1>2. IInv /\ RInv /\ RInv' /\ [RunNext]_<<compiled, run>> /\ 31 \notin active
        => [Flow!Next]_(Flow!vars)
  BY FlowStep
<1> QED BY <1>1, <1>2, RunInvariance, PTL DEF RunSpec, FlowSpec, Flow!Spec

\* Where no kind of block subscribes to event 31, the execution implements
\* synchronous data flow without a condition.
THEOREM Dataflows ==
  ASSUME \A k \in Kinds : 31 \notin k.events
  PROVE  RunSpec => FlowSpec
<1>1. RInv => 31 \notin active
  BY DEF RInv, RunTypeOK, Events
<1> QED BY <1>1, RunInvariance, StepIsDataflow, PTL

\* So only event 31 goes unheard: as long as it is not triggered, every block
\* with a state that subscribes to an active event gets it in the state update.
THEOREM EventsHeard == RunSpec /\ [](31 \notin active) => EveryBitIsAnEvent
<1>1. ASSUME IInv, RInv, [RunNext]_<<compiled, run>>, 31 \notin active,
             phase = "update", phase' = "idle",
             NEW b \in Created, kind[b].dynamic, kind[b].events \intersect active # {}
      PROVE  b \in needs'
  <2>1. UpdateStates
    <3>1. phase' # phase
      BY <1>1
    <3>2. Run
      BY <1>1, <3>1 DEF RunNext, NotStarted, run
    <3> QED BY <1>1, <3>2 DEF Run, Start, BeginOutputs, CalcOutputs, BeginUpdate, ResetBlocks
  <2>2. cur = Len(kind)
    BY <1>1, <2>1, UpdateStatesState DEF UpdateStates, Created, IInv, TypeOK
  <2>3. Triggered(b)
    BY <1>1 DEF Triggered
  <2>4. CASE b = cur
    BY <1>1, <2>1, <2>3, <2>4, UpdateStatesState
  <2>5. CASE b # cur
    <3>1. b < cur
      BY <1>1, <2>2, <2>5 DEF Created, IInv, TypeOK
    <3>2. b \in needs
      BY <1>1, <2>3, <3>1 DEF RInv, Updating
    <3> QED BY <1>1, <2>1, <3>2, UpdateStatesState
  <2> QED BY <2>4, <2>5
<1>2. IInv /\ RInv /\ [RunNext]_<<compiled, run>> /\ 31 \notin active
        => [phase = "update" /\ phase' = "idle" =>
              \A b \in Created :
                kind[b].dynamic /\ kind[b].events \intersect active # {} => b \in needs'
           ]_<<compiled, run>>
  BY <1>1
<1> QED BY <1>2, RunInvariance, PTL DEF RunSpec, EveryBitIsAnEvent
===============================================================================

------------------------- MODULE ExecutionOrderProofs -------------------------
(***************************************************************************)
(* Proofs that the execution list is in the right order and leaves out     *)
(* only blocks on or behind loops, for every set of block kinds and every  *)
(* bound, on schematics in which no connection is overridden.              *)
(*                                                                         *)
(* The idea: the counter of a block is the number of its inputs that are   *)
(* not available, and an input fed by a block is available exactly when    *)
(* the walk has been at its entry in the junction list of its source.      *)
(* Where the counter reaches zero, all sources are on the list already;    *)
(* and at the end of the walk every input fed by a block of the list is    *)
(* available.                                                              *)
(***************************************************************************)
EXTENDS ExecutionListProofs, WellFoundedInduction

\* The passes and the walk, and what remains after them.
Running == pc \in {"pass1", "pass2", "walk", "done"}

\* The walk has been at this entry of the junction list of its source.
Visited(in) ==
  \E i \in 1 .. Len(execlist) :
    /\ execlist[i] = pre[in][1]
    /\ \/ i < at.pos
       \/ i = at.pos /\ pre[in][2] < at.out
       \/ /\ i = at.pos /\ pre[in][2] = at.out
          /\ \E j \in 1 .. Len(post[pre[in]]) : j < at.jct /\ post[pre[in]][j] = in

\* Before the walk external inputs are marked available only; then, of the
\* directly connected ones, those the walk has visited.
Marked ==
  /\ pc \in {"pass1", "pass2"} => \A in \in available : intype[in] = "extern"
  /\ pc \in {"walk", "done"} =>
       \A in \in Port : intype[in] = "direct" => (in \in available <=> Visited(in))

\* What the first pass sets up for block b and the walk keeps: the counter is
\* the number of inputs not available, and a block without any is scheduled.
CountedBlock(b) ==
  /\ remaining[b] = Cardinality(InPorts(b) \ available)
  /\ \A in \in InPorts(b) : intype[in] = "extern" => in \in available
  /\ InPorts(b) \subseteq available => b \in executed

Counted ==
  Running => \A b \in Created : (pc = "pass1" => b < at.pos) => CountedBlock(b)

\* A scheduled block that is not purely dynamic has all its inputs available.
Computable ==
  Running => \A b \in executed : PureDynamic(b) \/ InPorts(b) \subseteq available

\* The second pass schedules all purely dynamic blocks.
PureScheduled ==
  \A b \in Created :
    /\ PureDynamic(b)
    /\ pc \in {"walk", "done"} \/ (pc = "pass2" /\ b < at.pos)
    => b \in executed

\* Nothing is available before the passes; at the end the cursor is behind
\* the last output of the last block.
Ends ==
  /\ pc = "build" => available = {}
  /\ pc = "done" => /\ execlist # <<>> /\ at.pos = Len(execlist)
                    /\ at.out > kind[execlist[at.pos]].nout

OInv ==
  /\ OrderValid /\ PureScheduled /\ Ends
  /\ Overridden = {} => Marked /\ Counted /\ Computable

\* The direct feedthroughs form no loop: the blocks have ranks such that a block
\* whose outputs depend on its inputs ranks above the blocks that feed it.
NoLoop ==
  \E rank \in [Block -> Nat] :
    \A b \in Created : ~PureDynamic(b) =>
      \A in \in InPorts(b) : intype[in] = "direct" => rank[pre[in][1]] < rank[b]

\* With all inputs connected, all blocks are scheduled iff there is no loop.
ExecutedIffNoLoop ==
  pc = "done" /\ Overridden = {} /\ Unconnected = {} => (Created \subseteq executed <=> NoLoop)

-----------------------------------------------------------------------------

\* A nonempty set of natural numbers has a least element: what is asked of the
\* blocks one after the other is asked of the first one that fails.
LEMMA LeastElement ==
  ASSUME NEW S, S \subseteq Nat, S # {}
  PROVE  \E x \in S : \A y \in S : x <= y
<1> DEFINE R == {ss \in Nat \X Nat : ss[1] < ss[2]}
<1>1. IsWellFoundedOn(R, Nat)
  BY NatLessThanWellFounded DEF OpToRel
<1>2. PICK x \in S : \A y \in S : ~(<<y, x>> \in R)
  <2> HIDE DEF R
  <2> QED BY <1>1, WFMin
<1>3. ASSUME NEW y \in S PROVE x <= y
  <2>1. x \in Nat /\ y \in Nat /\ ~(<<y, x>> \in R)
    BY <1>2
  <2>2. ~(y < x)
    BY <2>1
  <2> QED BY <2>1, <2>2
<1> QED BY <1>3

\* A directly connected input is on the junction list of its source, an output
\* port of a created block.
LEMMA SourceOf ==
  ASSUME IInv, NEW in \in Port, intype[in] = "direct"
  PROVE  /\ pre[in] \in Port /\ pre[in][1] \in Created
         /\ pre[in] \in OutPorts(pre[in][1])
         /\ \E j \in 1 .. Len(post[pre[in]]) : post[pre[in]][j] = in
BY DEF IInv, JunctionsConsistent, DirectListed, ListedConnected

\* Created blocks are blocks, and have as many input ports as their kind says.
LEMMA PortsOfCreated ==
  ASSUME IInv, NEW b \in Created
  PROVE  /\ b \in Block /\ kind[b] \in Kinds /\ kind[b].nin \in Nat
         /\ InPorts(b) \subseteq Port /\ IsFiniteSet(InPorts(b))
         /\ Cardinality(InPorts(b)) = kind[b].nin
         /\ \A in \in InPorts(b) : in[1] = b
<1>1. b \in Block /\ kind[b] \in Kinds
  BY BoundsAssumption DEF IInv, Created, Block, TypeOK
<1>2. kind[b].nin \in Nat
  BY <1>1, KindsAssumption, BoundsAssumption
<1> QED BY <1>1, <1>2, PortsOfBlock DEF InPorts

\* The end of the list may take a block that is purely dynamic, or one whose
\* sources are all on the list.
LEMMA OrderAppend ==
  ASSUME IInv, OrderValid, UNCHANGED <<kind, intype, pre, post>>, NEW b \in Block,
         execlist' = Append(execlist, b),
         Overridden = {} /\ ~PureDynamic(b) =>
           \A in \in InPorts(b) :
             intype[in] = "direct" => \E j \in 1 .. Len(execlist) : execlist[j] = pre[in][1]
  PROVE  OrderValid'
<1>1. SUFFICES ASSUME Overridden = {}, NEW i \in 1 .. Len(execlist'), ~PureDynamic(execlist'[i]),
                      NEW in \in InPorts(execlist'[i]), intype[in] = "direct"
               PROVE  \E j \in 1 .. (i - 1) : execlist'[j] = pre[in][1]
  BY DEF OrderValid, Overridden, PureDynamic, InPorts
<1>2. /\ Len(execlist) \in Nat /\ Len(execlist') = Len(execlist) + 1
      /\ execlist'[Len(execlist) + 1] = b
      /\ \A j \in 1 .. Len(execlist) : execlist'[j] = execlist[j]
  BY DEF IInv, TypeOK
<1>3. CASE i = Len(execlist) + 1
  <2>1. \E j \in 1 .. Len(execlist) : execlist[j] = pre[in][1]
    BY <1>1, <1>2, <1>3
  <2> QED BY <1>2, <1>3, <2>1
<1>4. CASE i # Len(execlist) + 1
  <2>1. i \in 1 .. Len(execlist) /\ execlist'[i] = execlist[i]
    BY <1>2, <1>4
  <2>2. \E j \in 1 .. (i - 1) : execlist[j] = pre[in][1]
    BY <1>1, <2>1 DEF OrderValid
  <2> QED BY <1>2, <2>1, <2>2
<1> QED BY <1>3, <1>4

\* OrderValid and Overridden speak of the schematic and the list.
LEMMA SameOrder ==
  ASSUME OrderValid, UNCHANGED <<kind, intype, pre, post, execlist>>
  PROVE  OrderValid'
BY DEF OrderValid, Overridden, PureDynamic, InPorts

\* With nothing scheduled and available the invariant holds before the passes.
LEMMA QuietStep ==
  ASSUME pc' \in {"build", "refused", "crashed", "pass1"}, at' = Begin,
         available' = {}, executed' = {}, execlist' = <<>>, TypeOK'
  PROVE  OInv'
<1>1. OrderValid' /\ Ends'
  BY DEF OrderValid, Ends
<1>2. PureScheduled' /\ Marked' /\ Computable'
  BY DEF PureScheduled, Marked, Computable
<1>3. Counted'
  <2>1. at'.pos = 1 /\ Len(kind') \in Nat
    BY DEF Begin, TypeOK
  <2>2. \A b \in Created' : ~(b < 1)
    BY <2>1 DEF Created
  <2> QED BY <2>1, <2>2 DEF Counted, Running
<1> QED BY <1>1, <1>2, <1>3 DEF OInv

-----------------------------------------------------------------------------

\* The first pass: the counter of its block is the number of inputs that are
\* not external, and only external inputs are available.
LEMMA Pass1Order ==
  ASSUME IInv, OInv, Pass1
  PROVE  OInv'
<1>0. PICK b \in Nat : b = at.pos
  BY DEF IInv, TypeOK
<1> DEFINE extern == {in \in InPorts(b) : intype[in] = "extern"}
<1>1. /\ b \in Created /\ Len(kind) \in Nat /\ \A c \in Created : c \in Nat /\ c <= Len(kind)
      /\ at \in [pos : Nat \ {0}, out : Nat \ {0}, jct : Nat \ {0}]
  BY <1>0 DEF Pass1, IInv, Progress, Created, TypeOK
<1>2. /\ b \in Block /\ InPorts(b) \subseteq Port /\ IsFiniteSet(InPorts(b))
      /\ Cardinality(InPorts(b)) = kind[b].nin
  BY <1>1, PortsOfCreated
<1>3. /\ UNCHANGED <<kind, intype, pre, post>> /\ pc = "pass1"
      /\ remaining' = [remaining EXCEPT ![b] = kind[b].nin - Cardinality(extern)]
      /\ available' = available \union extern
  BY <1>0 DEF Pass1, schematic
<1>4. b \notin executed
  BY <1>0, <1>1, <1>3 DEF IInv, Completed
<1>5. \/ extern = InPorts(b) /\ executed' = executed \union {b} /\ execlist' = Append(execlist, b)
      \/ extern # InPorts(b) /\ executed' = executed /\ execlist' = execlist
  BY <1>0, <1>4 DEF Pass1, AddToExecutionList
<1>6. \/ pc' = "pass1" /\ at'.pos = b + 1
      \/ pc' = "pass2" /\ at'.pos = 1 /\ b = Len(kind)
  <2>1. CASE at.pos < Len(kind)
    BY <1>0, <1>1, <1>3, <2>1 DEF Pass1, Advance
  <2>2. CASE ~(at.pos < Len(kind))
    BY <1>0, <1>1, <1>3, <2>2 DEF Pass1, Advance, Begin
  <2> QED BY <2>1, <2>2
<1>7. \A c \in Created : (pc' = "pass1" => c < at'.pos) => c < b \/ c = b
  BY <1>1, <1>6
<1> HIDE DEF extern
<1>8. OrderValid'
  <2>1. CASE extern = InPorts(b) /\ execlist' = Append(execlist, b)
    <3>1. \A in \in InPorts(b) : intype[in] # "direct"
      BY <2>1 DEF extern
    <3> QED BY <1>2, <1>3, <2>1, <3>1, OrderAppend DEF OInv
  <2>2. CASE execlist' = execlist
    BY <1>3, <2>2, SameOrder DEF OInv
  <2> QED BY <1>5, <2>1, <2>2
<1>9. PureScheduled' /\ Ends'
  <2>1. \A c \in Created' : ~(c < 1)
    BY <1>1, <1>3 DEF Created
  <2> QED BY <1>6, <2>1 DEF PureScheduled, Ends
<1>10. ASSUME Overridden = {} PROVE Marked' /\ Counted' /\ Computable'
  <2>1. /\ \A in \in available : intype[in] = "extern"
        /\ \A c \in Created : c < b => CountedBlock(c)
        /\ \A c \in executed : PureDynamic(c) \/ InPorts(c) \subseteq available
    BY <1>0, <1>3, <1>10 DEF OInv, Marked, Counted, Computable, Running
  <2>2. Marked'
    BY <1>3, <1>6, <2>1 DEF Marked, extern
  <2>3. ASSUME NEW c \in Created, c < b PROVE CountedBlock(c)'
    <3>1. CountedBlock(c)
      BY <2>1, <2>3
    <3>2. c # b /\ c \in Block /\ \A in \in InPorts(c) : in[1] = c
      BY <1>1, <2>3, PortsOfCreated
    <3>3. \A in \in extern : in[1] = b
      BY <1>1, PortsOfCreated DEF extern
    <3>4. InPorts(c)' = InPorts(c) /\ InPorts(c) \ available' = InPorts(c) \ available
      BY <1>3, <3>2, <3>3 DEF InPorts
    <3>5. remaining'[c] = remaining[c]
      BY <1>3, <3>2 DEF IInv, TypeOK
    <3>6. InPorts(c) \subseteq available' => InPorts(c) \subseteq available
      BY <3>4
    <3>7. executed \subseteq executed' /\ available \subseteq available'
      BY <1>3, <1>5
    <3> QED BY <1>3, <3>1, <3>4, <3>5, <3>6, <3>7 DEF CountedBlock
  <2>4. CountedBlock(b)'
    <3>1. InPorts(b)' = InPorts(b) /\ InPorts(b) \ available' = InPorts(b) \ extern
      BY <1>3, <2>1 DEF InPorts, extern
    <3>2. extern \in SUBSET InPorts(b) /\ InPorts(b) \intersect extern = extern
      BY DEF extern
    <3>3. Cardinality(InPorts(b) \ extern) = Cardinality(InPorts(b)) - Cardinality(extern)
      <4>1. IsFiniteSet(InPorts(b))
        BY <1>2
      <4>2. Cardinality(InPorts(b) \ extern)
              = Cardinality(InPorts(b)) - Cardinality(InPorts(b) \intersect extern)
        BY <4>1, FS_Difference
      <4> QED BY <3>2, <4>2
    <3>4. remaining'[b] = kind[b].nin - Cardinality(extern)
      BY <1>2, <1>3 DEF IInv, TypeOK
    <3>5. remaining'[b] = Cardinality(InPorts(b) \ available')
      BY <1>2, <3>1, <3>3, <3>4
    <3>6. \A in \in InPorts(b) : intype[in] = "extern" => in \in available'
      BY <1>3 DEF extern
    <3>7. InPorts(b) \subseteq available' => extern = InPorts(b)
      BY <3>1, <3>2
    <3>8. InPorts(b) \subseteq available' => b \in executed'
      BY <1>5, <3>7
    <3> QED BY <1>3, <3>1, <3>5, <3>6, <3>8 DEF CountedBlock
  <2>5. Counted'
    <3>1. Created' = Created
      BY <1>3 DEF Created
    <3>2. \A c \in Created : (pc' = "pass1" => c < at'.pos) => CountedBlock(c)'
      BY <1>7, <2>3, <2>4
    <3> QED BY <3>1, <3>2 DEF Counted
  <2>6. \A c \in executed' : PureDynamic(c) \/ InPorts(c) \subseteq available'
    BY <1>3, <1>5, <2>1
  <2>7. Computable'
    BY <1>3, <2>6 DEF Computable, PureDynamic, InPorts
  <2> QED BY <2>2, <2>5, <2>7
<1>11. Overridden' = Overridden
  BY <1>3 DEF Overridden
<1> QED BY <1>8, <1>9, <1>10, <1>11 DEF OInv

\* The second pass: the blocks it adds are purely dynamic.
LEMMA Pass2Order ==
  ASSUME IInv, IInv', OInv, Pass2
  PROVE  OInv'
<1>0. PICK b \in Nat : b = at.pos
  BY DEF IInv, TypeOK
<1>1. /\ b \in Created /\ Len(kind) \in Nat /\ \A c \in Created : c \in Nat /\ c <= Len(kind)
      /\ at \in [pos : Nat \ {0}, out : Nat \ {0}, jct : Nat \ {0}]
  BY <1>0, SMTT(30) DEF Pass2, IInv, Progress, Created, TypeOK
<1>1a. b \in Block
  BY <1>1, PortsOfCreated
<1>2. /\ UNCHANGED <<kind, intype, pre, post, remaining, available>> /\ pc = "pass2"
      /\ Created' = Created
  BY DEF Pass2, schematic, Created
<1>3. \/ PureDynamic(b) /\ executed' = executed \union {b} /\ b \notin executed
         /\ execlist' = Append(execlist, b)
      \/ PureDynamic(b) /\ executed' = executed /\ b \in executed /\ execlist' = execlist
      \/ ~PureDynamic(b) /\ executed' = executed /\ execlist' = execlist
  BY <1>0 DEF Pass2, AddToExecutionList
<1>4. \/ pc' = "pass2" /\ at'.pos = b + 1
      \/ pc' = "walk" /\ at' = Begin /\ b = Len(kind)
      \/ pc' = "empty" /\ at' = Begin
  <2>1. CASE at.pos < Len(kind)
    BY <1>0, <1>1, <1>2, <2>1 DEF Pass2, Advance
  <2>2. CASE ~(at.pos < Len(kind))
    BY <1>0, <1>1, <1>2, <2>2 DEF Pass2, Advance
  <2> QED BY <2>1, <2>2
<1>5. OrderValid'
  <2>1. CASE PureDynamic(b) /\ execlist' = Append(execlist, b)
    BY <1>2, <1>1a, <2>1, OrderAppend DEF OInv
  <2>2. CASE execlist' = execlist
    BY <1>2, <2>2, SameOrder DEF OInv
  <2> QED BY <1>3, <2>1, <2>2
<1>6. PureScheduled' /\ Ends'
  <2>1. \A c \in Created : PureDynamic(c) /\ c < b => c \in executed
    BY <1>0, <1>2 DEF OInv, PureScheduled
  <2>2. \A c \in Created : PureDynamic(c) /\ (c < b \/ c = b) => c \in executed'
    BY <1>3, <2>1
  <2>3. \A c \in Created : pc' = "walk" \/ (pc' = "pass2" /\ c < at'.pos) => c < b \/ c = b
    BY <1>1, <1>4
  <2>4. pc' \notin {"build", "done"}
    BY <1>4
  <2> QED BY <1>2, <2>2, <2>3, <2>4 DEF PureScheduled, Ends, PureDynamic
<1>7. ASSUME Overridden = {} PROVE Marked' /\ Counted' /\ Computable'
  <2>1. /\ \A in \in available : intype[in] = "extern"
        /\ \A c \in Created : CountedBlock(c)
        /\ \A c \in executed : PureDynamic(c) \/ InPorts(c) \subseteq available
    BY <1>2, <1>7 DEF OInv, Marked, Counted, Computable, Running
  <2>2. Marked'
    <3>1. ASSUME pc' = "walk", NEW in \in Port, intype[in] = "direct" PROVE ~Visited(in)'
      <4>1. at'.pos = 1 /\ at'.out = 1 /\ at'.jct = 1
        BY <1>4, <3>1 DEF Begin
      <4>2. pre[in] \in Port
        BY <3>1, SourceOf
      <4>3. ~(pre[in][2] < 1)
        BY <4>2, BoundsAssumption DEF Port
      <4>4. \A i \in 1 .. Len(execlist') : ~(i < 1)
        BY DEF IInv, TypeOK
      <4>5. \A j \in 1 .. Len(post[pre[in]]) : ~(j < 1)
        BY <4>2 DEF IInv, TypeOK
      <4> QED BY <1>2, <4>1, <4>3, <4>4, <4>5 DEF Visited
    <3> QED BY <1>2, <1>4, <2>1, <3>1 DEF Marked
  <2>3. Counted'
    <3>1. executed \subseteq executed'
      BY <1>3
    <3>2. \A c \in Created : CountedBlock(c)'
      BY <1>2, <2>1, <3>1 DEF CountedBlock, InPorts
    <3> QED BY <1>2, <3>2 DEF Counted
  <2>4. \A c \in executed' : PureDynamic(c) \/ InPorts(c) \subseteq available
    BY <1>3, <2>1
  <2>5. Computable'
    BY <1>2, <2>4 DEF Computable, PureDynamic, InPorts
  <2> QED BY <2>2, <2>3, <2>5
<1>8. Overridden' = Overridden
  BY <1>2 DEF Overridden
<1> QED BY <1>5, <1>6, <1>7, <1>8 DEF OInv

\* The walk goes on where nothing is left to visit: the cursor moves, and what
\* it has visited stays the same.
LEMMA MoveOrder ==
  ASSUME IInv, IInv', OInv, NextOutput \/ NextBlock
  PROVE  OInv'
<1>1. /\ UNCHANGED <<kind, intype, pre, post, remaining, available, executed, execlist>>
      /\ pc = "walk" /\ Created' = Created
  BY DEF NextOutput, NextBlock, schematic, setup, Created
<1>2. /\ at \in [pos : Nat \ {0}, out : Nat \ {0}, jct : Nat \ {0}]
      /\ at.pos \in 1 .. Len(execlist) /\ Len(execlist) \in Nat /\ execlist # <<>>
  BY <1>1 DEF IInv, TypeOK, Progress
<1>3. \/ /\ pc' = "walk" /\ at' = [pos |-> at.pos, out |-> at.out + 1, jct |-> 1]
         /\ at.jct > Len(post[Here])
      \/ /\ pc' = "walk" /\ at' = [pos |-> at.pos + 1, out |-> 1, jct |-> 1]
         /\ at.out > kind[execlist[at.pos]].nout
      \/ /\ pc' = "done" /\ at' = at /\ at.pos = Len(execlist)
         /\ at.out > kind[execlist[at.pos]].nout
  <2>1. CASE NextOutput
    BY <1>1, <1>2, <2>1 DEF NextOutput
  <2>2. CASE NextBlock
    BY <1>1, <1>2, <2>2 DEF NextBlock
  <2> QED BY <2>1, <2>2
<1>4. OrderValid'
  BY <1>1, SameOrder DEF OInv
<1>5. PureScheduled' /\ Ends'
  BY <1>1, <1>2, <1>3 DEF OInv, PureScheduled, Ends, PureDynamic
<1>6. ASSUME NEW in \in Port, intype[in] = "direct" PROVE Visited(in)' <=> Visited(in)
  <2>1. /\ pre[in] \in Port /\ pre[in][1] \in Created /\ pre[in] = <<pre[in][1], pre[in][2]>>
        /\ pre[in][2] \in Nat /\ pre[in][2] >= 1
        /\ pre[in][2] <= kind[pre[in][1]].nout /\ kind[pre[in][1]].nout \in Nat
    <3>1. pre[in] \in Port /\ pre[in][1] \in Created /\ pre[in] \in OutPorts(pre[in][1])
      BY <1>6, SourceOf
    <3>2. kind[pre[in][1]] \in Kinds
      BY <3>1, PortsOfCreated
    <3>3. kind[pre[in][1]].nout \in Nat
      BY <3>2, KindsAssumption, BoundsAssumption
    <3>4. pre[in] = <<pre[in][1], pre[in][2]>> /\ pre[in][2] \in 1 .. kind[pre[in][1]].nout
      BY <3>1 DEF OutPorts
    <3> QED BY <3>1, <3>3, <3>4
  <2>2. /\ Len(post[pre[in]]) \in Nat
        /\ \E j \in 1 .. Len(post[pre[in]]) : post[pre[in]][j] = in
    <3>1. post[pre[in]] \in Seq(Port)
      BY <2>1 DEF IInv, TypeOK
    <3>2. \E j \in 1 .. Len(post[pre[in]]) : post[pre[in]][j] = in
      BY <1>6, SourceOf
    <3> QED BY <3>1, <3>2
  <2>3. CASE at' = [pos |-> at.pos, out |-> at.out + 1, jct |-> 1] /\ at.jct > Len(post[Here])
    <3>1. \A i \in 1 .. Len(execlist) : execlist[i] = pre[in][1] /\ i = at.pos /\ pre[in][2] = at.out =>
            \E j \in 1 .. Len(post[pre[in]]) : j < at.jct /\ post[pre[in]][j] = in
      <4>1. SUFFICES ASSUME NEW i \in 1 .. Len(execlist), execlist[i] = pre[in][1],
                            i = at.pos, pre[in][2] = at.out
                     PROVE  \E j \in 1 .. Len(post[pre[in]]) : j < at.jct /\ post[pre[in]][j] = in
        OBVIOUS
      <4>2. pre[in] = Here
        BY <2>1, <4>1 DEF Here
      <4> QED BY <1>2, <2>2, <2>3, <4>2
    <3>2. \A j \in 1 .. Len(post[pre[in]]) : ~(j < 1)
      BY <2>2
    <3>3. pre[in][2] < at.out + 1 <=> pre[in][2] < at.out \/ pre[in][2] = at.out
      BY <1>2, <2>1
    <3> QED BY <1>1, <2>3, <3>1, <3>2, <3>3 DEF Visited
  <2>4. CASE at' = [pos |-> at.pos + 1, out |-> 1, jct |-> 1] /\ at.out > kind[execlist[at.pos]].nout
    <3>1. \A i \in 1 .. Len(execlist) : execlist[i] = pre[in][1] /\ i = at.pos => pre[in][2] < at.out
      BY <1>2, <2>1, <2>4
    <3>2. \A j \in 1 .. Len(post[pre[in]]) : ~(j < 1)
      BY <2>2
    <3>3. ~(pre[in][2] < 1) /\ \A i \in 1 .. Len(execlist) : i < at.pos + 1 <=> i < at.pos \/ i = at.pos
      BY <1>2, <2>1
    <3> QED BY <1>1, <2>4, <3>1, <3>2, <3>3 DEF Visited
  <2>5. CASE at' = at
    BY <1>1, <2>5 DEF Visited
  <2> QED BY <1>3, <2>3, <2>4, <2>5
<1>7. ASSUME Overridden = {} PROVE Marked' /\ Counted' /\ Computable'
  <2>1. /\ \A in \in Port : intype[in] = "direct" => (in \in available <=> Visited(in))
        /\ \A c \in Created : CountedBlock(c)
        /\ \A c \in executed : PureDynamic(c) \/ InPorts(c) \subseteq available
    BY <1>1, <1>7 DEF OInv, Marked, Counted, Computable, Running
  <2>2. Marked'
    BY <1>1, <1>3, <1>6, <2>1 DEF Marked
  <2>3. Counted'
    BY <1>1, <1>3, <2>1 DEF Counted, CountedBlock, InPorts
  <2>4. Computable'
    BY <1>1, <2>1 DEF Computable, PureDynamic, InPorts
  <2> QED BY <2>2, <2>3, <2>4
<1>8. Overridden' = Overridden
  BY <1>1 DEF Overridden
<1> QED BY <1>4, <1>5, <1>7, <1>8 DEF OInv

\* One entry of a junction list: the input was not available before, for the
\* walk comes to every entry once; its block is scheduled when it was the last.
LEMMA MarkOrder ==
  ASSUME IInv, IInv', OInv, MarkInput
  PROVE  OInv'
<1>0. PICK in \in Port, b \in Created, h \in Port :
        /\ h = Here /\ in = post[h][at.jct] /\ b = in[1] /\ in \in InPorts(b)
        /\ intype[in] # "undef" /\ (intype[in] = "direct" => pre[in] = h)
        /\ h[1] = execlist[at.pos] /\ h[2] = at.out
        /\ at.jct \in 1 .. Len(post[h]) /\ at.pos \in 1 .. Len(execlist)
  <2>1. /\ at.pos \in 1 .. Len(execlist) /\ at.out \in Nat \ {0} /\ at.jct \in Nat \ {0}
        /\ at.out <= kind[execlist[at.pos]].nout /\ at.jct <= Len(post[Here])
    BY DEF MarkInput, IInv, TypeOK, Progress
  <2>2. execlist[at.pos] \in Created
    <3>0. \A i \in 1 .. Len(execlist) : execlist[i] \in Block
      BY DEF IInv, TypeOK
    <3>1. \A i \in 1 .. Len(execlist) : execlist[i] \in executed
      BY <3>0 DEF IInv, ScheduledOnce
    <3>2. executed \subseteq Created
      BY DEF IInv, Progress
    <3> QED BY <2>1, <3>1, <3>2
  <2>3. kind[execlist[at.pos]].nout \in 0 .. MaxPorts /\ execlist[at.pos] \in Block
    BY <2>2, PortsOfCreated, KindsAssumption
  <2>4. Here \in Port /\ Here[1] = execlist[at.pos] /\ Here[2] = at.out
    <3>1. at.out \in 1 .. MaxPorts
      BY <2>1, <2>3, BoundsAssumption
    <3> QED BY <2>3, <3>1 DEF Here, Port
  <2>5. at.jct \in 1 .. Len(post[Here])
    BY <2>1, <2>4 DEF IInv, TypeOK
  <2>6. LET i == post[Here][at.jct] IN
          /\ i \in Port /\ i[1] \in Created /\ i \in InPorts(i[1])
          /\ intype[i] # "undef" /\ (intype[i] = "direct" => pre[i] = Here)
    BY <2>4, <2>5 DEF IInv, JunctionsConsistent, ListedConnected
  <2> QED BY <2>1, <2>4, <2>5, <2>6
<1>1. /\ UNCHANGED <<kind, intype, pre, post>> /\ pc = "walk" /\ pc' = "walk"
      /\ Created' = Created
      /\ remaining' = [remaining EXCEPT ![b] = @ - 1] /\ available' = available \union {in}
      /\ at'.pos = at.pos /\ at'.out = at.out /\ at'.jct = at.jct + 1
  <2>1. pc' = "walk"
    BY MarkInputStep
  <2>2. at' = [at EXCEPT !.jct = @ + 1] /\ at \in [pos : Nat \ {0}, out : Nat \ {0}, jct : Nat \ {0}]
    BY DEF MarkInput, IInv, TypeOK
  <2>3. UNCHANGED <<kind, intype, pre, post>> /\ pc = "walk"
        /\ remaining' = [remaining EXCEPT ![b] = @ - 1] /\ available' = available \union {in}
    BY <1>0 DEF MarkInput, schematic
  <2> QED BY <2>1, <2>2, <2>3 DEF Created
<1>2. /\ b \in Block /\ IsFiniteSet(InPorts(b)) /\ remaining[b] \in Int
      /\ remaining'[b] = remaining[b] - 1
      /\ \A c \in Created \ {b} : remaining'[c] = remaining[c] /\ in \notin InPorts(c)
  <2>1. b \in Block /\ IsFiniteSet(InPorts(b))
    BY PortsOfCreated
  <2>2. \A c \in Created \ {b} : c \in Block /\ in \notin InPorts(c)
    BY <1>0, PortsOfCreated
  <2> QED BY <1>1, <2>1, <2>2 DEF IInv, TypeOK
<1>3. \/ /\ remaining[b] = 1 /\ b \notin executed
         /\ executed' = executed \union {b} /\ execlist' = Append(execlist, b)
      \/ /\ remaining[b] = 1 /\ b \in executed /\ executed' = executed /\ execlist' = execlist
      \/ remaining[b] # 1 /\ executed' = executed /\ execlist' = execlist
  BY <1>0 DEF MarkInput, AddToExecutionList
<1>4. /\ Len(execlist) \in Nat /\ Len(execlist') >= Len(execlist) /\ Len(execlist') \in Nat
      /\ \A i \in 1 .. Len(execlist) : execlist'[i] = execlist[i]
  <2>1. execlist \in Seq(Block) /\ execlist' \in Seq(Block)
    BY DEF IInv, TypeOK
  <2> QED BY <1>2, <1>3, <2>1
<1>5. ASSUME Overridden = {}
      PROVE  /\ intype[in] = "direct" /\ pre[in] = h
             /\ \A p \in Port : intype[p] = "direct" => (p \in available <=> Visited(p))
             /\ \A c \in Created : CountedBlock(c)
             /\ \A c \in executed : PureDynamic(c) \/ InPorts(c) \subseteq available
             /\ in \notin available
  <2>1. /\ \A p \in Port : intype[p] = "direct" => (p \in available <=> Visited(p))
        /\ \A c \in Created : CountedBlock(c)
        /\ \A c \in executed : PureDynamic(c) \/ InPorts(c) \subseteq available
    BY <1>1, <1>5 DEF OInv, Marked, Counted, Computable, Running
  <2>2. intype[in] \in {"undef", "direct", "extern"} /\ intype[in] # "extern"
    <3>1. \E out \in Port : \E j \in 1 .. Len(post[out]) : post[out][j] = in
      BY <1>0
    <3>2. intype[in] \in {"undef", "direct", "extern"}
      BY DEF IInv, TypeOK
    <3> QED BY <1>5, <3>1, <3>2 DEF Overridden
  <2>3. intype[in] = "direct" /\ pre[in] = h
    BY <1>0, <2>2
  <2>4. ~Visited(in)
    <3>1. \A i \in 1 .. Len(execlist) : execlist[i] = pre[in][1] => i = at.pos
      BY <1>0, <2>3 DEF IInv, ScheduledOnce
    <3>2. \A j \in 1 .. Len(post[h]) : post[h][j] = in => j = at.jct
      BY <1>0 DEF IInv, JunctionsConsistent, ListedOnce
    <3>3. at.pos \in Nat /\ at.out \in Nat /\ at.jct \in Nat
      BY DEF IInv, TypeOK
    <3>4. ~(at.pos < at.pos) /\ ~(pre[in][2] < at.out) /\ ~(at.jct < at.jct)
      BY <1>0, <2>3, <3>3
    <3> QED BY <2>3, <3>1, <3>2, <3>4 DEF Visited
  <2> QED BY <2>1, <2>3, <2>4
<1>6. ASSUME Overridden = {}
      PROVE  /\ remaining'[b] = Cardinality(InPorts(b) \ available')
             /\ remaining[b] = 1 <=> InPorts(b) \subseteq available'
             /\ b \in executed => PureDynamic(b)
  <2>1. /\ remaining[b] = Cardinality(InPorts(b) \ available)
        /\ IsFiniteSet(InPorts(b) \ available) /\ in \in InPorts(b) \ available
    BY <1>0, <1>2, <1>5, <1>6, FS_Difference DEF CountedBlock
  <2>2. InPorts(b) \ available' = (InPorts(b) \ available) \ {in}
    BY <1>1
  <2>3. /\ Cardinality((InPorts(b) \ available) \ {in}) = Cardinality(InPorts(b) \ available) - 1
        /\ IsFiniteSet((InPorts(b) \ available) \ {in})
    BY <2>1, FS_RemoveElement
  <2>4. Cardinality((InPorts(b) \ available) \ {in}) = 0 <=> (InPorts(b) \ available) \ {in} = {}
    BY <2>3, FS_EmptySet
  <2>5. remaining'[b] = Cardinality(InPorts(b) \ available')
    BY <1>2, <2>1, <2>2, <2>3
  <2>6. remaining[b] = 1 <=> InPorts(b) \ available' = {}
    BY <1>2, <2>1, <2>2, <2>3, <2>4
  <2>7. b \in executed => PureDynamic(b)
    BY <1>5, <1>6, <2>1
  <2> QED BY <2>5, <2>6, <2>7
<1>7. OrderValid'
  <2>1. CASE remaining[b] = 1 /\ execlist' = Append(execlist, b)
    <3>1. ASSUME Overridden = {}, NEW p \in InPorts(b), intype[p] = "direct"
          PROVE  \E j \in 1 .. Len(execlist) : execlist[j] = pre[p][1]
      <4>1. p \in Port
        BY <1>2, PortsOfCreated
      <4>2. CASE p = in
        BY <1>0, <1>5, <3>1, <4>2
      <4>3. CASE p # in
        <5>1. p \in available
          BY <1>1, <1>6, <2>1, <3>1, <4>3
        <5>2. Visited(p)
          BY <1>5, <3>1, <4>1, <5>1
        <5> QED BY <5>2 DEF Visited
      <4> QED BY <4>2, <4>3
    <3> QED BY <1>1, <1>2, <2>1, <3>1, OrderAppend DEF OInv
  <2>2. CASE execlist' = execlist
    BY <1>1, <2>2, SameOrder DEF OInv
  <2> QED BY <1>3, <2>1, <2>2
<1>8. PureScheduled' /\ Ends'
  <2>1. \A c \in Created : PureDynamic(c) => c \in executed
    BY <1>1 DEF OInv, PureScheduled
  <2> QED BY <1>1, <1>3, <2>1 DEF PureScheduled, Ends, PureDynamic
<1>9. ASSUME Overridden = {} PROVE Marked'
  <2>1. SUFFICES ASSUME NEW p \in Port, intype[p] = "direct"
                 PROVE  p \in available' <=> Visited(p)'
    BY <1>1 DEF Marked
  <2>2. \A i \in Int : i <= at.pos => (i \in 1 .. Len(execlist') <=> i \in 1 .. Len(execlist))
    BY <1>0, <1>4
  <2>3. at.pos \in Nat /\ at.jct \in Nat
    BY DEF IInv, TypeOK
  <2>4. CASE p = in
    <3>1. at.pos \in 1 .. Len(execlist') /\ execlist'[at.pos] = pre[p][1]
      BY <1>0, <1>4, <1>5, <1>9, <2>4
    <3>2. pre[p] = h /\ pre[p][2] = at.out /\ at.jct \in 1 .. Len(post[h]) /\ post[h][at.jct] = p
      BY <1>0, <1>5, <1>9, <2>4
    <3>3. Visited(p)'
      BY <1>1, <2>3, <3>1, <3>2 DEF Visited
    <3> QED BY <1>1, <2>4, <3>3
  <2>5. CASE p # in
    <3>1. \A i \in 1 .. Len(execlist) : i \in 1 .. Len(execlist') /\ execlist'[i] = execlist[i]
      BY <1>4
    <3>2. \A i \in 1 .. Len(execlist') : i < at.pos \/ i = at.pos =>
            i \in 1 .. Len(execlist) /\ execlist'[i] = execlist[i]
      BY <1>4, <2>2, <2>3
    <3>3. pre[p] \in Port /\ Len(post[pre[p]]) \in Nat /\ pre[p] = <<pre[p][1], pre[p][2]>>
      <4>1. pre[p] \in Port
        BY <2>1, SourceOf
      <4>2. Len(post[pre[p]]) \in Nat
        BY <4>1 DEF IInv, TypeOK
      <4>3. pre[p] = <<pre[p][1], pre[p][2]>>
        BY <4>1 DEF Port
      <4> QED BY <4>1, <4>2, <4>3
    <3>4. ASSUME Visited(p)' PROVE Visited(p)
      <4>1. PICK i \in 1 .. Len(execlist') :
              /\ execlist'[i] = pre[p][1]
              /\ \/ i < at.pos
                 \/ i = at.pos /\ pre[p][2] < at.out
                 \/ /\ i = at.pos /\ pre[p][2] = at.out
                    /\ \E j \in 1 .. Len(post[pre[p]]) : j < at.jct + 1 /\ post[pre[p]][j] = p
        BY <1>1, <3>4 DEF Visited
      <4>2. i \in 1 .. Len(execlist) /\ execlist[i] = pre[p][1]
        BY <3>2, <4>1
      <4>3. CASE i < at.pos \/ (i = at.pos /\ pre[p][2] < at.out)
        BY <4>2, <4>3 DEF Visited
      <4>4. CASE /\ i = at.pos /\ pre[p][2] = at.out
                 /\ \E j \in 1 .. Len(post[pre[p]]) : j < at.jct + 1 /\ post[pre[p]][j] = p
        <5>1. pre[p] = h
          BY <1>0, <3>3, <4>2, <4>4 DEF Here
        <5>2. PICK j \in 1 .. Len(post[pre[p]]) : j < at.jct + 1 /\ post[pre[p]][j] = p
          BY <4>4
        <5>3. j # at.jct
          BY <1>0, <2>5, <5>1, <5>2
        <5>4. j < at.jct
          BY <2>3, <3>3, <5>2, <5>3
        <5> QED BY <4>2, <4>4, <5>2, <5>4 DEF Visited
      <4> QED BY <4>1, <4>3, <4>4
    <3>5. ASSUME Visited(p) PROVE Visited(p)'
      <4>1. \A j \in 1 .. Len(post[pre[p]]) : j < at.jct => j < at.jct + 1
        BY <2>3, <3>3
      <4> QED BY <1>1, <3>1, <3>5, <4>1 DEF Visited
    <3>6. p \in available' <=> p \in available
      BY <1>1, <2>5
    <3> QED BY <1>5, <1>9, <2>1, <3>4, <3>5, <3>6
  <2> QED BY <2>4, <2>5
<1>10. ASSUME Overridden = {} PROVE Counted'
  <2>1. ASSUME NEW c \in Created, c # b PROVE CountedBlock(c)'
    <3>1. CountedBlock(c) /\ remaining'[c] = remaining[c] /\ in \notin InPorts(c)
      BY <1>2, <1>5, <1>10, <2>1
    <3>2. InPorts(c)' = InPorts(c) /\ InPorts(c) \ available' = InPorts(c) \ available
      BY <1>1, <3>1 DEF InPorts
    <3>3. InPorts(c) \subseteq available' => InPorts(c) \subseteq available
      BY <3>2
    <3>4. executed \subseteq executed' /\ available \subseteq available'
      BY <1>1, <1>3
    <3> QED BY <1>1, <3>1, <3>2, <3>3, <3>4 DEF CountedBlock
  <2>2. CountedBlock(b)'
    <3>1. CountedBlock(b)
      BY <1>5, <1>10
    <3>2. InPorts(b)' = InPorts(b) /\ available \subseteq available'
      BY <1>1 DEF InPorts
    <3>3. remaining[b] = 1 => b \in executed'
      BY <1>3
    <3> QED BY <1>1, <1>6, <1>10, <3>1, <3>2, <3>3 DEF CountedBlock
  <2> QED BY <1>1, <2>1, <2>2 DEF Counted
<1>11. ASSUME Overridden = {} PROVE Computable'
  <2>1. \A c \in executed' : PureDynamic(c) \/ InPorts(c) \subseteq available'
    BY <1>1, <1>3, <1>5, <1>6, <1>11
  <2> QED BY <1>1, <2>1 DEF Computable, PureDynamic, InPorts
<1>12. Overridden' = Overridden
  BY <1>1 DEF Overridden
<1> QED BY <1>7, <1>8, <1>9, <1>10, <1>11, <1>12 DEF OInv

-----------------------------------------------------------------------------

\* The empty schematic satisfies the invariant.
LEMMA InitOrder == Init => OInv
BY DEF Init, SchematicInit, OInv, OrderValid, PureScheduled, Ends, Marked, Counted,
       Computable, Running, Created

\* Every step keeps it.
LEMMA StepOrder == IInv /\ IInv' /\ OInv /\ [Next]_vars => OInv'
<1> SUFFICES ASSUME IInv, IInv', OInv, [Next]_vars PROVE OInv'
  OBVIOUS
<1>0. TypeOK'
  BY DEF IInv
<1>1. CASE Build /\ UNCHANGED <<setup, at>>
  <2>1. pc = "build" /\ pc' \in {"build", "refused"}
    BY <1>1 DEF Build, NewBlock, Connect, ConnectExternal, RefuseEntry
  <2>2. at = Begin /\ available = {} /\ executed = {} /\ execlist = <<>>
    BY <2>1 DEF IInv, Progress, OInv, Ends
  <2> QED BY <1>0, <1>1, <2>1, <2>2, QuietStep DEF setup
<1>2. CASE CheckInputs
  <2>1. pc = "build" /\ pc' \in {"pass1", "crashed", "refused"} /\ UNCHANGED <<setup, at>>
    BY <1>2 DEF CheckInputs
  <2>2. at = Begin /\ available = {} /\ executed = {} /\ execlist = <<>>
    BY <2>1 DEF IInv, Progress, OInv, Ends
  <2> QED BY <1>0, <2>1, <2>2, QuietStep DEF setup
<1>3. CASE Pass1
  BY <1>3, Pass1Order
<1>4. CASE Pass2
  BY <1>4, Pass2Order
<1>5. CASE MarkInput
  BY <1>5, MarkOrder
<1>6. CASE NextOutput \/ NextBlock
  BY <1>6, MoveOrder
<1>7. CASE Undo
  BY <1>0, <1>7, QuietStep DEF Undo
<1>8. CASE UNCHANGED vars
  <2>1. UNCHANGED <<pc, kind, intype, pre, post, remaining, available, executed, execlist, at>>
    BY <1>8 DEF vars, schematic, setup
  <2>2. UNCHANGED <<Overridden, Created>>
    BY <2>1 DEF Overridden, Created
  <2>3. OrderValid'
    BY <2>1, SameOrder DEF OInv
  <2>4. PureScheduled' /\ Ends'
    BY <2>1 DEF OInv, PureScheduled, Ends, PureDynamic, Created
  <2>5. Overridden = {} => Marked' /\ Counted' /\ Computable'
    <3>1. \A in \in Port : Visited(in)' <=> Visited(in)
      BY <2>1 DEF Visited
    <3>2. Marked' <=> Marked
      BY <2>1, <3>1 DEF Marked
    <3>3. \A b \in Created : CountedBlock(b)' <=> CountedBlock(b)
      BY <2>1 DEF CountedBlock, InPorts
    <3>4. Counted' <=> Counted
      BY <2>1, <2>2, <3>3 DEF Counted, Running
    <3>5. Computable' <=> Computable
      BY <2>1 DEF Computable, Running, PureDynamic, InPorts
    <3> QED BY <3>2, <3>4, <3>5 DEF OInv
  <2> QED BY <2>2, <2>3, <2>4, <2>5 DEF OInv
<1> QED BY <1>1, <1>2, <1>3, <1>4, <1>5, <1>6, <1>7, <1>8 DEF Next, Compile, SetupStep, Stopped

\* At the end of the walk, a block all of whose inputs are external or fed by
\* a block of the list is on the list itself.
LEMMA WalkComplete == IInv /\ OInv => LeftOutOnlyBehindLoops
<1> SUFFICES ASSUME IInv, OInv, pc = "done", Overridden = {}, NEW b \in Created \ executed
             PROVE  /\ ~PureDynamic(b)
                    /\ \E in \in InPorts(b) :
                         \/ intype[in] = "undef"
                         \/ intype[in] = "direct" /\ pre[in][1] \notin executed
  BY DEF LeftOutOnlyBehindLoops
<1>1. ~PureDynamic(b)
  BY DEF OInv, PureScheduled
<1>2. CountedBlock(b)
  BY DEF OInv, Counted, Running
<1>3. PICK in \in InPorts(b) : in \notin available
  BY <1>2 DEF CountedBlock
<1>4. in \in Port /\ intype[in] \in {"undef", "direct"}
  <2>1. in \in Port
    BY PortsOfCreated
  <2>2. intype[in] # "extern"
    BY <1>2, <1>3 DEF CountedBlock
  <2> QED BY <2>1, <2>2 DEF IInv, TypeOK
<1>5. ASSUME intype[in] = "direct", pre[in][1] \in executed PROVE FALSE
  <2>1. ~Visited(in)
    BY <1>3, <1>4, <1>5 DEF OInv, Marked
  <2>2. /\ pre[in][1] \in Created /\ pre[in][2] \in 1 .. kind[pre[in][1]].nout
    BY <1>4, <1>5, SourceOf DEF OutPorts
  <2>3. kind[pre[in][1]].nout \in Nat
    BY <2>2, PortsOfCreated, KindsAssumption, BoundsAssumption
  <2>4. PICK i \in 1 .. Len(execlist) : execlist[i] = pre[in][1]
    BY <1>5, <2>2, PortsOfCreated DEF IInv, ScheduledOnce
  <2>5. /\ at.pos = Len(execlist) /\ at.out > kind[execlist[at.pos]].nout
        /\ Len(execlist) \in Nat /\ at.out \in Nat
    BY DEF OInv, Ends, IInv, TypeOK
  <2>6. i < at.pos \/ (i = at.pos /\ pre[in][2] < at.out)
    BY <2>2, <2>3, <2>4, <2>5
  <2> QED BY <2>1, <2>4, <2>6 DEF Visited
<1> QED BY <1>1, <1>4, <1>5

\* Of the blocks that are left out, one of the lowest rank would be fed by
\* blocks of the list and external data only, so it is not left out.
LEMMA NoLoopComplete ==
  ASSUME IInv, LeftOutOnlyBehindLoops, pc = "done", Overridden = {},
         Unconnected = {}, NoLoop
  PROVE  Created \subseteq executed
<1> SUFFICES ASSUME Created \ executed # {} PROVE FALSE
  OBVIOUS
<1> DEFINE Missing == Created \ executed
<1>1. PICK rank \in [Block -> Nat] :
        \A b \in Created : ~PureDynamic(b) =>
          \A in \in InPorts(b) : intype[in] = "direct" => rank[pre[in][1]] < rank[b]
  BY DEF NoLoop
<1>2. Missing \subseteq Block
  BY PortsOfCreated
<1>3. PICK b \in Missing : \A c \in Missing : rank[b] <= rank[c]
  <2> DEFINE Ranks == {rank[c] : c \in Missing}
  <2>1. Ranks \subseteq Nat /\ Ranks # {}
    BY <1>2
  <2>2. PICK least \in Ranks : \A r \in Ranks : least <= r
    <3> HIDE DEF Ranks
    <3> QED BY <2>1, LeastElement
  <2> QED BY <2>2
<1>4. /\ ~PureDynamic(b)
      /\ \E in \in InPorts(b) :
           \/ intype[in] = "undef"
           \/ intype[in] = "direct" /\ pre[in][1] \notin executed
  BY DEF LeftOutOnlyBehindLoops
<1>5. PICK in \in InPorts(b) :
        \/ intype[in] = "undef"
        \/ intype[in] = "direct" /\ pre[in][1] \notin executed
  BY <1>4
<1>6. in \in Port /\ intype[in] = "direct" /\ pre[in][1] \notin executed
  <2>1. in \in Port
    BY <1>3, PortsOfCreated
  <2>2. intype[in] # "undef"
    BY <1>3 DEF Unconnected
  <2> QED BY <1>5, <2>1, <2>2
<1>7. pre[in][1] \in Missing
  BY <1>6, SourceOf
<1>8. rank[pre[in][1]] < rank[b]
  BY <1>1, <1>4, <1>6
<1>9. rank[b] \in Nat /\ rank[pre[in][1]] \in Nat
  BY <1>1, <1>2, <1>7
<1> QED BY <1>3, <1>7, <1>8, <1>9

\* When all blocks are scheduled, their positions on the list are such ranks.
LEMMA CompleteNoLoop ==
  ASSUME IInv, OrderValid, Overridden = {}, Created \subseteq executed
  PROVE  NoLoop
<1> DEFINE At(b)   == {i \in 1 .. Len(execlist) : execlist[i] = b}
           rank    == [b \in Block |-> IF At(b) # {} THEN CHOOSE i \in At(b) : TRUE ELSE 0]
<1>1. Len(execlist) \in Nat
  BY DEF IInv, TypeOK
<1>2. \A i \in 1 .. Len(execlist) : execlist[i] \in Block /\ rank[execlist[i]] = i
  <2>1. \A i \in 1 .. Len(execlist) : execlist[i] \in Block /\ At(execlist[i]) = {i}
    BY <1>1 DEF IInv, TypeOK, ScheduledOnce
  <2> QED BY <2>1
<1>3. rank \in [Block -> Nat]
  BY <1>1
<1>4. ASSUME NEW b \in Created, ~PureDynamic(b), NEW in \in InPorts(b), intype[in] = "direct"
      PROVE  rank[pre[in][1]] < rank[b]
  <2>1. PICK i \in 1 .. Len(execlist) : execlist[i] = b
    BY PortsOfCreated DEF IInv, ScheduledOnce
  <2>2. PICK j \in 1 .. (i - 1) : execlist[j] = pre[in][1]
    BY <1>4, <2>1 DEF OrderValid
  <2>3. j \in 1 .. Len(execlist) /\ j < i
    BY <1>1, <2>1, <2>2
  <2> HIDE DEF rank
  <2> QED BY <1>2, <2>1, <2>2, <2>3
<1> HIDE DEF rank
<1> QED BY <1>3, <1>4 DEF NoLoop

-----------------------------------------------------------------------------

\* The invariant of the order holds in every reachable state of the set-up.
THEOREM OrderInvariance == Spec => []OInv
BY InitOrder, StepOrder, Invariance, PTL DEF Spec

\* In every schematic without overridden connections, whatever its loops, a
\* block whose outputs depend on its inputs is on the execution list after all
\* blocks that feed it: it never computes from outputs of the step before.
THEOREM Order == Spec => []OrderValid
<1>1. OInv => OrderValid
  BY DEF OInv
<1> QED BY <1>1, OrderInvariance, PTL

\* A successful set-up leaves out only blocks on or behind loops of blocks that
\* are left out (or behind an unconnected input the check missed).
THEOREM LeftOut == Spec => []LeftOutOnlyBehindLoops
BY WalkComplete, Invariance, OrderInvariance, PTL

\* In every schematic whose inputs are all connected, a successful set-up
\* schedules every block exactly when the direct feedthroughs form no loop.
THEOREM LoopFree == Spec => []ExecutedIffNoLoop
<1>1. IInv /\ OrderValid /\ LeftOutOnlyBehindLoops => ExecutedIffNoLoop
  BY NoLoopComplete, CompleteNoLoop DEF ExecutedIffNoLoop
<1> QED BY <1>1, Invariance, Order, LeftOut, PTL
=============================================================================

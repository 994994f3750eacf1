------------------------- MODULE ExecutionListProofs -------------------------
(***************************************************************************)
(* Proofs about the set-up of the execution list, for every set of block   *)
(* kinds and every bound on the schematic.                                 *)
(*                                                                         *)
(* The idea: a block is added where the number of its remaining inputs     *)
(* reaches zero, or by the second pass if it is purely dynamic.  From then *)
(* on the number only falls, so that a block with a direct feedthrough is  *)
(* never found at the point of its completion a second time.               *)
(***************************************************************************)
EXTENDS ExecutionList, FiniteSetTheorems, TLAPS

\* Where the cursor may be, and that nothing is scheduled before the passes.
Progress ==
  /\ pc = "build" => at = Begin /\ executed = {} /\ execlist = <<>>
  /\ pc \in {"pass1", "pass2"} => at.pos \in 1 .. Len(kind)
  /\ pc = "walk" => at.pos \in 1 .. Len(execlist)
  /\ executed \subseteq Created

\* A block with direct feedthrough that is scheduled has no input remaining.
Completed ==
  /\ pc = "pass1" => \A b \in executed : b < at.pos
  /\ \A b \in executed : kind[b].dfeed => remaining[b] <= 0

IInv == TypeOK /\ JunctionsConsistent /\ Progress /\ ScheduledOnce /\ Completed

-----------------------------------------------------------------------------

\* A sequence with an element put in front of it.
LEMMA Prepend ==
  ASSUME NEW S, NEW s \in Seq(S), NEW e \in S
  PROVE  /\ <<e>> \o s \in Seq(S)
         /\ Len(<<e>> \o s) = Len(s) + 1
         /\ (<<e>> \o s)[1] = e
         /\ \A j \in 2 .. Len(s) + 1 : (<<e>> \o s)[j] = s[j - 1]
OBVIOUS

\* The ports of a block of kind k are ports, and there are as many of them as
\* the kind says.
LEMMA PortsOfBlock ==
  ASSUME NEW b \in Block, NEW k \in Kinds
  PROVE  /\ {b} \X (1 .. k.nin) \subseteq Port
         /\ {b} \X (1 .. k.nout) \subseteq Port
         /\ IsFiniteSet({b} \X (1 .. k.nin))
         /\ Cardinality({b} \X (1 .. k.nin)) = k.nin
<1>1. k.nin \in 0 .. MaxPorts /\ k.nout \in 0 .. MaxPorts
  BY KindsAssumption
<1>2. IsFiniteSet({b}) /\ Cardinality({b}) = 1
  BY FS_Singleton
<1>3. IsFiniteSet(1 .. k.nin) /\ Cardinality(1 .. k.nin) = k.nin
  <2>1. 1 \in Int /\ k.nin \in Int /\ k.nin >= 0
    BY <1>1, BoundsAssumption
  <2>2. Cardinality(1 .. k.nin) = IF 1 > k.nin THEN 0 ELSE k.nin - 1 + 1
    BY <2>1, FS_Interval
  <2>3. IsFiniteSet(1 .. k.nin)
    BY <2>1, FS_Interval
  <2> QED BY <2>1, <2>2, <2>3
<1>4. IsFiniteSet({b} \X (1 .. k.nin)) /\ Cardinality({b} \X (1 .. k.nin)) = 1 * k.nin
  <2>1. /\ IsFiniteSet({b} \X (1 .. k.nin))
        /\ Cardinality({b} \X (1 .. k.nin)) = Cardinality({b}) * Cardinality(1 .. k.nin)
    BY <1>2, <1>3, FS_Product, Zenon
  <2> QED BY <1>2, <1>3, <2>1
<1>5. 1 .. k.nin \subseteq 1 .. MaxPorts /\ 1 .. k.nout \subseteq 1 .. MaxPorts
  BY <1>1, BoundsAssumption
<1>6. {b} \X (1 .. k.nin) \subseteq Port /\ {b} \X (1 .. k.nout) \subseteq Port
  BY <1>5 DEF Port
<1>7. 1 * k.nin = k.nin
  BY <1>1, BoundsAssumption
<1> QED BY <1>4, <1>6, <1>7

\* Adding a block to the execution list keeps every block on it once.
LEMMA Add ==
  ASSUME TypeOK, ScheduledOnce, NEW b \in Block, AddToExecutionList(b)
  PROVE  /\ ScheduledOnce'
         /\ executed' = executed \union {b}
         /\ execlist' \in Seq(Block)
         /\ Len(execlist') >= Len(execlist)
         /\ \A i \in 1 .. Len(execlist) : execlist'[i] = execlist[i]
         /\ execlist' # <<>>
<1>1. CASE b \in executed
  <2>1. execlist' = execlist /\ executed' = executed
    BY <1>1 DEF AddToExecutionList, TypeOK
  <2>2. execlist # <<>>
    BY <1>1 DEF ScheduledOnce, TypeOK
  <2> QED BY <2>1, <2>2, <1>1 DEF ScheduledOnce, TypeOK
<1>2. CASE b \notin executed
  <2>1. execlist' = Append(execlist, b) /\ executed' = executed \union {b}
    BY <1>2 DEF AddToExecutionList
  <2>2. /\ Len(execlist') = Len(execlist) + 1 /\ execlist' \in Seq(Block)
        /\ execlist'[Len(execlist) + 1] = b
        /\ \A i \in 1 .. Len(execlist) : execlist'[i] = execlist[i]
    BY <2>1 DEF TypeOK
  <2>3. \A i \in 1 .. Len(execlist) : execlist[i] # b
    BY <1>2 DEF ScheduledOnce
  <2>4. \A i, j \in 1 .. Len(execlist') : execlist'[i] = execlist'[j] => i = j
    <3>1. SUFFICES ASSUME NEW i \in 1 .. Len(execlist'), NEW j \in 1 .. Len(execlist'),
                          execlist'[i] = execlist'[j]
                   PROVE  i = j
      OBVIOUS
    <3>2. Len(execlist) \in Nat
      BY DEF TypeOK
    <3>3. CASE i \in 1 .. Len(execlist) /\ j \in 1 .. Len(execlist)
      <4>1. execlist[i] = execlist[j]
        BY <2>2, <3>1, <3>3
      <4> QED BY <3>3, <4>1 DEF ScheduledOnce
    <3>4. CASE i \notin 1 .. Len(execlist) /\ j \notin 1 .. Len(execlist)
      BY <2>2, <3>2, <3>4
    <3>5. CASE i \in 1 .. Len(execlist) /\ j \notin 1 .. Len(execlist)
      <4>1. j = Len(execlist) + 1
        BY <2>2, <3>2, <3>5
      <4> QED BY <2>2, <2>3, <3>1, <3>5, <4>1
    <3>6. CASE i \notin 1 .. Len(execlist) /\ j \in 1 .. Len(execlist)
      <4>1. i = Len(execlist) + 1
        BY <2>2, <3>2, <3>6
      <4> QED BY <2>2, <2>3, <3>1, <3>6, <4>1
    <3> QED BY <3>3, <3>4, <3>5, <3>6
  <2>5. \A c \in Block : c \in executed' <=> \E i \in 1 .. Len(execlist') : execlist'[i] = c
    <3>1. TAKE c \in Block
    <3>2. CASE c = b
      BY <3>2, <2>1, <2>2 DEF TypeOK
    <3>3. CASE c # b
      BY <3>3, <2>1, <2>2 DEF ScheduledOnce, TypeOK
    <3> QED BY <3>2, <3>3
  <2>6. execlist' # <<>> /\ Len(execlist') >= Len(execlist)
    BY <2>2 DEF TypeOK
  <2> QED BY <2>1, <2>2, <2>4, <2>5, <2>6 DEF ScheduledOnce
<1> QED BY <1>1, <1>2

-----------------------------------------------------------------------------

\* Deleting the schematic, with nothing scheduled, keeps the invariant.
LEMMA DeleteStep ==
  ASSUME IInv, pc' = "refused", DeleteSchematic,
         executed' = {}, execlist' = <<>>, available' \subseteq Port,
         remaining' \in [Block -> Int],
         at' \in [pos : Nat \ {0}, out : Nat \ {0}, jct : Nat \ {0}]
  PROVE  IInv'
<1> USE DEF IInv
<1>1. kind' = <<>> /\ Len(kind') = 0 /\ kind' \in Seq(Kinds)
  BY DEF DeleteSchematic
<1>2. /\ intype' \in [Port -> {"undef", "direct", "extern"}]
      /\ pre' \in [Port -> Port \union {NoPort}]
      /\ \A p \in Port : intype'[p] = "undef" /\ pre'[p] = NoPort
  BY DEF DeleteSchematic, NoType, NoSource
<1>3. post' \in [Port -> Seq(Port)] /\ \A p \in Port : post'[p] = <<>> /\ Len(post'[p]) = 0
  BY DEF DeleteSchematic, NoJunction
<1>4. TypeOK'
  BY <1>1, <1>2, <1>3, BoundsAssumption DEF TypeOK, Ended
<1>5. JunctionsConsistent'
  <2>1. \A p \in Port : 1 .. Len(post'[p]) = {}
    BY <1>3
  <2>2. \A p \in Port : intype'[p] # "direct"
    BY <1>2
  <2>3. ListedConnected' /\ ListedOnce'
    BY <2>1 DEF ListedConnected, ListedOnce
  <2>4. DirectListed'
    BY <2>2 DEF DirectListed
  <2> QED BY <2>3, <2>4 DEF JunctionsConsistent
<1>6. Progress' /\ Completed'
  BY DEF Progress, Completed
<1>7. ScheduledOnce'
  BY DEF ScheduledOnce
<1> QED BY <1>4, <1>5, <1>6, <1>7

\* A new block, at the end of the list of all blocks.
LEMMA NewBlockStep ==
  ASSUME IInv, NEW k \in Kinds, NewBlock(k), UNCHANGED <<setup, at>>
  PROVE  IInv'
<1> USE DEF IInv
<1>1. /\ kind' \in Seq(Kinds) /\ Len(kind') = Len(kind) + 1 /\ Len(kind') <= MaxBlocks
      /\ \A b \in Created : b \in Created' /\ kind'[b] = kind[b]
  BY BoundsAssumption DEF NewBlock, TypeOK, Created
<1>2. TypeOK'
  BY <1>1 DEF TypeOK, NewBlock, setup
<1>3. JunctionsConsistent'
  <2>1. UNCHANGED <<intype, pre, post>>
    BY DEF NewBlock
  <2>2. ListedConnected'
    BY <1>1, <2>1 DEF JunctionsConsistent, ListedConnected, InPorts, OutPorts
  <2>3. ListedOnce' /\ DirectListed'
    BY <2>1 DEF JunctionsConsistent, ListedOnce, DirectListed
  <2> QED BY <2>2, <2>3 DEF JunctionsConsistent
<1>4. Progress' /\ Completed' /\ ScheduledOnce'
  BY <1>1 DEF Progress, Completed, ScheduledOnce, NewBlock, setup
<1> QED BY <1>2, <1>3, <1>4

\* An entry of the connection list is put in front of the junction list: the
\* input was unconnected, hence on no list.
LEMMA ConnectStep ==
  ASSUME IInv, NEW a \in Created, NEW b \in Created,
         NEW out \in OutPorts(a), NEW in \in InPorts(b), Connect(out, in),
         UNCHANGED <<setup, at>>
  PROVE  IInv'
<1> USE DEF IInv
<1>1. /\ a \in Block /\ b \in Block /\ kind[a] \in Kinds /\ kind[b] \in Kinds
  BY BoundsAssumption DEF Created, Block, TypeOK
<1>2. out \in Port /\ in \in Port /\ out[1] = a /\ in[1] = b
  BY <1>1, PortsOfBlock DEF OutPorts, InPorts
<1>3. /\ post[out] \in Seq(Port) /\ post'[out] = <<in>> \o post[out]
      /\ post' \in [Port -> Seq(Port)]
      /\ \A p \in Port \ {out} : post'[p] = post[p]
  <2>1. post[out] \in Seq(Port) /\ <<in>> \o post[out] \in Seq(Port)
    BY <1>2, Prepend DEF TypeOK
  <2> QED BY <1>2, <2>1 DEF Connect, TypeOK
<1>4. /\ Len(post'[out]) = Len(post[out]) + 1 /\ post'[out][1] = in
      /\ \A j \in 2 .. Len(post[out]) + 1 : post'[out][j] = post[out][j - 1]
  BY <1>2, <1>3, Prepend, SMTT(30)
<1>5. /\ intype' \in [Port -> {"undef", "direct", "extern"}] /\ intype'[in] = "direct"
      /\ pre' \in [Port -> Port \union {NoPort}] /\ pre'[in] = out
      /\ \A p \in Port \ {in} : intype'[p] = intype[p] /\ pre'[p] = pre[p]
  BY <1>2 DEF Connect, TypeOK
<1>6. \A p \in Port : \A j \in 1 .. Len(post[p]) : post[p][j] # in
  BY DEF JunctionsConsistent, ListedConnected, Connect
<1>7. TypeOK'
  BY <1>3, <1>5 DEF TypeOK, Connect, setup
<1>8. \A p \in Port : \A j \in 1 .. Len(post'[p]) :
        \/ p = out /\ j = 1 /\ post'[p][j] = in
        \/ \E i \in 1 .. Len(post[p]) :
             post'[p][j] = post[p][i] /\ (IF p = out THEN j = i + 1 ELSE j = i)
  <2>1. SUFFICES ASSUME NEW p \in Port, NEW j \in 1 .. Len(post'[p])
                 PROVE  \/ p = out /\ j = 1 /\ post'[p][j] = in
                        \/ \E i \in 1 .. Len(post[p]) :
                             /\ post'[p][j] = post[p][i]
                             /\ IF p = out THEN j = i + 1 ELSE j = i
    OBVIOUS
  <2>2. CASE p = out /\ j = 1
    BY <2>2, <1>4
  <2>3. CASE p = out /\ j # 1
    <3>1. Len(post[out]) \in Nat
      BY <1>3
    <3>2. j - 1 \in 1 .. Len(post[out]) /\ j \in 2 .. Len(post[out]) + 1 /\ j = (j - 1) + 1
      BY <2>3, <3>1, <1>4
    <3>3. post'[out][j] = post[out][j - 1]
      BY <3>2, <1>4
    <3> QED BY <2>3, <3>2, <3>3
  <2>4. CASE p # out
    BY <2>4, <1>3
  <2> QED BY <2>2, <2>3, <2>4
<1>9. \A p \in Port : \A j \in 1 .. Len(post'[p]) :
        LET i == post'[p][j] IN
          /\ p[1] \in Created /\ p \in OutPorts(p[1])
          /\ i \in Port /\ i[1] \in Created /\ i \in InPorts(i[1])
          /\ intype'[i] # "undef"
          /\ intype'[i] = "direct" => pre'[i] = p
  <2>1. SUFFICES ASSUME NEW p \in Port, NEW j \in 1 .. Len(post'[p])
                 PROVE  LET i == post'[p][j] IN
                          /\ p[1] \in Created /\ p \in OutPorts(p[1])
                          /\ i \in Port /\ i[1] \in Created /\ i \in InPorts(i[1])
                          /\ intype'[i] # "undef"
                          /\ intype'[i] = "direct" => pre'[i] = p
    OBVIOUS
  <2>2. CASE p = out /\ j = 1 /\ post'[p][j] = in
    BY <2>2, <1>2, <1>5
  <2>3. CASE \E i \in 1 .. Len(post[p]) : post'[p][j] = post[p][i]
    BY <2>3, <1>5, <1>6 DEF JunctionsConsistent, ListedConnected
  <2> QED BY <1>8, <2>2, <2>3
<1>10. \A p, q \in Port : \A i \in 1 .. Len(post'[p]), j \in 1 .. Len(post'[q]) :
         post'[p][i] = post'[q][j] => p = q /\ i = j
  <2>1. SUFFICES ASSUME NEW p \in Port, NEW q \in Port,
                        NEW i \in 1 .. Len(post'[p]), NEW j \in 1 .. Len(post'[q]),
                        post'[p][i] = post'[q][j]
                 PROVE  p = q /\ i = j
    OBVIOUS
  <2>2. CASE post'[p][i] = in
    <3>1. p = out /\ i = 1
      BY <1>6, <1>8, <2>2, SMTT(30)
    <3>2. post'[q][j] = in
      BY <2>1, <2>2
    <3>3. q = out /\ j = 1
      BY <1>6, <1>8, <3>2
    <3> QED BY <3>1, <3>3
  <2>3. CASE post'[p][i] # in
    <3>1. PICK k \in 1 .. Len(post[p]) :
            post'[p][i] = post[p][k] /\ (IF p = out THEN i = k + 1 ELSE i = k)
      BY <1>8, <2>3
    <3>2. PICK l \in 1 .. Len(post[q]) :
            post'[q][j] = post[q][l] /\ (IF q = out THEN j = l + 1 ELSE j = l)
      BY <1>8, <2>1, <2>3
    <3>3. post[p][k] = post[q][l]
      BY <2>1, <3>1, <3>2
    <3>4. p = q /\ k = l
      BY <3>3 DEF JunctionsConsistent, ListedOnce
    <3> QED BY <3>1, <3>2, <3>4
  <2> QED BY <2>2, <2>3
<1>11. \A i \in Port : intype'[i] = "direct" =>
         pre'[i] \in Port /\ \E j \in 1 .. Len(post'[pre'[i]]) : post'[pre'[i]][j] = i
  <2>1. SUFFICES ASSUME NEW i \in Port, intype'[i] = "direct"
                 PROVE  /\ pre'[i] \in Port
                        /\ \E j \in 1 .. Len(post'[pre'[i]]) : post'[pre'[i]][j] = i
    OBVIOUS
  <2>2. CASE i = in
    <3>1. Len(post[out]) \in Nat
      BY <1>3
    <3> QED BY <2>2, <3>1, <1>2, <1>4, <1>5
  <2>3. CASE i # in
    <3>1. pre'[i] = pre[i] /\ intype[i] = "direct"
      BY <2>1, <2>3, <1>5
    <3>2. PICK j \in 1 .. Len(post[pre[i]]) : post[pre[i]][j] = i
      BY <3>1 DEF JunctionsConsistent, DirectListed
    <3>3. pre[i] \in Port
      BY <3>1 DEF JunctionsConsistent, DirectListed
    <3>4. CASE pre[i] = out
      <4>1. Len(post[out]) \in Nat /\ j \in 1 .. Len(post[out])
        BY <1>3, <3>2, <3>4
      <4>2. j + 1 \in 2 .. Len(post[out]) + 1 /\ (j + 1) - 1 = j
        BY <4>1
      <4>3. post'[out][j + 1] = i /\ j + 1 \in 1 .. Len(post'[out])
        BY <4>1, <4>2, <1>4, <3>2, <3>4
      <4> QED BY <4>3, <3>1, <3>3, <3>4
    <3>5. CASE pre[i] # out
      BY <3>1, <3>2, <3>3, <3>5, <1>3
    <3> QED BY <3>4, <3>5
  <2> QED BY <2>2, <2>3
<1>12. JunctionsConsistent'
  <2>1. kind' = kind
    BY DEF Connect
  <2>2. ListedConnected'
    BY <1>9, <2>1 DEF ListedConnected, OutPorts, InPorts, Created
  <2>3. ListedOnce'
    BY <1>10 DEF ListedOnce
  <2>4. DirectListed'
    BY <1>11 DEF DirectListed
  <2> QED BY <2>2, <2>3, <2>4 DEF JunctionsConsistent
<1>13. Progress' /\ Completed' /\ ScheduledOnce'
  BY DEF Progress, Completed, ScheduledOnce, Connect, Created, setup
<1> QED BY <1>7, <1>12, <1>13

\* An external connection changes the type of the port and nothing else.
LEMMA ConnectExternalStep ==
  ASSUME IInv, NEW b \in Created, NEW in \in InPorts(b), ConnectExternal(in),
         UNCHANGED <<setup, at>>
  PROVE  IInv'
<1> USE DEF IInv
<1>1. in \in Port
  <2>1. b \in Block /\ kind[b] \in Kinds
    BY BoundsAssumption DEF Created, Block, TypeOK
  <2> QED BY <2>1, PortsOfBlock DEF InPorts
<1>2. /\ intype' \in [Port -> {"undef", "direct", "extern"}] /\ intype'[in] = "extern"
      /\ pre' \in [Port -> Port \union {NoPort}]
      /\ \A p \in Port \ {in} : intype'[p] = intype[p] /\ pre'[p] = pre[p]
  BY <1>1 DEF ConnectExternal, TypeOK
<1>3. TypeOK'
  BY <1>2 DEF TypeOK, ConnectExternal, setup
<1>4. JunctionsConsistent'
  <2>1. UNCHANGED <<kind, post>>
    BY DEF ConnectExternal
  <2>2. ListedConnected'
    <3>1. SUFFICES ASSUME NEW out \in Port, NEW j \in 1 .. Len(post[out])
                   PROVE  /\ intype'[post[out][j]] # "undef"
                          /\ intype'[post[out][j]] = "direct" => pre'[post[out][j]] = out
      BY <2>1, SMTT(30) DEF JunctionsConsistent, ListedConnected, InPorts, OutPorts, Created
    <3>2. /\ post[out][j] \in Port /\ intype[post[out][j]] # "undef"
          /\ intype[post[out][j]] = "direct" => pre[post[out][j]] = out
      BY DEF JunctionsConsistent, ListedConnected
    <3> QED BY <1>2, <3>2
  <2>3. ListedOnce'
    BY <2>1 DEF JunctionsConsistent, ListedOnce
  <2>4. DirectListed'
    <3>1. SUFFICES ASSUME NEW p \in Port, intype'[p] = "direct"
                   PROVE  /\ pre'[p] \in Port
                          /\ \E j \in 1 .. Len(post[pre'[p]]) : post[pre'[p]][j] = p
      BY <2>1 DEF DirectListed
    <3>2. intype[p] = "direct" /\ pre'[p] = pre[p]
      BY <1>2, <3>1
    <3> QED BY <3>2 DEF JunctionsConsistent, DirectListed
  <2> QED BY <2>2, <2>3, <2>4 DEF JunctionsConsistent
<1>5. Progress' /\ Completed' /\ ScheduledOnce'
  BY DEF Progress, Completed, ScheduledOnce, ConnectExternal, Created, setup
<1> QED BY <1>3, <1>4, <1>5

-----------------------------------------------------------------------------

\* JunctionsConsistent speaks of the schematic alone.
LEMMA SameSchematic ==
  ASSUME JunctionsConsistent, UNCHANGED schematic
  PROVE  JunctionsConsistent'
<1>1. UNCHANGED <<kind, intype, pre, post>>
  BY DEF schematic
<1>2. ListedConnected'
  BY <1>1 DEF JunctionsConsistent, ListedConnected, InPorts, OutPorts, Created
<1>3. ListedOnce' /\ DirectListed'
  BY <1>1 DEF JunctionsConsistent, ListedOnce, DirectListed
<1> QED BY <1>2, <1>3 DEF JunctionsConsistent

\* The input check starts the first pass, or deletes the schematic.
LEMMA CheckInputsStep ==
  ASSUME IInv, CheckInputs
  PROVE  IInv'
<1> USE DEF IInv
<1>1. CASE /\ pc' = IF Len(kind) = 0 THEN "crashed" ELSE "pass1"
           /\ UNCHANGED schematic
  <2>1. UNCHANGED <<kind, intype, pre, post>> /\ UNCHANGED <<setup, at>>
    BY <1>1 DEF schematic, CheckInputs
  <2>2. Len(kind) \in Nat /\ (pc' = "crashed" \/ (pc' = "pass1" /\ Len(kind) > 0))
    BY <1>1 DEF TypeOK
  <2>3. TypeOK'
    BY <2>1, <2>2 DEF TypeOK, setup, Ended
  <2>4. Progress' /\ Completed' /\ ScheduledOnce'
    BY <2>1, <2>2 DEF CheckInputs, Progress, Completed, ScheduledOnce, setup, Begin, Created
  <2> QED BY <1>1, <2>3, <2>4, SameSchematic
<1>2. CASE Unconnected # {} /\ pc' = "refused" /\ DeleteSchematic
  <2>1. executed' = {} /\ execlist' = <<>> /\ available' \subseteq Port
        /\ remaining' \in [Block -> Int]
        /\ at' \in [pos : Nat \ {0}, out : Nat \ {0}, jct : Nat \ {0}]
    BY DEF CheckInputs, setup, Progress, TypeOK
  <2> QED BY <1>2, <2>1, DeleteStep
<1> QED BY <1>1, <1>2 DEF CheckInputs

\* A round of the first pass: a block is added when all its inputs are
\* external, and then none remains.
LEMMA Pass1Step ==
  ASSUME IInv, Pass1
  PROVE  IInv'
<1> USE DEF IInv
<1> DEFINE b      == at.pos
           extern == {in \in InPorts(b) : intype[in] = "extern"}
<1>1. /\ b \in Created /\ b \in Block /\ kind[b] \in Kinds /\ kind[b].nin \in Nat
      /\ Len(kind) \in Nat /\ Len(kind) <= MaxBlocks
  BY BoundsAssumption, KindsAssumption, SMTT(30) DEF Pass1, Progress, Created, Block, TypeOK
<1>2. /\ InPorts(b) \subseteq Port /\ IsFiniteSet(InPorts(b))
      /\ Cardinality(InPorts(b)) = kind[b].nin
  BY <1>1, PortsOfBlock DEF InPorts
<1>3. extern \subseteq Port /\ Cardinality(extern) \in Nat
  <2>1. extern \in SUBSET InPorts(b)
    OBVIOUS
  <2>2. IsFiniteSet(extern)
    BY <1>2, <2>1, FS_Subset
  <2> QED BY <1>2, <2>1, <2>2, FS_CardinalityType
<1>4. /\ remaining' = [remaining EXCEPT ![b] = kind[b].nin - Cardinality(extern)]
      /\ available' = available \union extern
      /\ UNCHANGED <<kind, intype, pre, post>>
  BY DEF Pass1, schematic
<1>5. remaining' \in [Block -> Int] /\ available' \subseteq Port
  BY <1>1, <1>3, <1>4 DEF TypeOK
<1>6. \/ at.pos < Len(kind) /\ at' = [at EXCEPT !.pos = @ + 1] /\ pc' = "pass1"
      \/ at' = Begin /\ pc' = "pass2"
  BY DEF Pass1, Advance
<1>7. /\ at' \in [pos : Nat \ {0}, out : Nat \ {0}, jct : Nat \ {0}]
      /\ at'.pos \in 1 .. Len(kind)
      /\ pc' = "pass1" => at'.pos = b + 1
  <2>1. CASE at.pos < Len(kind) /\ at' = [at EXCEPT !.pos = @ + 1] /\ pc' = "pass1"
    <3>1. at' = [pos |-> at.pos + 1, out |-> at.out, jct |-> at.jct]
      BY <2>1 DEF TypeOK
    <3>2. at.pos + 1 \in 1 .. Len(kind) /\ at.pos + 1 \in Nat \ {0}
      BY <2>1, <1>1 DEF Created
    <3> QED BY <3>1, <3>2 DEF TypeOK
  <2>2. CASE at' = Begin /\ pc' = "pass2"
    <3>1. 1 \in 1 .. Len(kind)
      BY <1>1 DEF Created
    <3> QED BY <2>2, <3>1 DEF Begin
  <2> QED BY <1>6, <2>1, <2>2
<1>8. /\ ScheduledOnce' /\ execlist' \in Seq(Block)
      /\ executed' = executed \/ (extern = InPorts(b) /\ executed' = executed \union {b})
  <2>1. CASE extern = InPorts(b)
    <3>1. AddToExecutionList(b)
      BY <2>1 DEF Pass1
    <3> QED BY <3>1, <2>1, <1>1, Add
  <2>2. CASE extern # InPorts(b)
    <3>1. UNCHANGED <<executed, execlist>>
      BY <2>2 DEF Pass1
    <3> QED BY <3>1 DEF ScheduledOnce, TypeOK
  <2> QED BY <2>1, <2>2
<1>9. executed' \subseteq Created /\ executed' \subseteq Block /\ Created' = Created
  BY <1>1, <1>4, <1>8 DEF Progress, Created, TypeOK
<1>10. TypeOK'
  BY <1>4, <1>5, <1>6, <1>7, <1>8, <1>9 DEF TypeOK, Ended
<1>11. Progress'
  BY <1>4, <1>6, <1>7, <1>9 DEF Progress
<1>12. Completed'
  <2>1. \A c \in executed : c < b /\ remaining'[c] = remaining[c]
    BY <1>1, <1>4 DEF Pass1, Completed, TypeOK
  <2>2. extern = InPorts(b) => remaining'[b] = 0
    <3>1. remaining'[b] = kind[b].nin - Cardinality(extern)
      BY <1>1, <1>4 DEF TypeOK
    <3>2. extern = InPorts(b) => Cardinality(extern) = kind[b].nin
      BY <1>2
    <3> HIDE DEF b, extern
    <3> QED BY <3>1, <3>2, <1>1
  <2>3. \A c \in executed' : c \in executed \/ (c = b /\ extern = InPorts(b))
    BY <1>8
  <2>4. \A c \in executed' : c < b + 1
    <3>1. b \in Int /\ \A c \in executed' : c \in Int
      BY <1>1, <1>9 DEF Block
    <3> HIDE DEF b, extern
    <3> QED BY <2>1, <2>3, <3>1
  <2>5. \A c \in executed' : kind[c].dfeed => remaining'[c] <= 0
    BY <2>1, <2>2, <2>3 DEF Completed
  <2> QED BY <1>4, <1>7, <2>4, <2>5 DEF Completed
<1>13. JunctionsConsistent'
  BY SameSchematic DEF Pass1
<1> QED BY <1>8, <1>10, <1>11, <1>12, <1>13

\* A round of the second pass: only blocks without direct feedthrough are
\* added, and no counter changes.
LEMMA Pass2Step ==
  ASSUME IInv, Pass2
  PROVE  IInv'
<1> USE DEF IInv
<1> DEFINE b == at.pos
<1>1. /\ b \in Created /\ b \in Block /\ Len(kind) \in Nat /\ Len(kind) <= MaxBlocks
  BY BoundsAssumption DEF Pass2, Progress, Created, Block, TypeOK
<1>2. UNCHANGED <<kind, intype, pre, post, remaining, available>>
  BY DEF Pass2, schematic
<1>3. \/ at.pos < Len(kind) /\ at' = [at EXCEPT !.pos = @ + 1] /\ pc' = "pass2"
      \/ at' = Begin /\ pc' = "empty" /\ execlist' = <<>>
      \/ at' = Begin /\ pc' = "walk" /\ execlist' # <<>>
  BY DEF Pass2, Advance
<1>4. /\ ScheduledOnce' /\ execlist' \in Seq(Block)
      /\ executed' = executed \/ (PureDynamic(b) /\ executed' = executed \union {b})
  <2>1. CASE PureDynamic(b)
    <3>1. AddToExecutionList(b)
      BY <2>1 DEF Pass2
    <3> QED BY <3>1, <2>1, <1>1, Add
  <2>2. CASE ~PureDynamic(b)
    <3>1. UNCHANGED <<executed, execlist>>
      BY <2>2 DEF Pass2
    <3> QED BY <3>1 DEF ScheduledOnce, TypeOK
  <2> QED BY <2>1, <2>2
<1>5. executed' \subseteq Created /\ executed' \subseteq Block /\ Created' = Created
  BY <1>1, <1>2, <1>4 DEF Progress, Created, TypeOK
<1>6. /\ at' \in [pos : Nat \ {0}, out : Nat \ {0}, jct : Nat \ {0}]
      /\ pc' = "pass2" => at'.pos \in 1 .. Len(kind)
      /\ pc' = "walk" => at'.pos \in 1 .. Len(execlist')
  <2>1. CASE at.pos < Len(kind) /\ at' = [at EXCEPT !.pos = @ + 1] /\ pc' = "pass2"
    <3>1. at' = [pos |-> at.pos + 1, out |-> at.out, jct |-> at.jct]
      BY <2>1 DEF TypeOK
    <3>2. at.pos + 1 \in 1 .. Len(kind) /\ at.pos + 1 \in Nat \ {0}
      BY <2>1, <1>1 DEF Created
    <3> QED BY <3>1, <3>2, <2>1 DEF TypeOK
  <2>2. CASE at' = Begin /\ pc' = "empty"
    BY <2>2 DEF Begin
  <2>3. CASE at' = Begin /\ pc' = "walk" /\ execlist' # <<>>
    <3>1. Len(execlist') \in Nat /\ Len(execlist') # 0
      BY <1>4, <2>3
    <3>2. 1 \in 1 .. Len(execlist')
      BY <3>1
    <3> QED BY <2>3, <3>2 DEF Begin
  <2> QED BY <1>3, <2>1, <2>2, <2>3
<1>7. TypeOK'
  BY <1>2, <1>3, <1>4, <1>5, <1>6 DEF TypeOK, Ended
<1>8. Progress'
  BY <1>2, <1>3, <1>5, <1>6 DEF Progress
<1>9. Completed'
  BY <1>2, <1>3, <1>4 DEF Completed, PureDynamic
<1>10. JunctionsConsistent'
  BY SameSchematic DEF Pass2
<1> QED BY <1>4, <1>7, <1>8, <1>9, <1>10

\* One entry of a junction list: a counter that reaches zero adds its block,
\* which is not on the list with a direct feedthrough and inputs remaining.
LEMMA MarkInputStep ==
  ASSUME IInv, MarkInput
  PROVE  IInv' /\ pc' = "walk"
<1> USE DEF IInv
<1> DEFINE in == post[Here][at.jct]
           b  == in[1]
<1>1. execlist[at.pos] \in Created /\ execlist[at.pos] \in Block
  <2>1. execlist[at.pos] \in Block /\ execlist[at.pos] \in executed
    BY SMTT(30) DEF MarkInput, Progress, ScheduledOnce, TypeOK
  <2> QED BY <2>1 DEF Progress
<1>2. Here \in Port
  <2>1. kind[execlist[at.pos]].nout \in 0 .. MaxPorts
    BY <1>1, KindsAssumption, SMTT(30) DEF Created, TypeOK
  <2>2. at.out \in Nat \ {0} /\ at.out <= kind[execlist[at.pos]].nout
    BY DEF MarkInput, TypeOK
  <2>3. at.out \in 1 .. MaxPorts
    BY <2>1, <2>2, BoundsAssumption
  <2> QED BY <1>1, <2>3 DEF Here, Port
<1>3. /\ in \in Port /\ b \in Created /\ b \in Block
  <2>1. at.jct \in 1 .. Len(post[Here])
    <3>1. Len(post[Here]) \in Nat
      BY <1>2 DEF TypeOK
    <3> QED BY <3>1 DEF MarkInput, TypeOK
  <2>2. in \in Port /\ b \in Created
    BY <1>2, <2>1 DEF JunctionsConsistent, ListedConnected
  <2> QED BY <2>2, BoundsAssumption, SMTT(30) DEF Created, Block, TypeOK
<1>4. /\ UNCHANGED <<kind, intype, pre, post>>
      /\ available' = available \union {in}
      /\ remaining' = [remaining EXCEPT ![b] = @ - 1]
      /\ at' = [at EXCEPT !.jct = @ + 1]
  BY DEF MarkInput, schematic
<1> HIDE DEF in, b
<1>5. /\ available' \subseteq Port /\ remaining' \in [Block -> Int]
      /\ remaining[b] \in Int /\ remaining'[b] = remaining[b] - 1
      /\ \A c \in Block \ {b} : remaining'[c] = remaining[c]
  BY <1>3, <1>4 DEF TypeOK
<1>6. /\ at' \in [pos : Nat \ {0}, out : Nat \ {0}, jct : Nat \ {0}]
      /\ at'.pos = at.pos
  <2>1. at' = [pos |-> at.pos, out |-> at.out, jct |-> at.jct + 1]
    BY <1>4 DEF TypeOK
  <2> QED BY <2>1 DEF TypeOK
<1>7. b \in executed /\ kind[b].dfeed => remaining[b] <= 0
  BY DEF Completed
<1>8. /\ pc' = "walk" /\ ScheduledOnce' /\ execlist' \in Seq(Block)
      /\ Len(execlist') >= Len(execlist)
      /\ executed' = executed \/ (remaining[b] = 1 /\ executed' = executed \union {b})
  <2>1. CASE remaining[b] = 1
    <3>1. /\ AddToExecutionList(b)
          /\ pc' = IF b \in executed /\ kind[b].dfeed THEN "loop" ELSE "walk"
      BY <2>1 DEF MarkInput, in, b
    <3>2. ~(b \in executed /\ kind[b].dfeed)
      BY <1>7, <2>1
    <3> QED BY <3>1, <3>2, <2>1, <1>3, Add
  <2>2. CASE remaining[b] # 1
    <3>1. UNCHANGED <<executed, execlist, pc>>
      BY <2>2 DEF MarkInput, in, b
    <3> QED BY <3>1 DEF MarkInput, ScheduledOnce, TypeOK
  <2> QED BY <2>1, <2>2
<1>9. executed' \subseteq Created /\ executed' \subseteq Block /\ Created' = Created
  BY <1>3, <1>4, <1>8 DEF Progress, Created, TypeOK
<1>10. TypeOK'
  BY <1>4, <1>5, <1>6, <1>8, <1>9 DEF TypeOK
<1>11. Progress'
  <2>1. at.pos \in 1 .. Len(execlist')
    <3>1. Len(execlist) \in Nat /\ Len(execlist') \in Nat
      BY <1>8 DEF TypeOK
    <3> QED BY <1>8, <3>1 DEF MarkInput, Progress
  <2> QED BY <1>6, <1>8, <1>9, <2>1 DEF Progress
<1>12. Completed'
  <2>1. \A c \in executed' : kind[c].dfeed => remaining'[c] <= 0
    <3>1. SUFFICES ASSUME NEW c \in executed', kind[c].dfeed
                   PROVE  remaining'[c] <= 0
      OBVIOUS
    <3>2. CASE c = b
      <4>1. remaining[b] <= 1
        BY <1>7, <1>8, <3>1, <3>2, <1>5
      <4> QED BY <3>2, <4>1, <1>5
    <3>3. CASE c # b
      <4>1. c \in executed /\ c \in Block
        BY <1>8, <1>9, <3>3
      <4> QED BY <3>1, <3>3, <4>1, <1>5 DEF Completed
    <3> QED BY <3>2, <3>3
  <2> QED BY <1>4, <1>8, <2>1 DEF Completed
<1>13. JunctionsConsistent'
  BY SameSchematic DEF MarkInput
<1> QED BY <1>8, <1>10, <1>11, <1>12, <1>13

\* The walk goes on to the next output port or block, or ends.
LEMMA MoveStep ==
  ASSUME IInv, NextOutput \/ NextBlock
  PROVE  IInv'
<1> USE DEF IInv
<1>1. UNCHANGED schematic /\ UNCHANGED <<remaining, available, executed, execlist>>
      /\ UNCHANGED <<kind, intype, pre, post>> /\ pc = "walk"
  BY DEF NextOutput, NextBlock, schematic, setup
<1>2. /\ at' \in [pos : Nat \ {0}, out : Nat \ {0}, jct : Nat \ {0}]
      /\ pc' \in {"walk", "done"}
      /\ pc' = "walk" => at'.pos \in 1 .. Len(execlist)
  <2>1. CASE NextOutput
    <3>1. at' = [pos |-> at.pos, out |-> at.out + 1, jct |-> 1] /\ pc' = pc
      BY <2>1 DEF NextOutput, TypeOK
    <3> QED BY <3>1, <1>1 DEF TypeOK, Progress
  <2>2. CASE NextBlock /\ at.pos < Len(execlist)
    <3>1. at' = [pos |-> at.pos + 1, out |-> 1, jct |-> 1] /\ pc' = pc
      BY <2>2 DEF NextBlock
    <3>2. at.pos \in Nat /\ at.pos >= 1 /\ Len(execlist) \in Nat
      BY DEF TypeOK
    <3>3. at.pos + 1 \in 1 .. Len(execlist) /\ at.pos + 1 \in Nat \ {0}
      BY <2>2, <3>2
    <3> QED BY <3>1, <3>3, <1>1
  <2>3. CASE NextBlock /\ ~(at.pos < Len(execlist))
    BY <2>3 DEF NextBlock, TypeOK
  <2> QED BY <2>1, <2>2, <2>3
<1>3. TypeOK'
  BY <1>1, <1>2 DEF TypeOK, Ended
<1>4. Progress' /\ Completed' /\ ScheduledOnce'
  BY <1>1, <1>2 DEF Progress, Completed, ScheduledOnce, Created
<1> QED BY <1>1, <1>3, <1>4, SameSchematic

-----------------------------------------------------------------------------

\* The invariant holds of the empty schematic.
LEMMA InitInvariant == Init => IInv
<1> SUFFICES ASSUME Init PROVE IInv
  OBVIOUS
<1>1. kind = <<>> /\ Len(kind) = 0 /\ kind \in Seq(Kinds)
  BY DEF Init, SchematicInit
<1>2. /\ intype \in [Port -> {"undef", "direct", "extern"}]
      /\ pre \in [Port -> Port \union {NoPort}]
      /\ \A p \in Port : intype[p] = "undef"
  BY DEF Init, SchematicInit, NoType, NoSource
<1>3. post \in [Port -> Seq(Port)] /\ \A p \in Port : post[p] = <<>> /\ 1 .. Len(post[p]) = {}
  BY DEF Init, SchematicInit, NoJunction
<1>4. TypeOK
  BY <1>1, <1>2, <1>3, BoundsAssumption DEF TypeOK, Init, SchematicInit, Begin
<1>5. JunctionsConsistent
  BY <1>2, <1>3 DEF JunctionsConsistent, ListedConnected, ListedOnce, DirectListed
<1>6. Progress /\ Completed /\ ScheduledOnce
  BY DEF Init, SchematicInit, Progress, Completed, ScheduledOnce
<1> QED BY <1>4, <1>5, <1>6 DEF IInv

\* Every step keeps the invariant.
LEMMA StepInvariant == IInv /\ [Next]_vars => IInv'
<1> SUFFICES ASSUME IInv, [Next]_vars PROVE IInv'
  OBVIOUS
<1>1. CASE Build /\ UNCHANGED <<setup, at>>
  <2>1. CASE \E k \in Kinds : NewBlock(k)
    BY <1>1, <2>1, NewBlockStep
  <2>2. CASE \E a, b \in Created :
               \E out \in OutPorts(a), in \in InPorts(b) : Connect(out, in)
    BY <1>1, <2>2, ConnectStep
  <2>3. CASE \E b \in Created : \E in \in InPorts(b) : ConnectExternal(in)
    BY <1>1, <2>3, ConnectExternalStep
  <2>4. CASE RefuseEntry
    <3>1. executed' = {} /\ execlist' = <<>> /\ available' \subseteq Port
          /\ remaining' \in [Block -> Int]
          /\ at' \in [pos : Nat \ {0}, out : Nat \ {0}, jct : Nat \ {0}]
      BY <1>1, <2>4 DEF RefuseEntry, setup, IInv, Progress, TypeOK
    <3> QED BY <2>4, <3>1, DeleteStep DEF RefuseEntry
  <2> QED BY <1>1, <2>1, <2>2, <2>3, <2>4 DEF Build
<1>2. CASE CheckInputs
  BY <1>2, CheckInputsStep
<1>3. CASE Pass1
  BY <1>3, Pass1Step
<1>4. CASE Pass2
  BY <1>4, Pass2Step
<1>5. CASE MarkInput
  BY <1>5, MarkInputStep
<1>6. CASE NextOutput \/ NextBlock
  BY <1>6, MoveStep
<1>7. CASE Undo
  <2>1. executed' = {} /\ execlist' = <<>> /\ available' \subseteq Port
        /\ remaining' \in [Block -> Int]
        /\ at' \in [pos : Nat \ {0}, out : Nat \ {0}, jct : Nat \ {0}]
    BY <1>7 DEF Undo, Begin
  <2> QED BY <1>7, <2>1, DeleteStep DEF Undo
<1>8. CASE UNCHANGED vars
  <2>1. UNCHANGED <<pc, kind, intype, pre, post, remaining, available, executed, execlist, at>>
    BY <1>8 DEF vars, schematic, setup
  <2>2. JunctionsConsistent'
    BY <2>1, SameSchematic DEF IInv, schematic
  <2> QED BY <2>1, <2>2 DEF IInv, TypeOK, Progress, Completed, ScheduledOnce, Created
<1> QED BY <1>1, <1>2, <1>3, <1>4, <1>5, <1>6, <1>7, <1>8 DEF Next, Compile, SetupStep, Stopped

\* No step reports an algebraic loop.
LEMMA NoLoopStep == IInv /\ LoopNeverReported /\ [Next]_vars => LoopNeverReported'
<1> SUFFICES ASSUME IInv, LoopNeverReported, [Next]_vars PROVE pc' # "loop"
  BY DEF LoopNeverReported
<1>1. CASE Build
  BY <1>1 DEF Build, NewBlock, Connect, ConnectExternal, RefuseEntry
<1>2. CASE CheckInputs
  BY <1>2 DEF CheckInputs
<1>3. CASE Pass1 \/ Pass2
  BY <1>3 DEF Pass1, Pass2, Advance
<1>4. CASE MarkInput
  BY <1>4, MarkInputStep
<1>5. CASE NextOutput \/ NextBlock
  BY <1>5 DEF NextOutput, NextBlock
<1>6. CASE Undo
  BY <1>6 DEF Undo
<1>7. CASE UNCHANGED vars
  BY <1>7 DEF vars, LoopNeverReported
<1> QED BY <1>1, <1>2, <1>3, <1>4, <1>5, <1>6, <1>7 DEF Next, Compile, SetupStep, Stopped

-----------------------------------------------------------------------------

\* The inductive invariant holds in every reachable state of the set-up.
THEOREM Invariance == Spec => []IInv
BY InitInvariant, StepInvariant, PTL DEF Spec

\* Type correctness of schematic, counters, lists and cursor.
THEOREM TypeCorrect == Spec => []TypeOK
<1>1. IInv => TypeOK
  BY DEF IInv
<1> QED BY <1>1, Invariance, PTL

\* The junction lists threaded through the input ports never run into each
\* other (libdyn_block_connect), whatever the schematic.
THEOREM ListsApart == Spec => []JunctionsConsistent
<1>1. IInv => JunctionsConsistent
  BY DEF IInv
<1> QED BY <1>1, Invariance, PTL

\* A block is on the execution list at most once, in every schematic: one step
\* of the simulation calls its CALCOUTPUTS at most once.
THEOREM Scheduling == Spec => []ScheduledOnce
<1>1. IInv => ScheduledOnce
  BY DEF IInv
<1> QED BY <1>1, Invariance, PTL

\* The branch of libdyn_setup_executionlist that reports an algebraic loop is
\* dead code: no schematic reaches it.
THEOREM LoopBranchDead == Spec => []LoopNeverReported
<1>1. Init => LoopNeverReported
  BY DEF Init, SchematicInit, LoopNeverReported
<1> QED BY <1>1, Invariance, NoLoopStep, PTL DEF Spec

-----------------------------------------------------------------------------

\* The list is no longer than there are blocks.
LEMMA ListLength ==
  ASSUME TypeOK, ScheduledOnce
  PROVE  Len(execlist) \in Nat /\ Len(execlist) <= MaxBlocks
<1>1. execlist \in Seq(Block) /\ Len(execlist) \in Nat
  BY DEF TypeOK
<1>2. SUFFICES ASSUME Len(execlist) > MaxBlocks PROVE FALSE
  BY <1>1, BoundsAssumption
<1>3. IsFiniteSet(1 .. Len(execlist)) /\ Cardinality(1 .. Len(execlist)) = Len(execlist)
  BY <1>1, <1>2, FS_Interval, BoundsAssumption, SMTT(30)
<1>4. IsFiniteSet(Block) /\ Cardinality(Block) = MaxBlocks
  BY FS_Interval, BoundsAssumption DEF Block
<1>5. execlist \in [1 .. Len(execlist) -> Block]
  BY <1>1
<1>6. \E i, j \in 1 .. Len(execlist) : i # j /\ execlist[i] = execlist[j]
  BY <1>2, <1>3, <1>4, <1>5, FS_PigeonHole
<1> QED BY <1>6 DEF ScheduledOnce

\* The walk is at an output port of the block, or just behind the last one, and
\* at an entry of its junction list, or just behind the last one.
WalkBounds ==
  pc = "walk" =>
    /\ at.out <= kind[execlist[at.pos]].nout + 1
    /\ at.out <= kind[execlist[at.pos]].nout => at.jct <= Len(post[Here]) + 1

\* What is left to do, the most significant part first: the passes and the walk,
\* then blocks, output ports of the block, and entries of the junction list.
Stage ==
  CASE pc = "pass1" -> 4
    [] pc = "pass2" -> 3
    [] pc = "walk" -> 2
    [] pc \in {"empty", "loop"} -> 1
    [] OTHER -> 0

ToGo ==
  << Stage,
     IF pc \in {"pass1", "pass2"} THEN Len(kind) - at.pos
     ELSE IF pc = "walk" THEN MaxBlocks - at.pos ELSE 0,
     IF pc = "walk" THEN kind[execlist[at.pos]].nout + 1 - at.out ELSE 0,
     IF pc = "walk" /\ at.out <= kind[execlist[at.pos]].nout
       THEN Len(post[Here]) + 1 - at.jct ELSE 0 >>

\* The lexicographic order of such tuples of natural numbers.
Less(r, s) ==
  \E i \in 1 .. 4 : r[i] < s[i] /\ \A j \in 1 .. i - 1 : r[j] = s[j]

\* In the walk the cursor is at a block with ports and junction lists.
LEMMA WalkAt ==
  ASSUME IInv, pc = "walk"
  PROVE  /\ at.pos \in Nat \ {0} /\ at.out \in Nat \ {0} /\ at.jct \in Nat \ {0}
         /\ at.pos <= Len(execlist) /\ Len(execlist) \in Nat
         /\ kind[execlist[at.pos]].nout \in Nat
         /\ at.out <= kind[execlist[at.pos]].nout => Here \in Port /\ Len(post[Here]) \in Nat
<1>1. at.pos \in Nat \ {0} /\ at.out \in Nat \ {0} /\ at.jct \in Nat \ {0}
  BY DEF IInv, TypeOK
<1>2. at.pos \in 1 .. Len(execlist) /\ Len(execlist) \in Nat
  BY DEF IInv, TypeOK, Progress
<1>3. execlist[at.pos] \in Block /\ execlist[at.pos] \in Created
  <2>1. execlist[at.pos] \in Block /\ execlist[at.pos] \in executed
    BY <1>2 DEF IInv, ScheduledOnce, TypeOK
  <2> QED BY <2>1 DEF IInv, Progress
<1>4. kind[execlist[at.pos]] \in Kinds
  BY <1>3 DEF Created, IInv, TypeOK
<1>5. kind[execlist[at.pos]].nout \in 0 .. MaxPorts
  BY <1>4, KindsAssumption
<1>6. ASSUME at.out <= kind[execlist[at.pos]].nout
      PROVE  Here \in Port /\ Len(post[Here]) \in Nat
  <2>1. at.out \in 1 .. MaxPorts
    BY <1>1, <1>5, <1>6, BoundsAssumption
  <2>2. Here \in Port
    BY <1>3, <2>1 DEF Here, Port
  <2> QED BY <2>2 DEF IInv, TypeOK
<1> QED BY <1>1, <1>2, <1>5, <1>6, BoundsAssumption

\* The same of the ports alone, as a formula.
LEMMA WalkPorts ==
  IInv => (pc = "walk" =>
             /\ kind[execlist[at.pos]].nout \in Nat
             /\ at.out <= kind[execlist[at.pos]].nout => Len(post[Here]) \in Nat)
BY WalkAt

\* What is left to do is a tuple of natural numbers.
LEMMA ToGoNat ==
  ASSUME IInv, WalkBounds
  PROVE  \A i \in 1 .. 4 : ToGo[i] \in Nat
<1>1. Stage \in Nat
  BY DEF Stage
<1>2. CASE pc \in {"pass1", "pass2"}
  <2>1. Len(kind) - at.pos \in Nat
    BY <1>2 DEF IInv, TypeOK, Progress
  <2> QED BY <1>1, <1>2, <2>1 DEF ToGo
<1>3. CASE pc = "walk"
  <2>1. Len(execlist) <= MaxBlocks
    BY ListLength DEF IInv
  <2>2. MaxBlocks - at.pos \in Nat
    BY <1>3, <2>1, WalkAt, BoundsAssumption
  <2>3. kind[execlist[at.pos]].nout + 1 - at.out \in Nat
    BY <1>3, WalkAt DEF WalkBounds
  <2>4. at.out <= kind[execlist[at.pos]].nout => Len(post[Here]) + 1 - at.jct \in Nat
    BY <1>3, WalkAt DEF WalkBounds
  <2> QED BY <1>1, <1>3, <2>2, <2>3, <2>4 DEF ToGo
<1>4. CASE pc \notin {"pass1", "pass2", "walk"}
  BY <1>1, <1>4 DEF ToGo
<1> QED BY <1>2, <1>3, <1>4

\* Marking an input moves the cursor by one entry and by nothing else, though
\* the list it walks along may grow.
LEMMA MarkInputMoves ==
  ASSUME IInv, MarkInput
  PROVE  /\ pc = "walk" /\ pc' = "walk" /\ Here' = Here
         /\ at' = [pos |-> at.pos, out |-> at.out, jct |-> at.jct + 1]
         /\ at.out <= kind[execlist[at.pos]].nout /\ at.jct <= Len(post[Here])
         /\ execlist'[at.pos] = execlist[at.pos]
         /\ UNCHANGED <<kind, post>>
<1>1. /\ pc = "walk" /\ at.out <= kind[execlist[at.pos]].nout /\ at.jct <= Len(post[Here])
      /\ UNCHANGED <<kind, post>>
  BY DEF MarkInput, schematic
<1>2. pc' = "walk"
  BY MarkInputStep
<1>3. at' = [pos |-> at.pos, out |-> at.out, jct |-> at.jct + 1]
  BY DEF MarkInput, IInv, TypeOK
<1>4. execlist'[at.pos] = execlist[at.pos]
  <2>1. execlist \in Seq(Block) /\ at.pos \in 1 .. Len(execlist)
    BY <1>1 DEF IInv, TypeOK, Progress
  <2>2. execlist' = execlist \/ execlist' = Append(execlist, post[Here][at.jct][1])
    BY DEF MarkInput, AddToExecutionList
  <2>3. post[Here][at.jct][1] \in Block
    <3>1. Here \in Port /\ at.jct \in 1 .. Len(post[Here])
      BY <1>1, WalkAt
    <3>2. post[Here][at.jct] \in Port
      BY <3>1 DEF IInv, TypeOK
    <3> QED BY <3>2 DEF Port
  <2> QED BY <2>1, <2>2, <2>3
<1> QED BY <1>1, <1>2, <1>3, <1>4 DEF Here

\* The cursor stays inside.
LEMMA WalkBoundsStep == IInv /\ IInv' /\ WalkBounds /\ [Next]_vars => WalkBounds'
<1> SUFFICES ASSUME IInv, IInv', WalkBounds, [Next]_vars, pc' = "walk"
             PROVE  /\ at'.out <= kind'[execlist'[at'.pos]].nout + 1
                    /\ at'.out <= kind'[execlist'[at'.pos]].nout =>
                         at'.jct <= Len(post'[Here']) + 1
  BY DEF WalkBounds
<1>0. /\ kind'[execlist'[at'.pos]].nout \in Nat
      /\ at'.out <= kind'[execlist'[at'.pos]].nout => Len(post'[Here']) \in Nat
  <2>1. IInv' => (pc = "walk" =>
                    /\ kind[execlist[at.pos]].nout \in Nat
                    /\ at.out <= kind[execlist[at.pos]].nout => Len(post[Here]) \in Nat)'
    BY WalkPorts, PTL
  <2> QED BY <2>1
<1>1. CASE Pass2
  <2>1. at' = Begin
    BY <1>1 DEF Pass2, Advance
  <2>2. at'.out = 1 /\ at'.jct = 1
    BY <2>1 DEF Begin
  <2> QED BY <1>0, <2>2
<1>2. CASE MarkInput
  <2>1. /\ pc = "walk" /\ Here' = Here /\ UNCHANGED <<kind, post>>
        /\ at'.pos = at.pos /\ at'.out = at.out /\ at'.jct = at.jct + 1
        /\ at.out <= kind[execlist[at.pos]].nout /\ at.jct <= Len(post[Here])
        /\ execlist'[at.pos] = execlist[at.pos]
    BY <1>2, MarkInputMoves
  <2> QED BY <2>1, WalkAt, SMTT(30)
<1>3. CASE NextOutput
  <2>1. /\ pc = "walk" /\ at.out <= kind[execlist[at.pos]].nout
        /\ UNCHANGED <<kind, post, execlist>>
        /\ at' = [pos |-> at.pos, out |-> at.out + 1, jct |-> 1]
    BY <1>3 DEF NextOutput, schematic, setup, IInv, TypeOK
  <2> QED BY <1>0, <2>1, WalkAt, SMTT(30)
<1>4. CASE NextBlock
  <2>1. at'.out = 1 /\ at'.jct = 1
    BY <1>4 DEF NextBlock
  <2> QED BY <1>0, <2>1
<1>5. CASE UNCHANGED vars
  BY <1>5 DEF vars, schematic, setup, WalkBounds, Here
<1>6. CASE Build \/ CheckInputs \/ Pass1 \/ Undo
  BY <1>6 DEF Build, NewBlock, Connect, ConnectExternal, RefuseEntry, CheckInputs, Pass1,
              Advance, Undo
<1> QED BY <1>1, <1>2, <1>3, <1>4, <1>5, <1>6 DEF Next, Compile, SetupStep, Stopped

\* A step of the set-up leaves less to do.
LEMMA SetupForward ==
  ASSUME IInv, IInv', WalkBounds, WalkBounds', SetupStep
  PROVE  Less(ToGo', ToGo)
<1> SUFFICES ASSUME TRUE
    PROVE \/ ToGo'[1] < ToGo[1]
          \/ ToGo'[1] = ToGo[1] /\ ToGo'[2] < ToGo[2]
          \/ ToGo'[1] = ToGo[1] /\ ToGo'[2] = ToGo[2] /\ ToGo'[3] < ToGo[3]
          \/ /\ ToGo'[1] = ToGo[1] /\ ToGo'[2] = ToGo[2] /\ ToGo'[3] = ToGo[3]
             /\ ToGo'[4] < ToGo[4]
  BY DEF Less
<1>1. CASE Pass1
  <2>1. \/ pc' = "pass1" /\ at'.pos = at.pos + 1 /\ kind' = kind
        \/ pc' = "pass2"
    BY <1>1 DEF Pass1, Advance, schematic, IInv, TypeOK
  <2>2. pc = "pass1" /\ at.pos \in Nat /\ Len(kind) \in Nat
    BY <1>1 DEF Pass1, IInv, TypeOK
  <2> QED BY <2>1, <2>2 DEF ToGo, Stage
<1>2. CASE Pass2
  <2>1. \/ pc' = "pass2" /\ at'.pos = at.pos + 1 /\ kind' = kind
        \/ pc' \in {"empty", "walk"}
    BY <1>2 DEF Pass2, Advance, schematic, IInv, TypeOK
  <2>2. pc = "pass2" /\ at.pos \in Nat /\ Len(kind) \in Nat
    BY <1>2 DEF Pass2, IInv, TypeOK
  <2> QED BY <2>1, <2>2 DEF ToGo, Stage
<1>3. CASE MarkInput
  <2>1. /\ pc = "walk" /\ pc' = "walk" /\ Here' = Here /\ UNCHANGED <<kind, post>>
        /\ at'.pos = at.pos /\ at'.out = at.out /\ at'.jct = at.jct + 1
        /\ at.out <= kind[execlist[at.pos]].nout
        /\ execlist'[at.pos] = execlist[at.pos]
    BY <1>3, MarkInputMoves
  <2>2. at.jct \in Nat /\ Len(post[Here]) \in Nat
    BY <2>1, WalkAt
  <2> QED BY <2>1, <2>2 DEF ToGo, Stage
<1>4. CASE NextOutput
  <2>1. /\ pc = "walk" /\ pc' = "walk" /\ UNCHANGED <<kind, post, execlist>>
        /\ at'.pos = at.pos /\ at'.out = at.out + 1
    BY <1>4 DEF NextOutput, schematic, setup, IInv, TypeOK
  <2>2. at.out \in Nat /\ kind[execlist[at.pos]].nout \in Nat
    BY <2>1, WalkAt
  <2> QED BY <2>1, <2>2 DEF ToGo, Stage
<1>5. CASE NextBlock
  <2>1. pc = "walk" /\ (pc' = "done" \/ (pc' = "walk" /\ at'.pos = at.pos + 1))
    BY <1>5 DEF NextBlock
  <2>2. at.pos \in Nat
    BY <2>1, WalkAt
  <2> QED BY <2>1, <2>2, BoundsAssumption DEF ToGo, Stage
<1>6. CASE Undo
  BY <1>6 DEF Undo, ToGo, Stage
<1> QED BY <1>1, <1>2, <1>3, <1>4, <1>5, <1>6 DEF SetupStep

\* The set-up makes progress with every step: whatever the schematic, loops of
\* blocks included, a tuple of natural numbers gets lexicographically smaller.
\* It cannot go on for ever, which is the safety part of SetupEnds.
THEOREM SetupMakesProgress ==
  Spec => /\ [](\A i \in 1 .. 4 : ToGo[i] \in Nat)
          /\ [][SetupStep => Less(ToGo', ToGo)]_vars
<1>1. Init => WalkBounds
  BY DEF Init, SchematicInit, WalkBounds
<1>2. IInv /\ WalkBounds => \A i \in 1 .. 4 : ToGo[i] \in Nat
  BY ToGoNat
<1>3. IInv /\ IInv' /\ WalkBounds /\ WalkBounds' /\ [Next]_vars
        => [SetupStep => Less(ToGo', ToGo)]_vars
  BY SetupForward
<1> QED BY <1>1, <1>2, <1>3, WalkBoundsStep, Invariance, PTL DEF Spec
=============================================================================

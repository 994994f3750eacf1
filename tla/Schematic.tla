------------------------------ MODULE Schematic ------------------------------
(***************************************************************************)
(* How a block schematic is put together in libdyn.c: blocks are created   *)
(* one after the other and enter the list of all blocks, their input ports *)
(* are connected to output ports of other blocks or to external data.      *)
(*                                                                         *)
(* Every output port owns a junction list: the input ports it feeds, the   *)
(* most recently connected one first.  In the code the list is threaded    *)
(* through the input ports (next_juncture_block), so an input port has     *)
(* room for one list only; here a list is a sequence of input ports, and   *)
(* JunctionsConsistent states what makes the threading sound.              *)
(*                                                                         *)
(* Blocks are numbered in the order of their creation (numID), which is    *)
(* the order of the list of all blocks; ports are numbered from 1.         *)
(***************************************************************************)
EXTENDS Integers, Sequences, FiniteSets

CONSTANTS
  Kinds,      (* the block kinds a CONFIGURE call may set up: ports, state,  *)
              (* direct feedthrough, and the events the block subscribes to  *)
  MaxBlocks,  (* bound on the number of blocks                               *)
  MaxPorts,   (* bound on the number of input and of output ports of a block *)
  MaxEntries  (* bound on the entries of the connection list                 *)

ASSUME BoundsAssumption ==
  MaxBlocks \in Nat \ {0} /\ MaxPorts \in Nat \ {0} /\ MaxEntries \in Nat

\* A block has a direct feedthrough iff one of its outputs was configured so.
ASSUME KindsAssumption ==
  \A k \in Kinds : /\ k \in [nin : 0 .. MaxPorts, nout : 0 .. MaxPorts,
                             dynamic : BOOLEAN, dfeed : BOOLEAN,
                             events : SUBSET (0 .. 31)]
                   /\ k.dfeed => k.nout > 0

VARIABLES
  pc,      (* progress of libdyn_irpar_setup                             *)
  kind,    (* the list of all blocks: kind[b] is what block b configured *)
  intype,  (* per input port: INTYPE_UNDEF, INTYPE_DIRECT, INTYPE_EXTERN *)
  pre,     (* per input port of type direct: the output port feeding it  *)
  post     (* per output port: its junction list                         *)

schematic == <<kind, intype, pre, post>>

Block   == 1 .. MaxBlocks
Port    == Block \X (1 .. MaxPorts)
NoPort  == <<0, 0>>
Created == 1 .. Len(kind)

InPorts(b)  == {b} \X (1 .. kind[b].nin)
OutPorts(b) == {b} \X (1 .. kind[b].nout)

\* Mutant: any block with a state counts as purely dynamic.
Dynamic(b) == kind[b].dynamic

\* A purely dynamic block: its outputs depend on its state alone.
PureDynamic(b) == kind[b].dynamic /\ ~kind[b].dfeed

\* An input port is overridden when it is connected to external data but is
\* still on the junction list of an output port.
Overridden ==
  {in \in Port : /\ intype[in] = "extern"
                 /\ \E out \in Port : \E j \in 1 .. Len(post[out]) : post[out][j] = in}

\* The entries of the connection list processed so far.
Entries == Cardinality({in \in Port : intype[in] # "undef"}) + Cardinality(Overridden)

NoType     == [p \in Port |-> "undef"]
NoSource   == [p \in Port |-> NoPort]
NoJunction == [p \in Port |-> <<>>]

SchematicInit ==
  pc = "build" /\ kind = <<>> /\ intype = NoType /\ pre = NoSource /\ post = NoJunction

\* libdyn_irpar_setup fails: whatever was built is destroyed.
DeleteSchematic ==
  kind' = <<>> /\ intype' = NoType /\ pre' = NoSource /\ post' = NoJunction

\* A block whose CONFIGURE call succeeded enters the list of all blocks.
NewBlock(k) ==
  /\ pc = "build"
  /\ Len(kind) < MaxBlocks
  /\ kind' = Append(kind, k)
  /\ UNCHANGED <<pc, intype, pre, post>>

\* Mutant: does not ask whether the input is connected already.
ConnectAgain(out, in) ==
  /\ pc = "build"
  /\ Entries < MaxEntries
  /\ intype' = [intype EXCEPT ![in] = "direct"]
  /\ pre' = [pre EXCEPT ![in] = out]
  /\ post' = [post EXCEPT ![out] = <<in>> \o @]
  /\ UNCHANGED <<pc, kind>>

\* libdyn_block_connect, on its way to "return 1".
Connect(out, in) ==
  /\ pc = "build"
  /\ Entries < MaxEntries
  /\ intype[in] = "undef"
  /\ intype' = [intype EXCEPT ![in] = "direct"]
  /\ pre' = [pre EXCEPT ![in] = out]
  /\ post' = [post EXCEPT ![out] = <<in>> \o @]
  /\ UNCHANGED <<pc, kind>>

\* libdyn_block_connect_external: unlike libdyn_block_connect it does not ask
\* whether the port is connected, and it leaves the junction list alone.
ConnectExternal(in) ==
  /\ pc = "build"
  /\ Entries < MaxEntries
  /\ intype' = [intype EXCEPT ![in] = "extern"]
  /\ pre' = [pre EXCEPT ![in] = NoPort]
  /\ UNCHANGED <<pc, kind, post>>

\* An entry of the connection list that is refused ends the set-up: a block
\* that cannot be created, a port that does not exist or does not match, an
\* input that is already connected.  The simulation is deleted.
RefuseEntry ==
  /\ pc = "build"
  /\ pc' = "refused"
  /\ DeleteSchematic

Build ==
  \/ \E k \in Kinds : NewBlock(k)
  \/ \E a, b \in Created :
       \E out \in OutPorts(a), in \in InPorts(b) : Connect(out, in)
  \/ \E b \in Created : \E in \in InPorts(b) : ConnectExternal(in)
  \/ RefuseEntry

-----------------------------------------------------------------------------

\* Only connected input ports of created blocks are on a junction list; a
\* directly connected one only on the list of its source.
ListedConnected ==
  \A out \in Port : \A j \in 1 .. Len(post[out]) :
    /\ out[1] \in Created /\ out \in OutPorts(out[1])
    /\ post[out][j] \in Port
    /\ post[out][j][1] \in Created /\ post[out][j] \in InPorts(post[out][j][1])
    /\ intype[post[out][j]] # "undef"
    /\ intype[post[out][j]] = "direct" => pre[post[out][j]] = out

\* No input port is on two lists, or twice on one.
ListedOnce ==
  \A out1, out2 \in Port : \A i \in 1 .. Len(post[out1]), j \in 1 .. Len(post[out2]) :
    post[out1][i] = post[out2][j] => out1 = out2 /\ i = j

\* Every directly connected input port is on the list of its source.
DirectListed ==
  \A in \in Port : intype[in] = "direct" =>
    /\ pre[in] \in Port
    /\ \E j \in 1 .. Len(post[pre[in]]) : post[pre[in]][j] = in

\* Every direct connection is on exactly the junction list of its source, no
\* input port is on two lists or twice on one (its next_juncture fields can
\* hold one list only), and all listed ports belong to created blocks.
\* libdyn_block_connect keeps this by refusing inputs already connected.
JunctionsConsistent == ListedConnected /\ ListedOnce /\ DirectListed

=============================================================================

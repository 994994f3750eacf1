# A TLA+ development of ORTD

ORTD (OpenRTDynamics) executes block schematics in real time. This directory
holds TLA+ modules translated from its C and C++ sources, TLC configurations
that check them on small instances, and TLAPS proofs for all instances. Paths
are relative to the repository; the exact lines behind every definition are in
`PROJECT.json` (`map`).

## 1. The system

A schematic is built in Scilab and arrives as a flat parameter vector. The core
`libdyn` (`src/libdyn.c`) builds the blocks, connects them, computes an order of
execution, and runs steps. Everything else is a block or a thread around it:
nested schematics are blocks that own a `libdyn_nested2` (`src/libdyn_cpp.cpp`),
some of which run in threads of their own; `src/log.c` carries data of a
real-time thread to files; other modules exchange data between simulations.

| Component | State | Operations | What is hard | Correct when |
|---|---|---|---|---|
| Schematic and execution order, `libdyn.c` | list of all blocks, ports, junction lists threaded through input ports, counters of remaining inputs, execution list | new block, connect, connect external, check inputs, set up the list | the walk extends the list it follows; one counter is decremented on three paths; errors undo the whole | each block once, after its sources; the set-up ends; only blocks behind loops are left out |
| Simulation step and events, `libdyn.c` | outputs, states, `needs_output_update`, active events | compute outputs, update states, reset, trigger | outputs that are not recomputed, order of state updates, resets between the two halves | the steps are synchronous data flow |
| Initialisation and destruction, `libdyn.c`, providers in `RingBuffer.cpp` and `persistent_memory.cpp` | flags per block and per simulation | PREINIT, INIT, POSTINIT passes, undo, destructor pass | one block of several fails | each block is destroyed once iff it was initialised; what blocks provide for others outlives them |
| Log sink, `log.c` | ring buffer, one control signal, sink thread | write, flush, reset, delete; read loop | data without a lock, two mutexes, wakeups, signals that overtake data | no element torn, lost, repeated, or left behind; calls return |
| Asynchronous nested simulation, `nested_block.cpp` | trigger signal, finished flag, results, thread | calculate, trigger, reset, destroy; compute | results without a lock, signals that overwrite each other | results are whole and of the latest trigger; no trigger lost |
| Background computation, `nested_block.cpp`, `libdyn_cpp.cpp` | flags of a worker, signal | start, test for completion, stop | a flag of the computation before is still set | a computation is reported once and when it has ended |
| Slots of nested simulations, `libdyn_cpp.cpp`, `nested_onlineexchange.cpp` | slots, current simulation, current slot, a flag per slot, mutex, parameter sets | add, delete, switch, reset, run, exchange | a slot is replaced by another thread while the real-time thread runs; what is current is read without the mutex | the current simulation exists and is in a slot; parameter sets live as long as the simulation made from them; outputs before states |
| State machine, case switch, for loop, no-reset nest | active slot, global states | step, transition, reset | nested control flow with resets | a state is entered reset |
| Thread notification, clock and trigger synchronisation, `sync_main.cpp` | signal, exit flag, clock | notify, wait, loop | signals overwritten, an exit flag without a mutex | every loop ends; no notification needed for progress is lost |
| Ring buffers between simulations, `RingBuffer.cpp` | buffer, counters | write, read, re-read | overflow overwrites unread data, the count goes below zero on the way | counters match the contents; what is read is in order and without a gap |
| Remote control, `rt_server` | connections, parameters, streams | set and get parameters, subscribe | threads, sockets | parameters change between steps only |
| Persistent memory, global exchange | named memories | look up, read, write | shared by name | readers see whole vectors |
| Block libraries, executables, parameter containers, plugins, devices, Scilab toolbox | – | numerics, I/O, parsing | – | outside the model |

How they interact. `libdyn_irpar_setup` builds a simulation and calls the
set-up of the list; then the caller (the real-time loop in `ortdrun.cpp`, or the
computational function of a nested block) alternates the two halves of
`libdyn_simulation_step`. Blocks call the log sink and nested simulations from
inside these halves, so the user thread of the log sink and the outer thread of
an asynchronous nested simulation are the same real-time thread. Worker threads
come back through flags and condition variables only.

Three more things happen between simulations. The thread of a second schematic
may contain a block `nested_exchange_fromfile` that takes the simulation out of a
slot of an `ld_nested` and puts another one in, while the real-time thread goes
on. A nested simulation in a thread of its own may be synchronised: one of its
blocks registers a callback that waits for a notification of the outer
simulation before each step. And simulations with different steps exchange data
through ring buffers they find by name. Such shared objects are created by the
PREINIT pass of one simulation and used by INIT and the steps of others, which is
why the order of the passes matters.

## 2. Modules

| Module | Models | Builds on |
|---|---|---|
| `Schematic` | creation of blocks and connections | – |
| `ExecutionList` | `libdyn_simulation_checkinputs`, `libdyn_setup_executionlist` | `Schematic` |
| `SimulationStep` | `libdyn_simulation_step`, `libdyn_simulation_resetblocks`, events | `ExecutionList` |
| `Dataflow` | abstract: synchronous data flow | implemented by `SimulationStep` |
| `LogSink` | `log.c`: ring buffer, signals, both threads | – |
| `LogChannel` | abstract: an ordered, reliable channel that closes | implemented by `LogSink` |
| `AsyncSimulation` | `async_simulationBlock`, threading mode 1 | – |
| `NestedSlots` | `libdyn_nested2`: slots, current simulation, mutex | – |
| `NestedBlocks` | `ld_nested` with its online exchange, state machine, case switch, for loop, no-reset nest | `NestedSlots` |
| `BlockLifecycle` | `libdyn_simulation_init`, `libdyn_del_simulation`, `libdyn::irpar_setup` | – |
| `RingBuffer` | `RingBuffer.cpp` | – |
| `Pipeline` | an outer simulation, an inner one in threading mode 2, `RecvNotifications`, write and read blocks | `RingBuffer` |
| `DroppingQueue` | abstract: a queue that drops its oldest elements | implemented by `Pipeline` |
| `ExecutionListProofs`, `ExecutionOrderProofs`, `SimulationStepProofs`, `LogSinkProofs`, `AsyncSimulationProofs`, `NestedBlocksProofs`, `BlockLifecycleProofs`, `PipelineProofs` | theorems | the modules they name; `ExecutionOrderProofs` is about `ExecutionList`, and `SimulationStepProofs` builds on it |
| `MC...` | constants for TLC | the modules they name |

**Schematic, ExecutionList.** A block kind is what a CONFIGURE call leaves
behind: the number of ports, whether there is a state, whether an output has a
direct feedthrough, the events. `NewBlock`, `Connect`, `ConnectExternal` are the
entries of the connection list in any order; an entry that is refused destroys
the simulation (`RefuseEntry`). Junction lists are sequences; what the code's
threading of the lists through the input ports needs in order to be sound is the
invariant `JunctionsConsistent`. `CheckInputs` is a nondeterministic choice where
an unconnected input exists, since its data pointer was never initialised. The
two passes take one step per block, the walk one step per junction entry, output
port and block. An empty schematic makes the first pass follow a NULL pointer:
the state `crashed`.

**SimulationStep.** The first half of a step runs along the execution list, one
block per step, the second along all blocks. The functions of blocks are
constants (`CalcOutput`, `UpdateState`); one value stands for all outputs of a
block, and all external inputs show one variable. Events are sets of bits;
`Triggered` keeps the signed comparison of the code. The reset is one step, and
may come between the two halves of a step (phase `reset`), as nested blocks do
it: outputs, reset of what is inside, state update. `needs_output_update` stays
as it is, and what a block of a kind shows after a reset is a constant
(`ResetOutput`): filters write zero, delays what fits their initial state, and a
nested schematic without direct feedthrough sets no output. The history variable
`left` remembers whose outputs fitted the initial states no longer after the
latest reset, and `Restores` tells the kinds of which a reset leaves none behind.
All external inputs change when the computation of the outputs begins and not
between it and the state update; a nested schematic without direct feedthrough
gets new inputs with the update (`nested_block.cpp:724`), which is not modelled.

**LogSink.** A critical section without a waiting point is one step; the copy
loops outside the locks take one step per element; the unlock before
`pthread_cond_signal` separates two steps. `thread_mutex` is held across steps
only between the test and `pthread_cond_wait` (`rpc = "towait"`). The signal of
`log_ringbuffer_write` comes without the mutex, so its wakeup may get lost, as in
the code. Spurious wakeups are possible. The callback may refuse to open, and
then the sink thread ends.

**AsyncSimulation.** The outer thread computes, copies, triggers, resets,
destroys; the worker waits, computes, updates, resets, finishes. Flag and signal
have a mutex each, so their accesses are single steps; the results are computed
and copied piece by piece without a lock. They are the output buffers of blocks
of the nested schematic, and a reset of it, by the thread after each computation or
by the outer simulation at any time, writes those of some blocks: the pieces in
the constant `Rewritten` (`ResetResult`). `patient` tells a schematic that waits
for `comp_finished` before it triggers again from one that does not.

**NestedSlots, NestedBlocks.** A simulation is a number with two facts: whether
its blocks are in their initial state, and whether its outputs were ever
calculated. `add_simulation`, `del_simulation` and `set_current_simulation` are
`PutIn`/`FinishPutIn`, `TakeOut` and `Switch`. `PutIn` and `FinishPutIn` are two
steps, although they are one critical section, since `current_sim` and
`current_slot` are assigned one after the other and the real-time thread reads
them without the mutex. For `ld_nested` the real-time thread (`rt`) enters and
leaves the simulation in two steps, so the exchanging thread (`xpc`) can do
anything in between: unload or exchange, take out under the mutex, destruct
outside of it, delete the parameter set, compile a new one or fail, put in. The
flag that says whether outputs were calculated belongs to a slot and is written,
in a step of its own, to the slot that is current *after* the step
(`EndOutputs`, `MarkInitialised`). Destructing a
simulation the real-time thread is inside of, or deleting the container while an
exchange is under way, is undefined behaviour: `defined` becomes FALSE and the
model stops. The other blocks have no second thread, so each call is one step.
Some things the code does that a reader may not expect, and that the model keeps:

- `del_simulation(slot, switchto)` sets `current_sim` but leaves `current_slot`.
  With a third slot current, the flag of the wrong slot is used from then on
  (`disturbed` remembers it).
- The first step of `ld_nested` runs the schematic added last, the state machine
  its initial state.
- A case switch and a for loop reset only the schematic that is current.
- An exchange on a block with a single slot fails and leaks the parameter set
  (`NoSecondSlot`); `NoParametersLeaked` therefore speaks of blocks with a second
  slot.
- One exchanging thread is assumed. Several could exchange the same block; the
  code has no lock against that.

**BlockLifecycle.** One step per block and pass. `pre` is what PREINIT made of a
block, `obj` what INIT made. The documented way is that DESTUCTOR ends `obj` and
POSTDESTUCTOR, in a second pass, ends `pre`. Blocks that own a ring buffer or
persistent memory do not know POSTDESTUCTOR and delete both with DESTUCTOR; any
set of the blocks may be of this sort (`early`). The simulation is used by `libdyn::irpar_setup`
(`"cpp"`: initialises, and on an error abandons the simulation without deleting
it) or by a C program (`"c"`: the first step initialises, its result is ignored,
and as long as `blocks_initialised` is not set a later step tries again). The
flag of a block is documented as "Was the INIT-FLAG of the comp_func successfully
called?" (`src/libdyn.h:330`), but every pass sets it, PREINIT first; so the
deletion after a failed INIT destructs blocks without INIT. `OnlyInitialisedUsed`
states for which runs this cannot happen.

**RingBuffer, Pipeline.** An insertion of a batch and the reading of one element
are critical sections and one step each. On overflow as many elements are
discarded as the batch has (`Discard`), so the count of pending elements may go
below zero until the batch is counted. In `Pipeline` a step of the outer simulation
notifies while it computes outputs and writes while it updates states: the batch
comes after the notification of the same step, and the inner
simulation may read what the step before left. The first value of `signal` is
uninitialised in the code and is any value here. A notification of 0 is stored
like any other and so withdraws one that was not received yet (`Withdrawn`, finding 5).

**Dataflow, LogChannel, DroppingQueue.** `Dataflow` knows neither lists nor flags:
a step solves the equations of the network and updates all states at once.
`SimulationStep` maps `x` to the states at the beginning of an update while the update is under
way. A reset may leave outputs behind that solve the equations no longer: such
blocks are `held`. The next computation of the outputs ends this, except for
blocks without direct feedthrough whose kind does not restore its output; these stay
held until an event triggers them. `LogChannel` accepts, delivers in order, and closes when empty; `LogSink`
maps `sent`, `got` and `state` to accepted elements, elements given to the
callback, and the end of the sink thread. `DroppingQueue` never refuses a batch;
`Pipeline` maps the elements between the two counters to its queue.

Definitions marked *Mutant* in the modules are wrong variants of the definition
below them. They are not used by the specifications; put in the place of the
right one they break the property `PROJECT.json` names beside them.

## 3. Runs

| Run | Bounds | What it shows |
|---|---|---|
| `ExecutionList` | three kinds (a source with two outputs, a delay, a two-input block with state and feedthrough), 3 blocks, 4 entries | every schematic within the bounds, with loops, overridden and forgotten connections |
| `ExecutionListLoop` | the same with 3 entries | violation: `EveryBlockExecuted`, finding 1 |
| `SimulationStep` | a delay, a nested schematic with an event of its own, a filter and a gain, 3 blocks, 3 entries, one bit of data, resets between any two halves of steps | outputs are settled after each computation, but for what a reset left behind; `Dataflow` is implemented |
| `LogSink` | capacity 2, batches of 2, 4 elements, 2 signals, deletion at any time | safety, the implementation of `LogChannel`, return of all calls |
| `LogSinkReset` | 1 element, 2 signals | violation: `ResetCarriedOut`, finding 2 |
| `AsyncSimulation` | results of 2 pieces, of which a reset writes one, 3 triggers, any number of resets | whole results of the latest trigger, but for the piece the reset writes; no trigger lost, the destruction ends |
| `AsyncSimulationCopy` | 2 triggers | violation: `CopiesOnlyFinished`, finding 3 |
| `NestedBlocks` | all five kinds of blocks, up to 3 slots, 2 simulations loaded, any number of steps and unloads | the current simulation exists, parameter sets are neither lost nor deleted early, states are entered reset, outputs come before states, a switch is carried out |
| `NestedBlocksExchange` | `ld_nested`, 2 slots, 1 load | violation: `OutputsFirst`, finding 4 |
| `BlockLifecycle` | 4 blocks, any of them with a ring buffer or persistent memory, any failure, both clients, any number of attempts | providers that keep to the two stages outlive all users, the others those created before them; nothing is destructed twice, the deletion is complete |
| `Pipeline` | buffer of 3, batches of 1 to 3, 9 elements, reads of 2, 3 steps, signals 0 and 1 | `DroppingQueue` is implemented, no wake-up is lost, no notification but by one of 0, the thread ends |
| `PipelineZero` | 1 element, 2 steps, signals 0 and 1 | violation: `PendingUntilReceived`, finding 5 |

Why the bounds are enough to be interesting. Three blocks admit chains, forks,
joins, self-loops and loops of two, with a third block on, behind or beside the
loop; two ports give a block whose counter falls twice, on different paths; four
entries let two inputs come from two places and connections be overridden. In
`SimulationStep` one port per block is enough for every way in which an output
can be stale, because the value of an output depends on order and flags only;
one bit of data distinguishes an old value from a new one and the gain makes
each block of a chain differ from the one before. The four kinds are the four
ways of a reset: an output that is made to fit (delay), one that is left alone
and skipped (nested schematic), one that is written and computed again (filter),
one without a state (gain). In `LogSink` the counters
wrap after two elements, four elements wrap them twice, a batch may fill the
buffer, and two signals and the deletion may overtake each other and the data.
In `AsyncSimulation` three triggers are one in computation, one pending and one
that overwrites it; two pieces can be torn. In `NestedBlocks` the exchange always
concerns the second slot, so with a third one there is a slot before it, which is
what is switched to, and one beside it, which may be current; two loads are one
simulation in the slot and the one that replaces it. In `BlockLifecycle` four
blocks leave blocks before and behind the one that fails. In `Pipeline` nine
elements wrap the buffer three times, a batch may fill it or be larger than what
is pending, and three steps give a notification received, one pending and one
that replaces it; the destruction may overtake each.

No run replaces a definition. Deadlock is checked in all of them: the ends of the
program (`Stopped`, `NotStarted`, `Gone`, `Ended`) stutter explicitly, so any other state
without a successor is an error.

**Fairness.** `WF(SetupStep)`: the set-up is sequential code and, once
called, runs. `WF(UserStep)` and `WF(SinkStep)`, `WF(OuterStep)` and
`WF(ThreadStep)`: threads the operating system schedules go on inside the code.
The same holds of the outer thread of `NestedBlocks`, of `Exchange` there (a call
that has begun, not its beginning), and of `InnerStep` and the outer thread of
`Pipeline` within a step or the destruction. `WF(woken = 1 /\ Unblock)`: a thread
that was signalled leaves `pthread_cond_wait`; spurious wake-ups are possible but
never relied on. `BlockLifecycle` has no liveness property and no fairness.
Where a thread cannot go on (a mutex is held, a condition waited for, a join)
the action is disabled, so weak fairness demands nothing. No fairness is assumed
for calls by the user or for spurious wakeups, and none beyond weak fairness is
needed: the mutex is held for one step, and the thread that wants it has nothing
to compete with.

## 4. Proofs

The theorems hold for every value of the constants that satisfies the named
assumptions, `KindsAssumption` and `BoundsAssumption` of `Schematic`,
`ValueAssumption`, `FunctionsAssumption`, `ResetAssumption` and
`FeedthroughAssumption` of `SimulationStep`,
`CapacityAssumption` of `LogSink`, `PartsAssumption`, `RewrittenAssumption` and
`TriggerAssumption` of `AsyncSimulation`, `MaxSlotsAssumption` and `MaxLoadsAssumption` of `NestedSlots`
with `KindsAssumption` of `NestedBlocks`, `NumBlocksAssumption` of
`BlockLifecycle`, `CapacityAssumption` of `RingBuffer` with `BatchesAssumption`,
`ReadAssumption`, `SignalsAssumption` and `BoundsAssumption` of `Pipeline`.
They say that bounds and sizes are natural numbers and functions yield values.
`FeedthroughAssumption` says more: the outputs of a block of which no output was
configured with a direct feedthrough do not depend on its inputs. That is what
the flag is for: `libdyn_simulation_step` skips such a block as long as its state
has not changed (`src/libdyn.c:1389` to 1396). The code cannot check it; a block
library that breaks it breaks the data flow.

`LogSinkProofs`. `NoTornElement` and `InOrder` are not inductive: they say nothing
of slots that will be copied later. The invariant `IInv` describes the split of
the buffer: beginning at `read_cnt` lie the elements stored (`elements_pending`
less the one that the sink thread has copied but not released), after them those
of the write in progress, and together they fit in. It rests on the order of the
code, in which each thread changes `elements_pending` after its copy: upwards
after writing, downwards after reading. `Accounting` relates the counters,
`Content` says what each slot holds, `Signals` that the sink thread ends only by
a termination signal that found the buffer empty. `BehindNext` and
`BehindInjective` are the arithmetic of the wrapping counters. From `IInv` follow
`TypeCorrect`, `SlotsApart`, `OrderKept`, `EverythingDelivered`,
`SignalsAfterData`, and with a case for each action the refinement of
`LogChannel` (`Refinement`).

`ExecutionListProofs`. Why is the branch that reports algebraic loops dead? A
block with direct feedthrough is scheduled by the first pass or by the walk, in
both cases with no input remaining; the counter is never raised afterwards, so it
does not reach zero a second time. `Completed` says this, `Progress` where the
cursor is, and `JunctionsConsistent` is needed since the walk follows junction
lists into blocks, which must exist. With `TypeOK` and `ScheduledOnce` these are
inductive. Theorems: `TypeCorrect`, `ListsApart`, `Scheduling`, `LoopBranchDead`.

`ExecutionOrderProofs`. The order is right because of what the counters mean. As
long as no connection is overridden, `remaining[b]` is the number of inputs of
`b` that are not available (`CountedBlock`), and a directly connected input is
available exactly when the walk has passed its entry in the junction list of its
source (`Marked`, `Visited`). The first is kept by the second: the walk comes to
every entry once, since no block is scheduled twice and no input is on two lists
(`ScheduledOnce`, `JunctionsConsistent`), so no counter is decremented twice for
one input. A block whose counter reaches zero has all its sources on the list
(`Order`); at the end of the walk every entry of every block on the list has been
passed, so a block that was left out has an input that no block on the list feeds
(`LeftOut`).

`LoopFree` says what this means for the schematic, which finding 1 leaves open:
with all inputs connected, the set-up that returns success has all blocks on the
list exactly when the direct feedthroughs form no loop, that is, when the blocks have
ranks such that one whose outputs depend on its inputs ranks above those that feed it
(`NoLoop`). If they have, a left-out block of the lowest rank would have no input to
wait for; if all are scheduled, their positions on the list are such ranks. The error message
about algebraic loops could be given where the walk ends, by counting the list.

`SimulationStepProofs`. `OutputsSettled` is not inductive: it says nothing of a
list that is half traversed. The invariant `RInv` adds three ideas. The blocks
of the list before the cursor solve their equations (`Computed`), and computing
the next one disturbs none of them, since what a block with feedthrough reads
comes before it on the list (`OInv`) and no block is there twice
(`ScheduledOnce`). A block without feedthrough whose flag `needs_output_update`
is not set shows an output that fits its state (`Fresh`), so it may be skipped:
the state update sets the flag of each block whose state it changes. The reset
sets the flag of no block; those whose outputs fit no longer are in `left`, and
the invariant says of them what the code leaves open: until the next computation
of the outputs any block may be among them (`Settled` speaks of the others),
after it only blocks without direct feedthrough whose kind does not restore its
output (`Leaving`), for a block that has no state shows the same after a reset as
before (`Stateless`), and one with direct feedthrough is computed in each step.
During the state update the outputs still solve the
equations, but for the blocks in `left`, for the states of its beginning, and the cursor divides new states
from old ones (`Updating`). From `RInv` follow `RunTypeCorrect`, `OutputsSettle`
and, with a case for each action, the refinement of `Dataflow`
(`StepIsDataflow`). `AllOutputsFit` is the case of kinds that all restore their
output: then every block of the list solves its equation after each computation,
however often the schematic is reset. The refinement holds as long as event 31 is not triggered:
with it the code does not implement synchronous data flow (section 5).
`Dataflows` is the same without the condition, for sets of kinds that do not
subscribe to event 31, as in the run; `EventsHeard` states that event 31 is the
only one that goes unheard. `OneSolution` shows that the choice of a solution in
`Dataflow!Step` is none as far as the blocks of the list go: of two solutions, the first block on the
list at which they differed would read the same values from both, if both give
the blocks that are held the same outputs. So any
execution of the data flow in another order computes the same outputs.
All of it is for schematics of any size and for all
functions that satisfy the assumptions. Overridden connections are excluded in
the properties themselves, since then the order is not right (`OrderValid`).

`AsyncSimulationProofs`. For a schematic that waits for `comp_finished`, the flag
is a token. While it is set, no trigger is in flight and the thread does not
compute (`OneComputation`); only the outer thread clears it, and only after its
copy (`Protocol`). `Pieces` says from which computation each piece of the result
stems; a piece that the reset writes stems from none, from the reset of the thread on
that precedes the flag. Theorems: `TypeCorrect`, `WholeResults`, `CopyApart`, `FreshStart`, for
results of any size and any number of triggers.

`NestedBlocksProofs`. None of the properties is inductive: that the current
simulation exists depends on which simulation the exchange will destruct next,
and that on what it took out. The invariant rests on two ideas. Only the second
slot ever changes (`Shape`), so the first one, to which `del_simulation`
switches, always holds a simulation; and a simulation outside the slots is in the
hands of exactly one thread, at a place that `xpc` tells (`Handed`, `Numbered`,
`Loaded`), so what is destructed, compiled or put in is never in a slot at the
same time. `Parameters` and `Single` say where each parameter set is,
`StatesReset` and `Evaluated` what is known of states and outputs, `Within` where
the real-time thread may be inside a simulation. Theorems: `TypeCorrect`,
`CurrentStaysAlive`, `ParametersStay`, `NothingLeaked`, `StatesStayReset`,
`OutputsBeforeUpdates`, for any number of slots and of
simulations loaded.

`BlockLifecycleProofs`. The invariant says how far the pass has come: in each
state of `pc`, which of `pre` and `obj` the blocks before `at`, at it and behind
it have, and which flags agree with them. From it follow that the undo pass and
the deletion never meet a block twice (`NoSecondDestruction`), that both passes of
the deletion see the same flags (`ProvidersStayAlive`, `DeletedCompletely`), and
that a block without INIT is run or destructed only after a failure
(`InitialisedUsedOnly`). `ProvidersStayAlive` speaks of the blocks that keep to the two
stages and, of the others, up to their owners; it needs two further invariants, that what
PREINIT made of an early block is there until the block is destructed (`EarlyKept`),
and that blocks are destructed in the order in which they were created
(`DestructedInOrder`).

`PipelineProofs`. `Newest`: the pending elements are the last ones written, in
order, and `WriteCounter` is as far ahead of `ReadCounter` as there are pending
elements. From it every insertion, with or without overflow, and every read maps
to a step of `DroppingQueue` (`RingBufferIsQueue`). `NoWakeUpIsLost` is the safety
core of `NotificationServed`: a thread is never asleep on a signal unless the
thread that set it is about to wake it, and the one that is joined finds
`ExitLoop` set or the last signal still there.

**Safety parts of liveness.** That a call returns or a thread ends needs fairness
and ENABLED, which are out of the prover's reach. What can be proved is the
rest of the argument: nobody sleeps on a signal that is meant for it, and a measure of
natural numbers gets smaller with every step of the thread that is waited for.

- `SetupMakesProgress`: passes left, blocks left, output ports left, junction
  entries left. Each step of the set-up makes this lexicographically smaller,
  whatever the schematic, although the walk extends the list it follows: no block
  is on the list twice, so it can be extended at most as often as there are
  blocks. `WalkBounds` keeps the cursor within its port and its junction list.
- `NoSignalLost`: the sink thread sleeps on a signal only between its being set
  and the condition being signalled (`Wakeful`), and a flush, even if another
  signal replaces it, stays on its way until what was accepted before it has been delivered
  (`FlushPending`). `DelMakesProgress`: while `log_sink_del` waits, signals
  left, elements left and the position in the loop decrease lexicographically.
- `NoTriggerLost`, `DestructMakesProgress`: the same of the thread of an
  asynchronous nested simulation, for schematics that wait and others; its latest
  trigger is in the signal, in computation, or computed (`TriggerPending`).
- `LockIsShort`: the exchange holds the lock of the slots across steps only to
  make its simulation the current one. Its next step, which has no guard but its
  position, releases the lock; it destructs, compiles and deletes nothing in
  between, and the real-time thread changes nothing the lock protects.
- `NoWakeUpIsLost`, `JoinMakesProgress`: the inner thread of `Pipeline`, when it is
  joined, is not asleep for good, and its steps left decrease whatever its read
  block still finds in the buffer.

**Only model-checked**: the liveness properties themselves (`SetupEnds`,
`DelReturns`, `FlushDelivers`, `TriggerServed`, `DestructReturns`,
`SwitchReturns`, `NotificationServed`), of which the above is the safety part; what
is missing is that a thread that is not done can take a step. No
module uses recursive operators. The two arguments that run along the blocks,
`LoopFree` and `OneSolution`, need no induction scheme: they look at the first
block that fails (`LeastElement`, from the well-foundedness of `<` on the natural
numbers).

## 5. Findings

1. `src/libdyn.c:1661` – schematics with algebraic loops are accepted and the
   blocks of the loop never run; the error message is dead code.
2. `src/log.c:116` – the single variable for signals loses a reset that is
   followed by another signal.
3. `src/modules/nested/nested_block.cpp:2183` – a schematic that triggers again
   without waiting copies results that are being computed.
4. `src/libdyn_cpp.cpp:1560` – an exchange during a step of the real-time thread
   marks the new simulation as computed though it was not, and its states are
   updated before its outputs were ever calculated.
5. `src/modules/synchronisation/sync_main.cpp:1003` – a notification of 0, "If
   zero no signal is send" (`scilab_loader.sce` of that module, line 203),
   withdraws one that was not received yet.

Each has a run that finds the property violated. Further disagreements between
the code and what it says of itself are part of the models and have no run of
their own; the properties name what they leave intact.

- `src/libdyn.h:375` – event 31 is accepted ("Jedes Bit ein event", line 213) but never
  triggers, and hides other events of the same block, since the test is done
  with signed integers. `EveryBitIsAnEvent` says what is meant; theorem
  `EventsHeard` proves it under the condition that event 31 is not triggered.
- `src/libdyn.c:1396` – a block without direct feedthrough is skipped, since its
  "output SHOULD not change" (line 1384), after a reset as well, which changes its
  state. A nested schematic then shows an output of before the reset until an
  event triggers it. It is the exception in `OutputsSettled` and what `Dataflow` calls
  `held`; `AllOutputsFit` proves that it needs a kind that does not restore its output.
- `src/modules/nested/nested_block.cpp:2004` – the thread resets the nested
  schematic before it reports the computation as finished, and the outer
  simulation copies the results then ("set comp_finieshed output to 1 if result is
  available", line 2168). Where blocks write their outputs when they are reset, it sees
  these values and never those computed. `ResultOfLatestTrigger` says so of the pieces in
  `Rewritten`.
- `src/modules/pipelines/RingBuffer.cpp:427` – ring buffers, like persistent
  memory, are to be destroyed when no user is left (line 26), but users are never
  counted: they are deleted in the first pass of the deletion, while blocks
  created after their owner still have a pointer to them. `ProvidersAlive` excepts
  these blocks.
- `src/modules/pipelines/RingBuffer.cpp:418` – the undo pass of a failed PREINIT sends
  POSTDESTUCTOR (`src/libdyn.c:1185`); the handlers for `COMPF_FLAG_PREINITUNDO`, a flag
  that was removed (`src/libdyn.h:104`), are never called. Ring buffers and memories made before
  are lost (`PostDestructor`, and the exception in `NothingLeftBehind`).

## 6. Not modelled, and the plan

Most of the lines of this repository are not modelled and will not be. They are
the block libraries (`libdyn_blocks.c`, `basic_ldblocks.c` and others), each block
of which computes outputs from inputs without a thread or shared state, and which
are constants of `SimulationStep`; vendored libraries (muParser, EDF, random
numbers); devices, sockets and file formats, which are I/O; the decoding of
parameter vectors and the loading of plugins; and Scilab code that generates
schematics. What has a state that several parties change is in the modules above,
except for the following.

- `background_computation` and `ortd_asychronous_computation2`, the older thread
  manager, and `ld_nested` with asynchronous steps, which uses it.
  `async_simulationBlock` replaces both. The hazard of the flag that is still set
  from the computation before is listed, without a property.
- `ClockSync` and `TriggeredSync`: callbacks of the same form as the one in
  `Pipeline`, which wait for a clock or run freely.
- Initialisation of the nested blocks: `init` calls `destruct` on a failure, and
  the destructor of the block calls it again. Listed as a hazard.
- `del_simulation` and `reset_blocks` of a single slot, `replace_simulation` and
  `current_slot_nr` of `libdyn_nested2`: nothing in the repository calls or reads
  them.
- `active_state`, the events and the buffered inputs of nested blocks: data no property is
  about. The value of `x_global` is a simulation here, the one it was copied from.
  The output port of `active_state` is marked "FIXME: This output does not work
  by now" (`nested_block.cpp:1265`): the member is assigned by transitions
  only (1253), and has no value before the first one.
- Inputs of a nested schematic that change between its outputs and its state
  update.
- The marker of the ring buffer and the block that re-reads relative to it. The
  marker is described as the "lastly written element" (`scilab_loader.sce` of the
  module pipelines, line 134) but is set to `WriteCounter`, the slot behind it; it
  has no effect on the queue.
- Event masks set twice in a step, and the size of `event_map` (hazards without a
  property: a single assignment and an index without a check).
- Remote control: the parameter manager hands over a value under a mutex; the
  rest is sockets. Persistent and global memory: named vectors under a mutex, or
  without one by choice of the schematic.

Every invariant the passing runs check, and each of the three
refinements, is proved; see section 4 for the liveness properties.

# A specification of TIM-VX

TIM-VX is a C++ graph API (`tim::vx`) over ovxlib (C, `src/tim/vx/internal`), which builds
OpenVX graphs for VeriSilicon NPUs.  Paths below start at the repository's root.  The TLA+
modules here model the parts of the program that have behaviour over time: threads and
queues, the building and the life cycle of a graph, the ownership of tensor memory, the state
of recurrent graphs, the rewriting of a graph for a layout, lists of tasks.  The kernels and
the arithmetic of some two hundred operations are not modelled.

## The system

| part | state it keeps | operations | what is hard |
|---|---|---|---|
| Virtual device, `internal/src/vip/virtual_device.cpp` | queue of items, id counter, `submit_num_`, worker threads, two condition variables | `GraphSubmit`, `GraphRemove`, `WaitThreadIdle`, `ThreadExit`, the worker loop | interleavings, lost and spurious wakeups, shutdown |
| Graph in ovxlib, `internal/src/vsi_nn_graph.c` | node and tensor tables, inputs, outputs, the vx graph, the swap cache | `SetupGraph` (sort and passes), `VerifyGraph`, `RunGraph`, `GenerateNBG`, building | order of nodes, early returns, what success means |
| `tim::vx::Graph`, `src/tim/vx/graph.cc` | three `once_flag`s, inputs, outputs, operations, consumer and producer maps, tensor cache | `Compile`, `CompileToBinary`, `Run`, `CreateTensor`, `CreateOperation` | several threads, calls after a failure |
| Tensors, `vsi_nn_tensor.c`, `tensor.cc` | the driver's pointer, ovxlib's copy, who allocated it, `is_swapped` | create from handle, late creation, two kinds of swap, copies, release | ownership through sequences of swaps |
| Platform executors, `platform/native.cc`, `platform/lite/lite_native.cc` | list of weak pointers to executables | `Submit` before or after another, `Trigger` | order in a list that shrinks and grows, executables that are gone |
| gRPC platform, `platform/grpc` | tables of remote objects on the server | one call per object operation | tables and lifetimes of several clients |
| `tim::lite`, `src/tim/lite` | handles bound to a compiled network | bind, trigger | lifetimes |
| RNN state, `vsi_nn_rnn.c` | connections, internal buffers, the first-run flag | set up, reset, feed before a run, save after it | a failure between feed and save, handles that are exchanged, asynchronous runs |
| Graph optimisation, `vsi_nn_graph_optimization.c` | none of its own | int8 to uint8 conversion | a rewrite that must keep the graph valid |
| Internal nodes, `vsi_nn_internal_node.c` | reference counts, lists | create, use, release internal tensors | counts and order |
| Containers, `internal/src/utils` | hash map, linked list, tree, id map | insert, remove, walk | pointer structure |
| Layout inference, `src/tim/transform` | a permute vector and a counterpart for each tensor, a queue, operations visited | one `OnInputs` for each kind of operation | vector and data must stay together through shared inputs, constants and outputs; order of the walk |
| Operations, kernels, number formats, NBG parser, pre-processing | none over time | pure computation | arithmetic, covered by unit tests |

How they interact.  A user builds a `tim::vx::Graph`; `Compile` calls `vsi_nn_SetupGraph`
(which sorts the nodes and runs the passes: shape inference, two optimisation passes,
precision, node creation, precision again) and `vsi_nn_VerifyGraph`; `Run` compiles and calls
`vsi_nn_RunGraph`, which feeds RNN state, binds swapped tensors anew and calls the driver.
A virtual device runs ovxlib graphs on its own threads.  An executor compiles a graph to a
binary, wraps the binary in another graph with one NBG node (native) or a VIPLite network
(lite) and runs a list of such executables.  Tensors created from handles share memory with
the application and are swapped between runs, by hand or by the RNN code.

`PROJECT.json` lists the parts, modelled or not, and the hazards, each with its line.

## The modules

| module | models | extends |
|---|---|---|
| `VirtualDevice` | the virtual device | |
| `JobService` | abstract: a FIFO service of jobs with bounded parallelism, removal and draining close | |
| `TopologicalOrder` | the dependency orders of a graph | |
| `Sorter` | abstract: what a sort of a graph promises | `TopologicalOrder` |
| `GraphSort` | `vsi_nn_SortGraphNode`, an iteration a step | |
| `GraphBuild` | building a `tim::vx::Graph`: tensors, the cache of constants, binding, the maps | |
| `GraphSetup` | `vsi_nn_SetupGraph`, a node a step; the sort is an answer of `Sorter` | `TopologicalOrder` |
| `GraphImpl` | `tim::vx::GraphImpl`, composed with `GraphSetup` as the body of `setup_once_` | `GraphSetup` |
| `TensorHandle` | tensors created from handles | |
| `RunGraph` | the re-binding of swapped tensors in `vsi_nn_RunGraph` | `TensorHandle` |
| `RNNState` | the state a recurrent graph carries from run to run | |
| `PermuteVector` | arithmetic of permute vectors | |
| `LayoutInference` | the walk of `LayoutInference` and the handlers of fourteen kinds of operations; composite ones, which it leaves out, are the fifteenth | `PermuteVector` |
| `Executor` | the task list of both executors | |
| `MC...` | constants for TLC | its module |
| `...Proofs` | theorems and proofs | its module |

### VirtualDevice

`queue`, `gcount` and `submit_num` are the fields of `GraphQueue` and `Device`.  Each critical
section of `queue_mtx_` or `idle_mtx_` is one action; a `notify_one`, which the code calls
after the unlock, is an action of its own.  A thread blocked in `wait` is in state `"waiting"`
(worker) or `"idleWait"` (user); a woken thread has left that set and takes the mutex again
in a later step, so that another thread may be faster.  `Fetch` has the `if` of line 168, not
a loop: a worker that finds the queue empty after waking returns `PhantomItem`, whose id is
`size_t(-1)`, and `HandleQueue` counts it down like a job; `submit_num_` is signed here as in
the code.  `ThreadExit` submits one fake graph per worker and joins.  Running a graph is one
step that ends: the result of `vsi_nn_RunGraph` is dropped by the code.

### GraphSort, Sorter

`nodes`, `count`, `i`, `dirty`, `sorted_nodes` and `tensors` are the function's locals.  A step
is one iteration of the inner loop or the end of a pass.  A graph is a record of what the sort
reads: the tensors each node reads and writes (without empty slots), the constants and the
ids without a tensor, the inputs of the graph, the nodes `vsi_nn_GetNode` no longer finds.
`malloc(0)` for a graph without nodes may return NULL: that is `AllocationFails`.

### GraphSetup

`phase` is the pass that runs, `pos` the node it is at.  An operation's check, setup, optimize
and compute are steps that succeed or fail; a failing one leaves any part of its tensors
changed.  `shaped`, `created`, `precise` and `built` record what the passes have done.
`ComputeNode` creates any of the node's outputs, whatever status it ends with: an operation may
succeed without a tensor for its output (`vsi_nn_op_reshape2.c:53`), and the result of
`vsi_nn_TensorReinit`, which is to create the ones left, is ignored (line 433).  `lost` is
history: the outputs that were not there when their node had been computed.  That an operation
whose setup succeeds has given its outputs dimensions is the contract of the operations, which
are not modelled one by one.  Every early return is there with the status it returns, in particular the two that return the
VSI_SUCCESS of `vsi_nn_OptimizeGraph` (no memory for the list; no order), and the `goto final`
of a pass at a removed node, which ends the pass with the status so far.
The int8 to uint8 conversion is represented by its verdict and its dirty flag: the nodes it
inserts are not.  The passes for batch splitting exist only with VX_GRAPH_BATCH_OPT_SUPPORT,
which the repository's builds do not define, and are left out.

### GraphImpl

The flags `setio_once`, `setup_once` and `verify_once` follow `std::call_once`: the first
thread runs the body, the others wait until it has returned, and a body that returns,
whatever its result, is not run again.  `EnterSetup`, `SetupProgress` and `LeaveSetup` run
`GraphSetup` step by step, so that what other threads do in between is explored.  The boolean
each call returns is followed through its overwritings.

### TensorHandle and RunGraph

A tensor has the pointer of the driver (`vxhandle`), ovxlib's copy (`handle`) and the flag
`is_handle_malloc_by_ovxlib`.  Buffers are model values with a size.  The application is one
that keeps the rules of `vsi_nn_tensor_util.h`: truthful flags, and only memory it has been
handed or has allocated is passed in.  For `vxSwapTensorHandle` with NULL the driver may keep
its pointer or not: the code relies on no more (`vsi_nn_graph_optimization.c:616`).  Running
out of host memory is not modelled here.

`RunGraph` adds the parameters of the NBG nodes.  `bound` is the memory a vx node works on: the
one its tensor had when `vxSetParameterByIndex` was called last.  That the driver works like
this is what the code's re-binding is for; it is an assumption about the driver.  Swaps by
`vsi_nn_SwapHandle` set no flag and are not part of this module.

### GraphBuild

A tensor is its place in `tensors`; its id in ovxlib is that place too, or `NA` when
`vsi_nn_AddTensor` failed.  `TensorImpl` is the constructor, which ignores what `Init` returns:
the tensor may be left without an id, or with data that was not copied (`unset`), and
`CreateTensor` returns and caches it all the same.  `cached_tensor`,
`tensor_consumers` and `tensor_producer` are the maps of `GraphImpl`.  The data of a constant
is a sequence of chunks of 128 elements, so that what 512 bytes cover depends on the data type,
as it does in `CalculateCacheKey` (whose digest is taken to be free of collisions).  `SameSpec` is `TensorSpec::operator==`
with the quantization it compares.  `BindInput` is the whole call: the maps, the conversion
of a 16 bit float bias in `OnBindInputPostProc` with the tensor it creates or finds in the
cache, `RenewTensorConsumersMap`, and the list of ids handed to ovxlib (`node`), `NA` among them.  The
placeholder's `TensorSpec` is default constructed and leaves attribute and data type
uninitialised: they are any.  `asked`, `bound`, `written`, `unset` and `dropped` are history.
A record of `asked` has the answer and the data that should be there now, which a later write
to the tensor replaces, and says whether the tensor had been overwritten before it was handed
out (`stale`).

### RNNState

A call is the list of steps it has still to make (`todo`): feed, process, save, in the order
of `vsi_nn_RunGraph`, of the asynchronous pair, or of `vsi_nn_rnn_RunGraph`, which feeds and
saves twice because the run it wraps does so too.  `cursor` walks the connections.  Memory is
the number of the inference that wrote it.  A connection of two tensors from handles is
swapped, any other goes through a buffer; a buffer that could not be allocated is `Nothing`,
since `vsi_nn_rnn_InitWksp` does not look.  Every step may fail after any part of its work.

### LayoutInference

A graph is a record: ranks, inputs, constants, outputs, operations with their parameters, and
the caller's vectors.  A step takes a tensor from `tensor_queue` or looks at one of its
consumers; `Handle` is what all handlers share, with the outputs mapped and put into the queue.  `tensor_pv` is
the program's permute vector of a tensor; beside it `lies` says how the data of its
counterpart really is laid out, computed from the transposes the handlers insert and from what
the inserted operation does with data laid out that way, and becomes `Garbage` when an
operation is given data in a layout it cannot work in.  `slips` notes the places where the code
itself separates the two, and which kind they are.

Operations over constants alone are put into the queue by the constants `GetConstantInputs`
takes (`ConstantInputsTensor`).  For elementwise, addn, concat and stack `AlignPermuteVector`
then returns a null pointer (`op_layout_inference.cc:206`, `:258`), which the handler
dereferences (`:97`); so does conv2d with a constant whose weight is variable, as nothing has
given the constant a vector.  `Crash` is that step: it ends the program (`crashed`).  A composite
operation (`RNNCell`, `kind_` -1) is skipped by the walk (`layout_inference.cc:399`); its parts
are operations of the graph themselves.  An operation `batchnorm` declared CWHN
copies constant data as it is (`CopiedAsIs`) and gives its result the vector of transposed data.

### Executor

`tasks` holds the numbers of submissions; a submission records its executable, its reference
and the submission next to which it was put.  `kind` selects the native or the lite executor,
which differ in what `Trigger` returns.  One thread submits and triggers (`tasks_` has no
mutex and the samples have one thread); an executable may be given up at any time.  The index
and size of the list are those of the vector.

## The runs

| run | question | bounds |
|---|---|---|
| `vd_safety` | no job lost or run twice, `submit_num` right, no lost wakeup, `ThreadExit` drains, `WaitThreadIdle` is sound, the device implements `JobService` | 2 workers, 2 user threads, 3 jobs on 2 graphs, `SizeMax` 3, 2 exits |
| `vd_live` | queued jobs run, `ThreadExit` and `WaitThreadIdle` return | 2 jobs, one waiter, 1 spurious wakeup, no removal |
| `graph_sort` | the sort stops, is right, and implements `Sorter` | all graphs of up to 3 nodes over 3 tensors, one or two inputs a node, up to one removed node |
| `graph_build` | constants are what was asked for, the maps follow the bindings, ovxlib computes with what was bound | 2 tensors of 4 specifications, 2 contents, 2 operations, 1 write, 1 failure of a tensor (1.3 million states) |
| `graph_setup` | passes serve the operations, what is built is closed, what success means | 28 graphs: chain, reversed chain, join, cycle, missing producer, removed node, each with and without fast mode and a declared tensor, sorted or not |
| `graph_impl` | one set-up, phases apart, calls return, the verdict is reported | 2 threads of 2 calls, a graph that can be sorted and one that cannot |
| `layout` | vectors tell the layout, outputs are written plain, every operation is handled or the program ends at one without a vector | all graphs of three operations from the lists in `MCLayoutInference`: every kind, shared and constant operands, operations over constants alone, results read again or declared outputs, an input given in another layout |
| `tensor_handle` | one owner per buffer, freed once, no leak but by failed calls, the copy is true | 3 tensors, 1 + 3 buffers, swaps unbounded |
| `tensor_handle_size` | violated: memory is large enough | sizes 8 and 4 |
| `run_graph` | a parameter is stale for one of two causes only, and known to be stale between runs | 3 swaps, 3 parameters, one tensor shared |
| `rnn` | state carries over; what was saved survives failures | a swapped connection and one through a buffer with two inputs, 4 inferences, 8 calls |
| `executor` | requested order, no task lost or repeated, every task whose executable stays runs | 2 executables, 3 submissions |

Why these bounds.  The hazards of the device need two workers that race for one wakeup, an id
that wraps while an item is queued (`SizeMax` 3 makes ids 1 and 2), and a graph submitted twice
for the last-match removal.  A cycle, a swap of the last array entry into a place before a
waiting node, and two passes need three nodes.  Two threads with two calls contain every
meeting at a `once_flag` and a call after a failed one.  Ownership can be lost in a chain of
swaps through a third tensor.  A wrong answer of the cache needs two constants that agree in
their first 512 bytes: two biases of 16 bit floats with the same first chunk of 128 elements, whose
conversions to 32 bits agree in the bytes that make the key.  The constants of 16 bit integers
have one chunk and differ in their quantization; a stale answer needs one constant, a write and
the same constant again; a stale map two operations that share a bias.  In a layout graph the first
operation leaves a vector, the second shares it or combines it with another one, the third
reads the result.  A failed run can be seen in the state of the run after the next one, which
a fourth inference follows.  `MaxSwaps`, `MaxSubmits`, `MaxCalls`, `MaxRuns`, `MaxTensors`,
`MaxOps`, `MaxWrites`, `MaxFailures`, `MaxExit` and `MaxSpurious` bound the only unbounded
counters; each is a guard of one action.  In `graph_build` constraints fix the first two inputs of
a convolution, which are like those of any operation (`OneInput`), let an application create its
tensors before its operations (`TensorsFirst`) and bind one operation after the other, outputs
last (`InTurn`), and give the placeholder a specification that makes a difference
(`Placeholder`); the proofs need none of them.  Deadlock is
not checked where the system may stop: when the calls of the bound are used up or a function
has returned.

Every property of a passing run has a mutant, a plausible slip in the code stated as an
operator beside the right one, with which TLC finds the property violated.  The type
invariants are proved and need no run; `VirtualDevice`, `GraphSort`, `GraphSetup`, `GraphImpl`,
`TensorHandle`, `RunGraph` and `Executor` have one, `RNNState` has its own (`Kinds`) in its
proofs.

### The violated run

`tensor_handle_size`: the size check of `vsi_nn_SwapTensorHandle` compares a tensor with
itself, so that a tensor may be left with memory that is too small for it, against the message
of the check itself.

### What the exceptions in the properties say

Each property is the strongest statement of its kind that the code keeps, and names where the
code does less than one might expect:

* `InputsReady` and `SuccessIsComplete`: an output that could not be created is missed neither by
  its node nor by the set-up (`lost`).
* `SuccessIsComplete`: a graph that cannot be sorted, or whose list of nodes cannot be
  allocated, is set up with VSI_SUCCESS and nothing built (`vsi_nn_graph.c:1487`).
* `VerifierReports`: `Compile` verifies after a failed set-up and the verdict replaces the
  failure (`LeaveVerify`); a failed set-up is not run again, and the next call starts from
  success (`SkipSetup`).
* `StaleForAReason`: a swapped tensor that is a parameter of two NBG nodes is set for the
  first only; the swap cache ignores tensors swapped after it was built (`Uncached`).
* `InRequestedOrder` speaks of a task and the one it was put next to: an executable submitted
  after each of two others is two tasks, the first of which may run before one of the two.
  `Submit` next to an executable that is not in the list succeeds and queues nothing.
* `IdleMeansDone`: an empty fetch counts down like a job.
* `ConstantsAsAsked`: a constant is taken for another one with the same first 512 bytes, and
  for one without quantization if it has a dynamic fixed point quantization; a constant that
  is overwritten stays in the cache, and whoever asks for the old data later is given the new
  (`stale`); a constant that ovxlib could not add or fill is returned all the same.  Whoever was
  answered before a write has what was written: that is no exception.
* `MapsFollowBindings`: the conversion of a shared bias erases all its consumers.
* `NodesComputeWhatWasBound`: a placeholder as the third input of a convolution may be taken
  for a constant of 16 bit floats, because its specification is uninitialised; a tensor that
  ovxlib could not add is bound as `NA`.
* `VectorsTellLayout` and `OutputsWritten`: a constant is transposed by a table of four cases
  and its vector set whatever the case; `Resize` gives its input the vector of the transpose
  it inserted; `BatchNorm` inserts a transpose by the vector it needs instead of the change to
  it, and none for constant data; and the consumer of a graph output that inserts a transpose before the output is
  produced redirects the output, which is then never written.
* `EveryOpHandled`: composite operations are left out, and an operation without a vector
  (`Unguided`) may end the program.
* `StateCarriesOver`: a run that fails after its feed has exchanged handles is followed by one
  that exchanges them again; `vsi_nn_rnn_RunGraph` feeds twice.

### Fairness

`VirtualDevice`: weak fairness of every worker, of a user thread inside a call, and of the
owner inside `ThreadExit`: threads run, mutexes are eventually granted, a graph's execution
ends.  Nobody has to make a call, and spurious wakeups need not happen.  Weak fairness is
enough, as a step that takes a mutex is not disabled by others for good.  `GraphSort`: the
function runs until it returns.  `GraphImpl`: each thread in a call goes on, in the set-up too;
nobody has to call.  `Executor`: the steps of `Trigger`, and an application that triggers
again and again; without the latter nothing would run what a `Trigger` cut short left behind.
`LayoutInference`: the function runs until it returns.
`WaitThreadIdle` is checked for one waiting thread without removals, since `notify_one` wakes
one thread only and `Remove` does not count down.

## The proofs

TLAPS proves, for every value of the constants under the named assumptions (`Assumptions` for
the device, `GraphsAssumption` for the graphs, `CallsAssumption`, `BufferAssumption` and
`ParamsAssumption` for tensor memory, `SubmitsAssumption`, `SpecsAssumption` for specifications
and data, `ConnectionAssumption` for the recurrent connections; TLC evaluates each in the
runs):

* `VirtualDeviceProofs`: `TypeOK`, `EachJobOnce`, `Accounting`, `IdleMeansDone`,
  `NoLostWakeup`, `ExitDrains`.  `EachJobOnce` is not inductive: a worker tells a job from a
  fake graph by the id only, so the invariant adds `IdsTell` (a queued item has id 0 exactly if
  it is a fake graph), `PushHolds` (a user thread holds a job exactly between the count and the
  push) and `HandledJobs` (between `Handle` and `Decrement` a worker holds a finished job not
  yet counted down, and no two the same). `Accounting` is inductive with these.
  `IdleMeansDone` follows: with `submit_num` not above 0 and no empty fetch, every announced
  job is counted down, hence finished. `NoLostWakeup` needs counting, since a worker may take a
  fake graph and exit while others sleep and items are left: `Wakeups` says that while a worker
  sleeps there are at least as many woken workers and pending calls of `notify_one` as items in
  the queue.  `ExitDrains` rests on the place of promised jobs (`Promise`: queued, running,
  finished or removed; `Before`: in front of every fake graph, and gone from the queue when the
  first worker has exited). `ImplementsService`, the refinement of `JobService`, is proved step
  by step.  `PendingJobs` is the queue without its fake graphs; it is written with the ranks of
  the jobs' positions, not with `SelectSeq`, so that lemmas can say what it is after a push, a
  fetch and a removal (`JobsOfAppend`, `JobsOfTail`, `JobsOfRemove`; any increasing list of the
  positions gives it, `JobsOfIs`).  A push is `Accept`, a fetch of a job `Start` (a worker with
  empty hands leaves a slot free, `SlotIsFree`), `Handle` is `Finish`, the first call of
  `ThreadExit` `AskClose`, its join `Close`; every other step leaves the mapped variables
  alone.  Beside the invariants above it needs that no worker is left once the service is
  closed (`Closed`).
* `GraphSortProofs`: `TypeOK`, `EachNodeOnce`, `TopologicalPrefix`, `GivesUpForAReason`, and
  that `GraphSort` implements `Sorter`.  The invariant adds that the marked tensors are exactly
  those given and those written by placed nodes (`Marked`), and that in a pass that has placed
  nothing every entry before `i` lacks an input (`ScannedWait`), which makes giving up
  justified: at the first pending node of a supposed order all inputs would be available.
* `GraphImplProofs`, first part, for `GraphSetup`: `TypeOK`, `InputsReady`, `BuiltIsClosed`,
  `PrecisionBeforeCompute`, `SuccessIsComplete`.  The invariant says what the nodes visited by
  the running pass have left behind (after a computation an output is created or `lost`), and that
  the list is an order of the graph, or the order of addition of a graph that was added in
  order.  `Precise` compares two passes: both end at
  the first node that is gone, so what the second one reaches the first one has handled.
  `Complete` follows the success status back to a compute pass that ran over all places.
* `GraphImplProofs`, second part: `PhasesApart`, `OneSetup`, `ImplTypeOK`, `VerifierReports`.
  The invariant ties each flag to the program counters: `"busy"` while one thread runs the
  body, `"done"` before any thread is past it.  `OneSetup` is a step simulation: a step of a
  thread is a step of `GraphSetup` or leaves its variables alone.  `Verdict` follows the answer
  of the verification to the return.
* `TensorHandleProofs`: `TypeOK`, `FlagTellsOwner`, `FreedOnce`, `NoSilentLeak`, and the action
  property `CopyIsTrue`.  The invariant says where each buffer of ovxlib is: with the one
  tensor that will free it, and then not freed or handed out (`HeldIsOwned`), or with nobody
  (`FreedAreGone`).
* `TensorHandleProofs`, second part, for `RunGraph`: `GraphTypeOK`, `StaleForAReason`,
  `StaleIsKnown`.  The two are not inductive by themselves: in the middle of a scan or of a
  replay a parameter is stale or not by how far the cursor has got, which `Scanning` and
  `Replaying` say; `Known` holds through all of it.
* `ExecutorProofs`: `TypeOK`, `QueuedOnce`, `InRequestedOrder`.  The tasks already taken and
  those in the list form one sequence `Queue`.  `Trigger` moves the border and leaves the
  sequence; `Submit` inserts, which keeps every order there was; so the order of two tasks
  never changes, even if one of them has been taken (`Once`, `Queued`, `Beside`).
* `GraphBuildProofs`: `ConstantsAsAsked`, `MapsFollowBindings`, `NodesComputeWhatWasBound`. The
  cache leads to a tensor of its key unless that was overwritten, not added or not filled
  (`CacheOK`), which with the answer of one call (`Right`) keeps what all calls were answered; a
  write rewrites the answers of its tensor (`Rewritten`) and leaves the others (`AnswersStay`).  What was bound, what an
  operation holds and what ovxlib has go together, place by place (`BoundTogether`), and name
  tensors and operations that exist (`BindingsKnown`).  How often a consumer is listed is a
  count, kept by `Append` (`TimesAppended`); a conversion erases the list of a shared bias,
  after which only the exception of the property holds.  `SpecsAssumption` says what a
  specification is.
* `RNNStateProofs`: the two action properties `StateCarriesOver` and `SavedStateSurvives`.  The
  invariant follows a call: what is left of it is one of ten plans (`Plans`); a buffer holds
  what was saved (`BufferIsSaved`); up to the cursor connections are fed (`Feeding`) and, after
  an inference, saved (`Saving`); and a connection that is swapped is fed already when nothing
  has failed (`Carrying`), which is why `StateCarriesOver` excepts the runs after a failure.
* `LayoutInferenceProofs`: `VectorsTellLayout`, `OutputsWritten`, and that the walk leaves no
  operation out (`EveryOpIsHandled`: `Done` only with every operation to be handled visited, and
  `crashed` only at an `Unguided` one).  First what the
  permutations do: the reverse is the inverse, the change from one vector to another leads
  there (`ChangeLeads`), and the vectors computed for a stack and a reduction say how the data
  comes out (`StackedTells`, `ReducedTells`, by counting the axes below one).  `HandleKeeps` is
  the step all kinds of operations share: it is enough that a handler gives its inputs and
  results vectors of their ranks (`Fitting`), and that the results lie as their vectors tell
  when nothing slips (`Tells`); one lemma for each kind shows these.  The invariant follows
  an output from the moment its producer is handled, before which no consumer may map it
  elsewhere (`WrittenWhenMade`); this needs that a tensor has one producer.  `Walk` is why nothing is
  left behind: an operation whose operands are all available is among the consumers still to be
  looked at, or one of its operands is still in the queue, constants being there for the operations
  that would come up by no other operand (`ConstantInputsAreListed`).  That a crash is only at an
  `Unguided` operation needs that the constants which were queued have vectors
  (`ConstantsKnown`).  At the end both are empty, so an
  operation not visited would need the result of another one not visited, and in a graph
  without cycles one of them does not. The lists of consumers and of results are orderings of
  finite sets of bindings, which `InOrderLists` shows to have each binding once.
  `GraphsAssumption` says what a source graph is: operands and results fit the kind, a tensor
  is the result of one operation at most and never an input of it or a constant, operands are
  constants, inputs or results, outputs are results, there is no cycle, and the caller gives
  vectors for inputs, as all the tests do; it also says that `CWHN2WHCN` is a permutation of
  four axes.

The temporal steps use PTL; every other step is a first-order obligation.

Model-checked only: liveness (`QueuedJobRuns`, `ThreadExitReturns`, `IdleReturns`, `Terminates`,
`CallsReturn`, `QueuedRuns`, `EveryOpHandled`), because TLAPS has no rules for
fairness and ENABLED here.  Every safety property and action property of the passing runs
is proved.  No module uses RECURSIVE operators.

## Not modelled, and why

* Kernels and their selection, the shape arithmetic of operations, number formats, pre-processing,
  the NBG parser: computations without states in between, within the reach of unit tests.  Data contents are modelled only as far as a property
  tells them apart (the number of an inference, a chunk of a constant, how data lies).  They are
  by far the largest part of the code by lines.
* The driver (`vx...`, `vip_...`) is external: its calls succeed or fail, with the effect the
  code relies on.  With it goes `tim::lite`, whose state is the driver's, and the life of the
  VIPLite process under the lite executor.
* The gRPC platform: the server makes objects of abstract classes and the client leaves pure
  functions of `platform.h` undefined, so that it does not build at this commit and has no
  behaviour to be faithful to.
* Internal nodes and tensors: built in one sequence inside an operation's setup, which is one
  step of `GraphSetup`.
* Hash map, tree, id map: sequential data structures.
* The operands of different rank in layout inference (where `AlignPermuteVectorForElementWise`
  expands a constant) and the handlers of kinds not in the list of the `LayoutInference` module,
  which follow the same patterns.
* The prebuilt SDK, resources and samples are no part of the program's logic.

## Plan

Done: the device, the sort, set-up, the life cycle, memory handles, runs, executors, building
of graphs, recurrent state, layout inference; the proofs above.

Left, in this order:

1. `GraphBuild` composed with `GraphImpl`: operations added after the first `Compile`.
2. Layout inference for operands of different rank, and more kinds of operations.
3. The int8 to uint8 rewriting as a step on the graph, with the nodes it inserts.
4. Proofs of what comes with these.

## How to run

`tlc -config X.cfg MCModule.tla` for the runs of `PROJECT.json`; `tlapm MProofs.tla` for the
proofs.

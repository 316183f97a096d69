# A formal model of MACE (easy_mace)

MACE is an inference engine for neural networks on phones: it reads a model
(operators, weights, a plan for the memory of intermediate results), prepares
it for the CPU, the GPU (OpenCL) or a Hexagon DSP, and then runs it as often as
the application asks. This directory holds TLA+ modules for the parts of it
whose correctness depends on order: the lock, the persistent store, the cache
of compiled GPU programs, the engine with its tensors, memory and operators,
the functors of the GPU over their life, and what the engines of a process
share; and for the indexing of the CPU's kernels, which is where most of the
code is. TLC checks them on small instances, TLAPS proves theorems about them for
all instances.

- [1 The system](#1-the-system)
- [2 The modules](#2-the-modules)
- [3 The runs](#3-the-runs)
- [4 What is proved](#4-what-is-proved)
- [5 Where code and documentation disagree](#5-where-code-and-documentation-disagree)
- [6 What is not modelled](#6-what-is-not-modelled)
- [7 Plan](#7-plan)

All paths are relative to `src/mace/` unless they say otherwise.

## 1 The system

### Parts, their state and their operations

| part | source | state | operations |
|---|---|---|---|
| readers/writer lock | `utils/rwlock.h` | `counter_`, `waiting_readers_`, `waiting_writers_`, two condition variables | constructors and destructors of `ReadLock` and `WriteLock` |
| key-value store | `core/file_storage.cc`, `public/mace_runtime.h` | map in memory, `data_changed_`, the file | `Load`, `Insert`, `Find`, `Flush` |
| OpenCL runtime | `core/runtime/opencl/opencl_runtime.cc` | `built_program_map_`, the platform of the stored binaries, the store, a mutex | constructor, `BuildKernel` and its three sources of programs, `SaveBuiltCLProgram` |
| buffers and tensors | `core/buffer.h`, `core/tensor.h`, `core/allocator.h` | size and memory of buffers and images; shape, buffer and ownership of tensors | `Allocate`, `Resize`, `ResizeImage`, `ResizeLike`, `ReuseTensorBuffer`, `Reshape`, mapping |
| workspace | `core/workspace.cc` | tensors by name, the buffer of the weights, the arena, the scratch buffer | `CreateTensor`, `LoadModelTensor`, `CreateOutputTensorBuffer`, `RemoveUnusedBuffer` |
| net and operators | `core/net.cc`, `core/operator.h`, `ops/`, `kernels/` | operators in order, per OpenCL operator the arguments of its kernel | `SerialNet::Run`, an operator's `Run` |
| engine | `libmace/mace.cc` | workspace, INIT and NORMAL net, input and output names | `Init`, `Run`, destructor |
| work sizes, tuner | `kernels/opencl/helper.cc`, `utils/tuner.h` | table of tuned parameters | choice of local sizes, splitting of long kernels, `TuneOrRun` |
| CPU convolution | `kernels/conv_2d.h` | cached transformed filter, scratch slices | the functor |
| CPU runtime | `core/runtime/cpu` | affinity and threads of OpenMP | choice of cores |
| Hexagon DSP | `core/runtime/hexagon` | graph in the DSP, input and output tensors | `Init`, `SetupGraph`, `ExecuteGraph`, `TeardownGraph` |
| OpenCL wrapper | `core/runtime/opencl/opencl_wrapper.cc` | function pointers of the library | `Load` |

### How they interact

The application creates an engine and calls `Init` once and `Run` repeatedly.
`Init` lets the workspace make tensors for inputs, outputs and weights and an
arena of blocks, one for each `mem_id` the converter has given to the outputs
of operators; it runs the INIT operators, which on the GPU turn weights into
images, creates the NORMAL operators, which look their tensors up by name and
keep their addresses, and throws away what only INIT needed. `Run` resizes and
fills the input tensors, lets the net run its operators one after another, each
of which resizes its output and computes it, and copies the outputs out. A GPU
operator compiles its kernel through `OpenCLRuntime::BuildKernel` (one runtime
for all engines and threads of the process) and keeps the kernel and its
arguments from call to call. At the end of `Run` the runtime flushes the
compiled programs to the store, which is shared by all threads under the
readers/writer lock and lives in a file from process to process.

### What is hard, and what would be correct

- *Lock.* Who wakes whom when several readers and writers sleep; a woken thread
  that loses the race for the mutex; spurious wake-ups. Correct: a writer is
  alone, counters are exact, no wake-up is lost, readers enter once writers
  stop coming.
- *Store.* `Flush` walks the map twice; `Find` returns an address that outlives
  the lock; the file is emptied before it is written; a torn file is read
  beyond its end; writing may fail. Correct: each operation takes effect at
  once, entries stay, and a store that is not dirty is on disk.
- *Program cache.* Two threads build one kernel; binary and platform are stored
  in two steps with a flush of another thread between; crashes; the driver is
  replaced. Correct: one program per kernel, programs fit the driver, what was
  compiled is kept and not compiled again, every build returns.
- *Memory of a net.* Blocks are shared by operators that do not overlap in
  time, tensors by operators that only rename them; sizes grow and shrink from
  call to call; an allocation may fail half-way and the application may call
  again; kernels keep their arguments; tensors and the weights' buffer are
  destroyed while others still have addresses into them. Correct: what `Run`
  returns is the net's function of the latest inputs; nothing is used after it
  was destroyed, nothing destroyed twice; the process dies only for a reason.
- *Functors of the GPU.* A functor keeps its kernel and its arguments and
  renews them when the shape of an input changes; outputs are resized, buffers
  for errors made, any of which may be refused, before or after the functor has
  noted that it is up to date. Correct: what it enqueues is what a new functor
  would, and the items cover the output in groups that the device can run.
- *Kernels of the CPU.* Tiles, registers, lanes and blocks with kernels for
  what is left over; padding in scratch memory that kernels read beyond;
  parallel loops; operands exchanged and dimensions merged. Correct: each
  element is computed from what the operator's definition says, once.
- *What a process shares.* The table of tuned parameters has no lock, and its
  file is written by a static destructor that may be killed; the threads of
  OpenMP belong to the thread that calls, the DSP's power to everybody; the
  model's data are freed by Init or by the destructor, depending on the device,
  while a second thread still sends them. Correct: parameters are those tuned
  for the kernel, data live as long as they are referred to and arrive whole,
  threads run on the cores asked for.

`PROJECT.json` lists these hazards one by one at their lines.

## 2 The modules

```
ReadersWriters  <-- implemented by --  RWLock           RWLockProofs
      | used by
FileStorage  -- implements -->  KVStore                 FileStorageProofs
                                   | used by
                               ProgramCache             ProgramCacheProofs
Tensors  <-- extended by --  Engine                     EngineProofs

Windows <- Gemm, Conv2d, ConvTiles, Winograd, Deconv,   one call of a kernel
           DataMovement, StridedSlice, Eltwise,
           Aggregates, Quantization, Proposals, WorkSizes
             <- Expected (reference definitions) <- Kernels   KernelsProofs,
Images, LocalSizes, Deconv, DataMovement
             <- FunctorPlans <- Functors                FunctorsProofs,
                                          both with     WorkSizesProofs
Tuner, CpuThreads, Hexagon <- Process                   ProcessProofs
```

Every module `X` that is checked has an `MCX` with symmetry sets or nets, and
one `.cfg` per question. Definitions named `Bug...` are plausible mistakes, in
place of which a property has to fail; they are not part of any specification.

**ReadersWriters** says what a user of the lock may rely on: a thread asks,
enters under the rule "writer first", leaves. **RWLock** is the code. All of it
runs under `mutex_`, released only in `condition_variable::wait`, so an action
is a stretch of code between two releases: `ReadLock` is the constructor up to
its wait or its end, `ReadLockResume` a wake-up, `ReadUnlock` the destructor.
`SpuriousWakeup` is the condition variable's licence.

**KVStore** is the store with every operation at one instant, except that a
`Flush` empties the file and writes it in two steps, between which the process
may die. `TornReadings` is what `Load` makes of a damaged file: it trusts the
lengths it reads and goes on behind the end. **FileStorage** is the code: an
operation asks for the lock (through `ReadersWriters`), runs its body in one or
more steps and returns. `FlushMeasure` and `FlushFill` are the two walks over
the map. The lock itself is not repeated: RWLock is shown to implement it.

**ProgramCache** composes the store with `OpenCLRuntime`. A compiled program is
represented by the driver ("platform") it was compiled for and by where it came
from. A process starts (`Start`), crashes or ends (`Stop`), and between
processes the driver may change (`UpdateDriver`). What the driver does with a
binary of another version is nondeterministic, as nothing in the code decides
it.

**Tensors** holds the memory: buffer objects by owner (a tensor, a slice of the
weights, a block of the arena, the weights), each with a size, perhaps memory,
perhaps an image, a generation that counts the memory objects it has had, and
as its content the *term* of how it was computed. `Resize(n, shape, r)` and the
others are the methods of `Tensor`, with the way they end: well, with
`MACE_OUT_OF_RESOURCES`, or in a failed `MACE_CHECK`. As in the code, a resize
that finds no memory has already recorded the new size.

**Engine** is one engine on one device, used by one thread. `stage` follows
`Init` (load, pool, create, init, built, ready) and `Run` (feed, run, copy, back
to ready); `at` and `step` are the position in the net. An operator takes two
actions, one that prepares the output's memory and one that computes, because
the first can fail alone; operators that do not compute take one. Modelled are
Activation (PReLU, with weights), AddN, Identity, Reshape, BufferToImage and
ImageToBuffer: they include every way an operator treats memory (own output,
alias, alias with another shape, image from buffer and back, the marking of
weights that are used up). An OpenCL operator that finds the shape it had keeps
the kernel arguments it had, and then computes on *those* memory objects.
`Meaning` is what the outputs should be, computed from the net and the latest
inputs without any memory.

**Kernels** makes one call of an operator of the CPU (or one enqueue of the
GPU) at a time; what a call computes is an operator of the modules it extends,
each of which follows one group of sources: **Windows** (sizes and paddings of
windows, `conv_pool_2d_util.cc`), **Gemm** (`gemm.cc` and its callers),
**ConvTiles** (`kernels/arm/conv_2d_neon_*.cc` and the general kernel, by tile),
**Conv2d** (choice of kernel, scratch memory, depthwise convolution),
**Winograd**, **Deconv**, **DataMovement** (transpose, concat, slice, stack,
gather, pad, crop, shuffle, depth and batch to space), **StridedSlice**,
**Eltwise**, **Aggregates** (pooling, means, softmax, normalisation, arg max,
resizing, values per channel), **Quantization**, **Proposals**, **WorkSizes**
(groups and blocks of a GPU kernel). A tensor is its shape; the result of a
call is a set of *terms* <<output, input, filter>> of flat indices, or of pairs
<<to, from>>, so that a product added twice, an element left out and a read
behind the end are all visible. The reference definitions in **Expected** speak
of coordinates and know nothing of tiles. `arch` is the build (armv8, armv7,
plain C++); where a kernel has a version per build the model has one, too.

**Functors** is one functor of the GPU, called again and again. A call goes
through the parts that all 26 of them consist of, in the order of the code:
resize the output, build the kernel, set the arguments if the shape compared
has changed, enqueue. What differs is data: **FunctorPlans** says for each
functor, from the shapes of a call, what it checks, the shape of the output,
which shape is compared and which arguments depend on the shapes. **Images**
has the shapes of images, **LocalSizes** the sizes of groups. Memory may be
refused at each allocation, and the functor stays as far as it had come.

**Process** is a process with a thread for each engine, and the processes after
it. Its own part is the life of engines and of their models' data
(`libmace/mace.cc`). **Tuner** is the shared table and its file: access to the
table has a beginning and an end, and the file is written word by word, so that
`Killed` can cut it anywhere. **CpuThreads** is the choice of cores and the teams of
OpenMP: `teams[t]` has the control variable of the calling thread and, for each
of its threads, the cores it may run on. **Hexagon** is the graph on the DSP,
appended to by two threads that `PrepareDsp` waits for.

Decisions worth knowing:

- Terms of the kernels are exact, floats are not modelled: quantization and
  proposals compute with fractions and integers, Winograd with its rational
  matrices multiplied out.
- A functor's arguments are those that depend on the tensors; the ones that
  depend on the operator alone are the same at each call.
- Names in the tuner's file are sequences, since a torn file yields others than
  were written. Words are below 256, so that the first byte of a word is it.
- Threads of OpenMP that a smaller region leaves over stay or end, and the
  number of processors counted is that of the chip or of the caller's cores:
  both are the library's choice and free in the model.
- GPU commands are shown as done when enqueued: the queue is in order and every
  map that reads a result blocks.
- The nets are those the converter may produce: the converter is not in the
  repository, so `PlanIsSafe` states what its `mem_id`s must guarantee, and the
  run goes through *every* plan that satisfies it.
- `Run` is called only after a successful `Init`, `Init` once, and every input
  is given the first time. The memory given for an output may have any shape a
  tensor can have, and nets may add tensors of different sizes, one tensor to
  itself or one memory under two names (`OddNets` in MCEngine): where the code
  dies, the model does.

## 3 The runs

| run | configuration | result |
|---|---|---|
| `rwlock` | 4 threads | all properties hold, and RWLock implements ReadersWriters with its fairness |
| `storage` | 2 threads, 2 keys, 2 values; open fails, crashes | all hold, FileStorage implements KVStore |
| `storage_write_error` | the same, a write fails | `FlushZeroMeansSaved` is violated, see 5 |
| `cache` | 2 threads, 2 kernels, 1 driver; open fails, crashes | all hold |
| `cache_updates` | 1 thread, 3 drivers, each new, a shipped binary for one | `ProgramsMatchDriver` holds |
| `cache_driver_returns` | 1 thread, 2 drivers, back and forth | `ProgramsMatchDriver` is violated, see 5 |
| `engine` | nets of 4 (CPU) and 7 (GPU) operators, every safe plan for 2 blocks, 3 shapes, 2 calls, any allocation fails | all hold |
| `engine_gpu_wait` | a GPU net with a Reshape, one channel | `WaitFnIsSet` is violated, see 5 |
| `engine_gpu_reshape` | a GPU net with a Reshape, four channels | `ReusedImageMayBeReshaped` is violated, see 5 |
| `kernels` | every operator, shapes around tiles, registers and blocks, three builds; blocks of 10 in place of 64, tiles of area 8 | all hold |
| `functors` | 26 functors, 2 to 7 inputs each, 3 devices, output of its own or in the arena, any allocation refused | all hold |
| `process` | 2 engines on one sort of device, 2 kernels, 3 constants, 2 operators, 3 chips, 3 processes | all hold |

What the properties say:

- `Exclusion`, `CounterCountsHolders`, `WaitingCountsExact`: the three integers
  always agree with who is inside or waiting. `NoLostWriterWakeup`,
  `NoLostReaderWakeup`: while somebody could enter, somebody who would is awake.
  `ImplementsReadersWriters`: refinement, with fairness. `ReadersEnter`: once
  writers stop coming, every waiting reader gets in.
- `BufferFits`: Flush copies exactly what it measured. `NodesStay`: what `Find`
  returned is still there and the same. `CleanMeansSaved`: not dirty implies on
  disk, also after a crash inside a Flush. `ImplementsKVStore`: refinement.
- `OneProgramPerKernel`; `CompiledIsStored`: both Inserts survive whatever the
  other thread flushes; `SavedIsReused`: what is on disk for this driver is not
  compiled again; `CallsReturn`: every build returns, failed ones too;
  `ProgramsMatchDriver`: no binary of an older driver is used, which is true
  of one thread and drivers that never return, and of nothing more.
- `OutputsAreRight`: what a call copies out, also one that ends in an error, is
  `Meaning`. `OnlyLiveMemory`: operators only touch tensors that have not been
  erased, in memory that has not been given back. `ArgsAreCurrent`: a kernel's
  arguments are those of the present memory and shape although they are set
  only when the first input's shape changes. `FatalIsJustified`: the process
  dies only after a failed allocation, when a picture outgrows its image, at a
  sum that the net's definition makes impossible, or for an output whose memory
  has another shape than that definition gives it. The last three are stated by
  `Meaning`, which knows nothing of what the engine did: an operator that left
  a wrong shape behind would not be excused.
  `OneOwner`: no buffer is deleted by two tensors.
- `MatrixProductsRight`, `ConvolutionRight`: every product is added once,
  whatever tiles and padding. `WinogradIsConvolution`: the transformations of a
  tile multiplied out. `ReadsWithinPad`: no kernel loads more than the pad
  behind its input, and scratch slices hold what is put into them.
  `DataMovedRight`, `EltwiseRight`, `AggregatesRight`: each element comes from
  where the definition says. `ZeroIsALevel`: the adjusted range contains the
  old one and zero, and values come back within half a step; from `Quantize`
  less exactly the way the lower end was moved, and not from a range that
  `AdjustRange` breaks.
  `ProposalsRight`: non-maximum suppression returns a maximal set of boxes that
  do not suppress each other. `WorkCoveredOnce`: groups and blocks contain
  every item exactly once.
- `LaunchedAsFresh`: what a used functor enqueues is what a new one would;
  `LaunchCoversOutput`: the items make up the image of the output.
- `KernelsRunTuned`: parameters are the default or were tuned for the kernel,
  and a file cut off spoils one entry at most; `ModelArrives`: nobody refers to
  data that were freed, nothing is freed twice or kept, and the DSP's graph has
  each node once and in order; `TeamIsBound`: after a thread has asked for big
  or little cores or for some by name, its parallel regions run there, on as
  many threads as it asked for. Little are, as the header has it, all but the
  fastest; of little cores of two sorts a thread may get fewer.

Some of these name exceptions, where the code does something else and nothing
in the repository says that it should not. They are part of the property, so
that everything beside them is checked: see 5.

**Bounds.** Threads: the lock's wake-ups involve the one who leaves, a woken
and an overtaking thread and one that still sleeps: four. Two threads suffice
where they only meet in a mutex or in the lock, whose rule is proved for any
number of threads. Keys and kernels: two, the one concerned and another one.
Platforms: three, before, now and shipped-for. Shapes: three that grow and
shrink and one of which the arena is planned for, so that some fit, some need
new memory and some exceed their image. Calls: two, so that every pair of
shapes follow each other; nothing in the engine looks back further than one
call except what a failed allocation leaves, which shows in the second.
`Pad` is 1 where the code has 64 bytes: it only matters that it is there.
Kernels: heights, widths and channels go from one below to one above each tile
or register size; Gemm's blocks are 10 instead of 64, which two blocks need
heights of 11 for, and the sizes in between reach every remainder; scratch
tiles have an area of 8. A call of a kernel has no state but its caches, so one
at a time is enough. Functors: inputs that differ in one dimension at a time,
so that a dimension left out of the comparison shows. There is no bound on the
calls: a functor has finitely many states. Process: two
engines are needed to race, and three processes for a table that was torn, read
and written again. Lists of 2 constants and 1 operator where the code has 250
and 125: full, short and empty ones occur. The threads asked for are 0 (as many
as there are), 1 and 5 (more than there are), cores by name one that may be
offline, alone and with another. Chips have one to three sorts of
cores and one core that is offline. Engines that run at once are on the same
device: what they share depends on it. A policy is set by threads with an
engine on the CPU.

**Fairness.** RWLock: a woken thread gets `mutex_` back (it is held for a few
statements), and a section ends (no user of the lock blocks in one). Nobody is
forced to ask for the lock. ProgramCache: a build that has the mutex goes on
(weak), and a thread waiting for `program_build_mutex_` gets it if it is free
again and again (strong, what one expects of `std::mutex` under a preemptive
scheduler). The other specifications have safety properties only: an
application need not call, and a process may end at any time.

**Deadlock** is checked in every run; Engine's `Stopped` is the state after the
process died or the engine was destroyed, Functors' `Ended` that after a failed
check, and Process's `Over` that after the last process.

## 4 What is proved

Proofs are in modules of their own. They assume the named `ASSUME`s of the
modules they are about, which are conditions on constants and are evaluated by
the runs; where a theorem assumes more, it says so itself and so does this
section. Properties without a theorem are listed at
the end.

**RWLockProofs**, for every finite set of threads: `TypeCorrect`,
`LockExcludes`, `CounterAgrees`, `WaitersCounted`, `WakeupsNotLost`,
`ReadersWoken`, `NotAllAsleep`, all from `Safety`; and `Refinement`, the lock
implements ReadersWriters (safety part). None of the invariants is inductive
alone: that `counter_` counts the holders needs that a writer is alone, which
needs the counter; that no wake-up is lost needs the exact numbers of waiting
threads, because the destructors decide by them whom to wake. `IInv` is their
conjunction. The proof has one step for each action and, under it, the sets the
action changes; `JoinLeave` says what that does to their sizes.

**FileStorageProofs**, for all sets of threads, keys and values:
`StorageTypes`, `FlushFits`, `FoundStays`, `CleanIsSaved` (if writes do not
fail) and `StorageRefines` (FileStorage implements KVStore). The inductive
invariant `FSInv` joins to the properties that a writer is alone, that the
position of a thread in an operation determines what it does with the lock, and
that `flushing` says exactly that some thread is inside Flush. From these,
`InsideFacts`: nobody else flushes while a thread is inside an operation. So
nothing is inserted between the walks of a Flush, and the body of each
operation is one step of KVStore.

**ProgramCacheProofs**, for any threads, kernels, drivers and faults:
`CacheTypes`, `OneProgram`, `ReusedNotCompiled`. `Builds` says who is inside
`program_build_mutex_`, and that the map has no program for the kernel such a
thread wants: so the program it records is the first. `Reusing` adds that, once
the platform of the store is known, the store has what is on disk, and that who
goes on to compile did not find the kernel there; with it an action property,
that no step compiles what is saved, follows. `CompiledStored` is for a driver that
stays (`OneDriver`: all entries are of it). `ProgramsMatchDriver` has no
theorem: it holds of one thread, drivers that never return and no fault but a
file that cannot be opened, in `cache_updates`, and two threads or a driver
that returns violate it (see 5).

**EngineProofs**, for every plan, set of shapes, number of calls and pattern of
failing allocations. `EngineTypes` (`TypeOK`) assumes `EngineAssumption`: nets
are nets (`IsNet`) and inputs have three dimensions, which are numbers. The
attempt to prove it found a net without NORMAL operators to be stuck in the
model after its inputs were fed, where `SerialNet::Run` runs an empty loop;
`RunNet` now goes on to the outputs. `BuffersHaveOneOwner` needs nothing of the
nets: `GoodTensors` says of every tensor, erased ones too, that what it owns is
its own buffer or nothing. `MemoryThere` (`OnlyLiveMemory`) and `ArgumentsCurrent`
(`ArgsAreCurrent`) need what the converter does for a GPU net:
`WeightsAreConverted`, weights are read only by the INIT operators, which make
images of them, and, for the second, `InOrder`, an operator comes after those
whose outputs it reads. (The code relies on both: the constructor of an
operator dies when an input's tensor does not exist, `core/operator.h`, and a
NORMAL operator that read a weight would read it after `RemoveUnusedBuffer`.)
`ResultsRight` (`OutputsAreRight`) needs both, and `ResultsStay`: an INIT operator
is on the GPU and its output is in no block of the arena, and what the caller
may ask for is made by the NORMAL net. (Otherwise an image of weights would be
overwritten by the first call, and an output that no call makes would be an
earlier call's.) `DeathsJustified` (`FatalIsJustified`) needs all of these and
`NetFits`, what the converter must have done for kernels to be given the memory
they can use: on the GPU kernels get images, nothing that lies in the arena is
made a buffer again and there is no Reshape (`FormatsFit`; the runs
`engine_gpu_wait` and `engine_gpu_reshape` show that it is fatal there, see 5).
Of what is added nothing is assumed: that a tensor is added to itself, or to one
of another size, is one of the deaths the property names. MCEngine states that its nets satisfy all of
this, and `NoShape`, which stands for no shape at all, is none of the shapes.
That the plan of the arena is safe (`PlanIsSafe`) is part of `IsNet`.

- `MemoryInv`: a tensor whose memory must be there (`Held`: on the GPU, once
  the INIT net is thrown away, one of the NORMAL net) and that points to a
  buffer points to one that lives. The difficult tensors are those without
  memory of their own. One of the arena is safe because the arena stays; an
  alias has whatever buffer its input had when the operator ran, and then gives
  its own away (an alias that is still owner has no buffer); a slice of the
  weights is safe until the INIT net has run, after which, on the GPU, nobody
  left reads it.
- `ArgsInv`: arguments that have been set name the memory that the operator's
  tensors have now (`ToldTruth`). That stays true because an image, once a
  tensor has one, stays its image and keeps its memory object, and no pointer
  that is set is set anew (`ImagesStay`, `PointerStep`, for which aliases have
  to be chains to one owner, `Linked`). The other half is that a functor which
  has set nothing yet does so: the shape it starts with is no tensor's, and
  `InOrder` makes sure that its first input has been given one (`FirstIsShaped`).
- `HomeInv`: a tensor has no memory or that of its root (`Root`, the tensor at the
  end of its chain of aliases), and this is known from the net and the plan
  (`Home`): a block, a slice of the weights or the tensor's own. Two roots have
  one home only if the plan puts them in one block (`Homes`).
- `FitInv`: what a kernel is about to compute has the shape of its first input,
  also where the output was not resized because the shape had not changed
  (AddN on the GPU); and the memory behind arguments that are kept is there.
- `RightInv`: in the middle of a call, a tensor that is made by then (`Made`), is
  not waiting for its input to be copied (`Feeding`) and whose block has not been
  given to a later operator (`Lost`) holds what it means (`Meaning`). That is
  inductive because `PlanIsSafe` says that an operator, and the caller, never
  read a tensor that is lost (`PlanOfNormal`), and that an operator writes where
  nothing is that is still to be read (`Untouched`). A call that fails half-way
  leaves only what no operator of the NORMAL net makes, inputs, weights and their
  images, and these have their memory for themselves (`FromStart`).

- `ReadyInv`: until an allocation fails (`starved`), every pointer that is set has
  memory behind it, an image or a buffer as the net asks for and, on the CPU,
  large enough (`Backs`); a tensor without a pointer may make its own memory or is
  an alias (`Owners`); the tensors of the file and those INIT operators make
  exist, and have memory, from the stage on at which they are read (`Stands`); and
  in a call, the inputs have the shape of this call and the operators already run
  have given their outputs memory (`Calls`). Together with `FitInv` and
  `RightInv`, by which shapes are those of `Meaning`, and `HomeInv`, by which two
  tensors have one buffer only if they have one root, what ends the process is
  an allocation that failed before, the image planned for an output being too
  small, a sum that the definition of the net makes impossible, or an output's
  memory of another shape, and nothing else.

The step of each of the 13 actions of operators is one of four (`OperateSteps`): it
ends the run, makes the output's memory, computes, or makes an alias. The
attempt showed two faults of the model, none of the code. `PlanIsSafe` counted
aliases, which bear the mem_id of their input but write nothing, and so took
plans for unsafe that are not; now it speaks of the tensors in the arena only,
and the runs check the plans that were left out. `Meaning` and `Root` were folds
and are functions of tensors now, defined by the operator that makes each; that
there are such functions is proved from the order of the net (`MeaningExists`,
`RootExists`).

**ProcessProofs**: `ModelAlwaysArrives` (`ModelArrives`), for any number of
threads, engines and processes, any size of model and of lists, assuming only
that counts are numbers and that every thread's device is one of the three. Its
invariant has two halves. `GoodEngine` says where the data of an engine are at
each stage of its life, and that `frees` is 1 exactly if they are freed: that a
failed Init leaves the data live is what makes a second Init, and the
destructor after a failed one, free no more than once. `GoodGraph` says that
what is on the DSP is what the counters of the two sending threads say was
sent; it needs `NodesJoin` (lists sent one after the other are one list) and
`ListFits` (the last list ends where the model does). The halves meet in
`SendConstList`: the constants arrive whole because an engine that is sending
has its data.

Of the CPU's threads, in the same module: `TeamsRunWhereAsked` (`TeamIsBound`),
for any chip, also one of three sorts, where the cores the code takes for little
are some of those the header does (`SortsCompared`). The property speaks of the
next parallel region, the invariant `TeamsInv` of the threads there are: those
a region uses are bound, and there is one at least, after which a thread made
for the region takes. That binding reaches all of
them needs that a policy asks for no more threads than it has cores, and so
that there are big and little cores at all: `FewestBeyond` finds a fastest and
a slowest one, by induction on a well-founded relation. Binding to cores that
are offline ends the process and is a step like the others (`DeathKeeps`).

Of the tuned parameters, in the same module: `TunedKernelsRun`
(`KernelsRunTuned`), for any number of threads on the unlocked table and processes killed at any word of the file.
`TableInv` treats the file as the table it would be read as: it has at most as
many spoilt entries as there were cuts, and those are beginnings of what was
tuned. While it is written it is a listing of the table (`Listed`), so that a
cut adds one spoilt entry, the one it falls into. Reading is a recursive
function; `BuildingExists` shows that it is one.

**KernelsProofs**: `WorkIsCovered` (`WorkCoveredOnce`), for any number of
items in two or three dimensions, any device and all parameters: computed,
tuned (with or without a limit of time, however long the kernel took) or found
in the table, where they may have been tuned for other sizes. It assumes of the
calls `IsEnqueue`, what kernels pass: positive sizes, a device that runs groups
of one item at least, and in two dimensions a group that fits; MCKernels states
it of its calls. `BlocksCover` finds the block of an item by division with
remainder and shows that it is the only one; `Fits` is the chain of divisions
by which a group stays within the device's limit. What is needed of groups for
the functors as well, and `Counting`, is in **WorkSizesProofs**. `OwnGroupsRun` says the same
of the nine functions that compute groups themselves (LocalSizes).

Of quantization, in the same module: `ZeroIsKept` (`ZeroIsALevel`), for any value
of any range of floats, as fractions, that does not break: of the copy for the
DSP that is every range but [0, 0], of `AdjustRange` every range but those where
zero, not being a level, rounds to the level of an end (`RangeBreaks`;
section 5 says what becomes of these). What comes out of `Quantize` is
less by the way the lower end was moved, no more and no less (`ComesMoved`);
this can be several levels, see section 5.
`Holds` says of an adjusted range that it holds the one that came in and has
zero among its 256 levels; whichever way an end is moved establishes it
(`NotMoved`, `LowerMoved`, `UpperMoved`), since the level nearest to zero
becomes zero and only one end moves, outwards. A value in a range that holds it
is rounded to a level at most half a step away (`Halves`), and needs neither
saturation nor, in the copy, the wrap to eight bits.

Of convolutions, in the same module: `KernelsReadWithinPad` (`ReadsWithinPad`),
for every shape, filter, stride, dilation, padding and build. The input is
padded until the window of the last output of the rounded-up picture fits
(`Room`, from `PlanHasRoom`), and a tile loads at most so many rows and columns
more than the windows of its outputs (`Loads`, kernel by kernel in
`KernelPaths`); so the last tile ends that much behind the input (`PathWithin`,
by `WindowFits`), and of what a tile loads too much to the right, all but the
last row's is the beginning of the next row. The pointers of 3x3 with stride 1
are advanced by constants and run behind where the tile is when the input is
wider than the output needs, never before it (`RunningBase`).
`IsConvolution` and `IsQuantizing`, that sizes are positive and that the range
is one, are assumed of the calls; MCKernels states them of its own.

Of matrix products, in the same module: `ProductsAddUp` (`MatrixProductsRight`),
for matrices of any size, transposed or not, any size of the blocks and all
four builds; for Gemm, MatMul of tensors of any rank, FullyConnected and
BatchGemm. A tile in registers adds each product of its rows, depths and four
columns once (`FullTileRight`, `PartialTileRight`, which go through the lanes);
from there on it is cutting boxes of indices into smaller ones. `AddsEach` says
that terms add each product of a box, in one place of the code; it is kept when
boxes that do not overlap are united (`UnionEach`), and tiles, the columns and
depths left over by them and the rows left over cut a block (`TilesCut`,
`FullRowsEach`, `RemainingRowsEach`: the loop over the depth that ends one tile
early leaves that tile to `GemmBlock`, not to both). `Places` says the same of
positions in memory: two indices of a product have different ones
(`SpotsDiffer`, by two digits in a number system), blocks cut the whole
(`IntervalsCut`), and a block that was transposed into a copy holds at the
place read what stands at that index (`PlaceA`, `PlaceB`). That as many terms are
added as there are products, which is how `AddsUp` says that none is added
twice, follows from the two mappings between them (`OnceAddsUp`). The attempt
showed that the property had left something out: MatMul, too, has a column that
is not transposed (see 5), which no call of MCKernels had asked for; there are
such calls now. `IsGemm`, `IsMatMul`, `IsFullyConnected` and `IsBatch`, the
checks of the operators, are assumed of the calls.

**FunctorsProofs**: `CallsNeedNoHistory` (`LaunchedAsFresh`), for all 26 functors,
any device, any set of calls and of arguments, and memory refused at any call.
The functors keep a kernel with its arguments between calls and compare nothing
but the shape of one input to decide whether these are still right. The
inductive invariant `Settled` says that the arguments, the number of items and
the shape noted are those of one call, which was legal; no step leaves them
half-way, for what is refused is refused before any of them is set.
`SamePlan` is the other half: two calls that note the same shape have the same
plan. For most functors the plan depends on the first input alone
(`PlanOfFirst`, which goes through the plans one by one); a batch that is put
back notes the shape of the picture, from which the batch can be told
(`OtherSide`, with `MultipleOf` and `Cancel`). What is not set at a call that finds
nothing changed is thus what it would have set, and `FreshIs` says what that
is. The assumptions (`FunctorsAssumption`, which TLC evaluates for the calls of
MCFunctors): a functor that has a filter or weights is always called with the
same (they are constants of the net), blocks are larger than one (the
constructor checks it), and a batch that is put back is a multiple of its
block. The last is no check in the code: `CalculateBatchToSpaceOutputShape`
(`kernels/space_to_batch.h:97`) drops the remainder, and a functor called with
8 and then with 9 pictures would keep the 8 as the number of items.

In the same module: `LaunchesCover` (`LaunchCoversOutput`), for all 26 functors.
`PlansRight` goes through the kinds one by one: the items of the plan, per pixel
or per block of pixels, rows, tiles or sums, cover the image of the output and
no more (`Tight`, `RoundUpDiv`; for kernels with an item per pixel of the input,
which move it, there are as many at least), and its groups run (`RightPlan`). Groups of
pixels, of rows and of blocks come from the shared functions (`DefaultRuns`,
`OwnGroupsFit`); the sums of a mean take a group of their own; concat of many
inputs has a kernel for each, and their blocks of channels add up to those of
the output because every input has a multiple of four, which the functor checks
(`SumOfQuarters`). `LaunchIs` is the inductive part: what was enqueued last is
what a call enqueues that was legal, so that its plan says how many runs it has,
while the number of items may come from the output or from an earlier call.
With `LaunchedAsFresh` that number is the plan's own. It assumes of the calls
`ShapesAssumption`, what functors take for granted: no output is empty, inputs
have four dimensions but where a functor looks at fewer, channels are shuffled in
whole groups, both factors of a product have the same rank; and of devices
`DevicesAssumption`: groups of 64 items can be run, which several functions take
as constants, and on Adreno a wave has four items at least and fits a group.
TLC evaluates both for the calls and devices of MCFunctors.

*Induction.* A recursive function can be reasoned about: one that is built step
by step is given explicitly (`ThreeElements`), a least counterexample is taken
(`LeastNatural`, from the well-foundedness of <), or a set of numbers that has 0
and each next one is shown to have them all (`Counting`, by the pigeonhole
principle: moving each number on by one would fill more places than there are;
`ElementsCounted` uses it for shapes of any rank, `SumGrows` for the inputs of a
concat). Definitions by folds
and `SelectSeq` cannot, as the library's theorems about them take operators;
`Among`, `Root` and `Meaning` in Engine, `Elements` in Windows and `Sum` in
DataMovement are recursive functions for that reason.

*Only model-checked.* Liveness (`ReadersEnter`, `CallsReturn`, the fairness of
the lock's refinement) is beyond the prover. What the operators of the CPU
compute, apart from matrix products (six properties of Kernels), is compared
with reference definitions through folds and the coordinates of shapes of any
rank; of these, `WinogradIsConvolution` is about finitely many pairs of elements, and the
run goes through all of them.

## 5 Where code and documentation disagree

- `Flush` returns 0 when writing failed (`core/file_storage.cc:232`), against
  `public/mace_runtime.h:57` "return: 0 for success, -1 for error"; it also
  clears `data_changed_`, so that no later Flush repairs the file. Run
  `storage_write_error`.
- "update platform info" (`opencl_runtime.cc:625`) does not: `Insert` is
  `emplace` and leaves the platform of the first driver beside binaries of the
  second. When the first driver returns, binaries of the second are taken for
  its own. Run `cache_driver_returns`.
- "wait_fn must be properly set" (`core/future.h:31`), but Reshape does not set
  it: a GPU net with a Reshape dies when it is timed, or when the Reshape is
  last. Run `engine_gpu_wait`.
- "It could be reshaped later (with image shape unchanged)" (`tensor.h:237`),
  but `Tensor::Reshape` compares the number of elements with the number of
  *pixels*, a quarter of it. Run `engine_gpu_reshape`.

Met while modelling, without a run of their own:

- Binary and platform of a program are two Inserts (`opencl_runtime.cc:624-629`),
  and the flush of another engine, which takes no part in
  `program_build_mutex_`, may fall between them. If the process ends before the
  next flush, the file has a binary without its platform; the next driver's
  platform is then inserted beside it, and the process after that takes the
  binary for its own. No driver returns and nothing fails in it. `cache_updates`
  has one thread for that reason; TLC finds this with a second one. (A crash
  after the flush, or a write that fails half-way, does the same with one thread.)
- "assume the cores with largest max frequencies as big cores, and all the
  remaining cores as little" (`public/mace_runtime.h:136-138`), but on a chip of
  three sorts the middle ones are neither (`cpu_runtime.cc:153-160`), and who
  asks for the little ones gets fewer threads. `TeamIsBound`
  counts as little what the header does and lets such a thread have fewer threads.
- With zero or less, `AFFINITY_NONE` is to give as many threads as there are
  cores (`public/mace_runtime.h:109-113`); the number is left as it is
  (`cpu_runtime.cc:206`). The cores the threads were bound to
  by an earlier call are kept as well.
- "re-range to make range include zero float and make zero float as integer u8"
  (`kernels/quantize.h:33`), but where zero is within half a step of an end and
  no level, the divisor is zero (45, 49): from [-60, 0.1] an infinite range
  (`RangeBreaks`). And `Quantize` measures from the lower end as it came in (96):
  zero of [-60, 2] becomes byte 240, which stands for -1.75.
- A convolution transforms its filter for the Winograd tile of its first input
  and keeps it when a later input selects the other tile (`conv_2d.h:380, 496`).
- Concat, Crop and Eltwise on the GPU do not look at their second input's
  shape (`OtherInputMatters` in Functors), Gemm with one column does not
  transpose (`gemm.cc:1276`), nor does MatMul, which calls it, NCHW Eltwise
  takes any smaller picture for values per channel, 7x1 convolutions load two rows too many, deconvolutions to an output larger than
  any convolution's input are shifted, and a strided slice of whole rows that
  ends before it begins copies a negative length: the exceptions in the
  properties of Kernels.
- A strided slice given as begin and size reads sizes for all dimensions from a
  vector as long as the sizes given (`strided_slice.h:92-101, 118`): with fewer
  of them than dimensions it reads behind the vector. `LegalStridedSlice` asks
  for all.
- `SetThreadAffinity` ends the process where cores cannot be bound
  (`cpu_runtime.cc:117`); the error it would return is never reached.
- On the GPU, Conv2d with filters of 1x1 ignores the padding
  (`conv_2d_1x1.cc:76`), Deconv2d takes both paddings from the first
  (`deconv_2d_opencl.cc:54`), Pooling passes the first stride and size only
  (`pooling.cc:143`), DepthwiseConv2d cuts sizes off at 16 bits
  (`depthwise_conv.cc:168`). The plans have it as in the code; the work that is
  enqueued covers the output all the same.
- After a failed Init on the GPU the model's data stay mapped
  (`mace.cc:255`), and a second Init on any device loses the first's.

## 6 What is not modelled

Within the modelled parts: queries of the device and GPU hints; statistics;
nets that mix devices; the actual image shape of a reshaped image (no net
resizes another tensor like it); `Run` on the DSP, which copies inputs and
outputs; the functor of the CPU that depthwise convolution falls back to on the
GPU; the times measured by tuning, in whose place every candidate may win; the
values of floats. Within the engine an operator's result is a term: that the
terms are computed right is what Kernels is about.

Calls that the interface allows and the model does not make, because the
process ends on the spot: `Run` after a failed `Init` (`mace.cc:324`), an input
or output that `Init` was not told of (`mace.cc:289, 306`), a number of threads
of zero or less with cores by name (`mace_runtime.cc:99`, which passes it to
OpenMP unchecked), a fully connected layer without bias
(`fully_connected.h:77`), a mean over dimensions that are all of size one
(`reduce_mean.h:201`). Destroying an engine for the DSP that
was not initialised is in Process and ends it (`mace.cc:271`).

Left out: the OpenCL wrapper, which loads symbols once under a mutex and
forwards every call; the programs of the GPU in OpenCL C (`kernels/opencl/cl`),
arithmetic per item without shared state; the classes of `ops/`, which read
arguments and call a functor; generated code (`proto`, `codegen`), vendored
libraries (`src/external`), build files and tests. `PROJECT.json` says it per
component.

## 7 Plan

In the order of importance, what is done and what is next.

1. Done: lock, store, program cache, engine; refinements RWLock ->
   ReadersWriters and FileStorage -> KVStore; proofs as in 4.
2. Done: the kernels of the CPU against reference definitions; the functors of
   the GPU over their life; what the engines of a process share.
3. Done: proofs about all the state machines, see 4.
4. **More proofs**: an abstract specification of inference (inputs in, `Meaning`
   out, or an error) that Engine is shown to implement.
5. **Models**: a convolution called with inputs that select different tiles;
   `Run` on the DSP; the OpenCL wrapper's `Load`.

# A specification of the VLIW SIMD core and its tools

This directory specifies, model-checks and proves properties of the VLIW SIMD
processor in this repository: the SpinalHDL hardware under
`src/src/main/scala/vliw`, the Python scheduler, assembler and kernel compiler
under `src/tools`, and the C driver under `src/drivers`. All modules are plain
TLA+. `PROJECT.json` maps every definition to the lines it stands for, lists
what is hard to test in this code, and names every run and theorem.

## The system

A kernel is written against a Python DSL, lowered to operations on scratch
memory addresses, packed into *bundles* by a list scheduler and encoded by the
assembler. A host copies the program to DDR, lets the instruction loader fill
every core's instruction memory and pulses START. Each core runs a three stage
pipeline (fetch, EX, write-back). A bundle has slots for ALU, vector ALU, load,
store, matrix and flow, which start together. There is almost no hazard
detection in hardware: the scheduler pads branches, inserts `WAIT_FOR_LOAD`
barriers and keeps conflicting operations apart. Correctness is a contract
between two programs in two languages that never meet.

| Part | State | Operations | Talks to |
|---|---|---|---|
| `FetchUnit`, `InstructionMemory` | state, pc, bundle register, startup bubble; contents, output register | start, fetch, hold, jump, halt, drain; synchronous read | flow engine (jump, halt), memory engine (busy), loader |
| `DecodeUnit`, `SlotBundles` | none | cut a bundle into slots | fetch unit, EX register |
| `VliwCore` | EX slot register, held operands, write-back registers | hold, bubble, fire | all engines |
| `BankedScratchMemory`, `WritebackController` | banks, forwarding registers | two ports per bank, forwarding, conflict | core |
| `MemoryEngine` | load register, completion queue, store queue, AXI state machine | load, barrier, store, matrix transfer, scratchpad copy | AXI memory, scratch, matrix memories, core (stalls) |
| `AluEngine`, `UnsignedDivider`, `Fp32Unit` | divider and pipeline registers | single-cycle operations, division, floating point | write-back |
| `MatrixEngine` | sequencer, tiles | compute, zero | core (busy) |
| `HostInterface`, `ImemLoader`, `VliwSimdSoc` | command and status registers, loader state | load, start, status | driver, cores |
| `vliw_driver.c` | handle | load, start, wait, reset | host interface, by polling |
| `scheduler.py` | ready times, slot use, pending loads, labels | place an operation, insert a barrier, close a block | produces bundles |
| `assembler.py` | tables | encode a slot, pack a bundle | produces words |
| `dsl/` | buffers, operations, scratch allocator | build, allocate, lower | produces operations |

What is hard here: a synchronous memory behind a pipeline that can stall in any
cycle; a bundle that is consumed, held, bubbled and replayed by five different
conditions; several engines on one state machine and one AXI port; a slave that
answers when it likes; results forwarded over two cycles while their reader is
held; registers polled a cycle after the command; and a scheduler that sees
none of it. What makes each part correct:

* *Fetch and pipeline*: every bundle fires exactly once, in program order,
  whatever stalls; HALTED means nothing is pending.
* *Operands*: an operand is the value the program means; no write is lost.
* *Memory engine*: a load returns a value its address has had since the stores
  before it, stores reach memory once and in order, a barrier that releases its
  bundle has made the value visible, queues do not overflow, nothing hangs.
* *Host side*: a polled DONE or HALTED belongs to the last command.
* *Scheduler*: its output satisfies what the hardware relies on.
* *Divider*: every division is answered once, in time, with its quotient or
  remainder, at its destination, and no answer meets another result.
* *Codec*: the engines are told what the scheduler meant.
* *Kernel compiler*: the lowered kernel leaves the memory its description
  promises.

## Modules

| Part | Model | Statement of the properties | Instance | Proofs |
|---|---|---|---|---|
| fetch, pipeline | `FetchPipeline` | `FetchOrder`, abstract: `SequentialCore` | `MCFetch` | `FetchOrderProofs` |
| scratch, operands | `OperandPath` | same | `MCOperands` | `OperandPathProofs` |
| memory engine | `MemoryEngine` | `MemoryOrder`, abstract: `MemoryContract` | `MCMemory` | `MemoryEngineProofs` |
| host, loader, driver | `HostSoc` | `HostRuns` | `MCHost` | `HostRunsProofs` |
| scheduler | `SchedulerOps`, `ListScheduler` | `ScheduleContract` | `MCSchedule` | `ScheduleProofs` |
| scheduled program on the core | `ScheduledRun` | same | `MCSchedule` | `ScheduleProofs` |
| slot of the ALU with its divider | `AluDivider` | same, abstract: `DivisionUnit` | `MCDivider` | `AluDividerProofs` |
| assembler and decoder | `BundleCodec` | same | `MCCodec` | `BundleCodecProofs` |
| scratch allocator | `ScratchLayout`, `ScratchAllocator` | same | `MCAllocator` | `ScratchAllocatorProofs` |
| kernel compiler | `KernelIr`, `KernelLoops`, `KernelPipelines`, `TileWeave`, `TileWeaveKernels`, `MatrixKernels` | `KernelMachine` | `MCKernels` | |

The modules meet in their assumptions. `FetchOrder!Scheduled` and
`MemoryEngine!Admissible` are what the hardware asks of the scheduler;
`ScheduleContract` says what the scheduler gives. `ScheduledRun` composes
scheduler and core: it extends `ScheduleContract` and executes what was built;
its divider, a counter with a result, is what `DivisionUnit` promises and
`AluDivider` keeps.
`KernelMachine` runs operations one at a time, which is the order that
`ScheduledRun` keeps and that `SequentialCore` gives to bundles.

### Fetch and pipeline

A bundle is reduced to what its flow slot does, the target meant by the
programmer and the engine it starts. The registers of `FetchUnit` keep their
names; `exBundleReg` and the memory's output are represented by the *address*
they were read from, so that a bundle fetched twice is visible as such. The EX
register `slot` holds valid bit, address and captured pc. A cycle takes an input
`e` (start pulse, memory stall, bank conflict, outcome of a condition, engines
that finish); `Possible(e)` restricts it to what the engines can do: the memory
engine stalls only bundles that use it, or everything during a copy.
`HoldFetch`, `StartupCycle`, `TakeJump`, `TakeHalt`, `CaptureBundle`,
`StoppedCycle` and `StartFetch` are the branches of `FetchUnit`'s two `when`
trees, in their order; `SlotRegister` and `BubbleSlot` are the assignments to
`exSlotsReg` with "the last assignment wins". Between runs `LoadProgram`
replaces the program; it assumes an empty pipeline, which is the host's duty.

`SequentialCore` executes bundles one after another. Empty bundles are
stuttering, so the mapping records the last bundle *with work* that fired, with
a bit that flips so that a repetition is a visible step.

### Scratch memory and operands

`OperandPath` follows data. A value is the number of the bundle that wrote it,
and a bundle carries in `wants` the values it should see, so that a wrong
operand shows whichever write it missed. `Presented` gives the read ports of
the bundle in decode: two scalar readers of a bank use ports A and B, vectors
use A for the first and B for the second operand, and port B is lost to a write
of the bank (`PortTaken`), which raises `Conflict` and bubbles EX. `Read` and
`Bypassed` are the two forwarding comparisons: a write of the cycle in which
the address is presented, and one of the cycle after. `Snapshot` is
`heldReadData` with its valid bit, `WriteBack` the register stage of all
writes, `Writing` and `Winner` the last assignment that wins a bank. While the
engine stalls, the code presents the addresses of a held store again; what is
read then is not used, so it is left out. `Copy` is `SCOPY_V2M`, which reads its
lanes through scalar port 0 of the bundle frozen in decode. Holds, bubbles and
the time of a load's answer are free.

`Permitted` is what a program keeps to: the barrier rule, which the scheduler
guarantees (`WaitsBetween`), and one precaution that it does *not* take and
`Liberties` lifts: it writes to no bank of a load that is still out (`loadBank`).
Copies stand anywhere. What their neighbours can do to them is written into
`CopiesAreMeant` as its two exceptions.

### Memory engine

`ex` is the bundle in EX; the remaining variables are the engine's registers
under their own names or an obvious contraction (`track` for the completion
queue, `cap` for `capStoreReq`). `Stall` is the disjunction of the stall
conditions in the code's order; pushes, transfer and copy starts use it as the
code uses `io.stall`. `StateMachine` has one disjunct per state, `StoreBegins`
before `IdleCycle` because a later assignment wins. The store queue's
`pop.valid` lags one cycle behind a push into an empty queue, as in the
library's implementation (`generated_rtl/modules/MemoryEngine.v`). The slave
accepts reads up to a bound, answers them in order after any delay, and a store
takes effect when it is answered. `Admissible` restricts which bundles may
follow; `SafeOrder` names the restricted case in the theorems: a
bundle has at most one load and one store and not both, and no load enters
during an inbound transfer. Copies are not restricted.

### Host, loader and driver

One step of `HostSoc` is a clock cycle of the CSR block, the loader and the
cores as the CSRs see them. `Driver` is the program of the examples: reset,
load, start, wait, and the next program. It makes one register access at a time
through `arPending` and `bPending`, which have the ordering of the AXI4-Lite
slave; the address and count of a load are live registers, as in the loader.
With `Timeouts` a poll may give up, and the next program then begins on top of
what is still running; `settled` in `HostRuns` remembers it.

### Scheduler and the program it makes

`ListScheduler` compiles a program that is chosen step by step, so that one
behaviour is one compilation. `Place` is the search: `SlotFree`, `HaltAlone`,
`NoContention`, `NoSameDest`, `SlotIdle`, `ReadsFit` and `WritesFit` are the
tests of its loop in their order, `EarlyEnough` where it begins, `Advance` the
update of the tables. `PlaceWait` is the barrier inserted in front of the first
reader, `TakeLabel`, `Close` and `Finish` are the block structure. The
constructors of `SchedulerOps` carry engine, registers, latency and busy window
of each operation. `ScheduledRun` then issues a bundle a cycle, with the
shadow of a branch, dividers and floating point pipelines, loads that land
whenever they like, and compares the banks with `seq`, in which operations run
one at a time.

### Divider

`AluDivider` has the registers of `UnsignedDivider` with their widths
(`running`, `counter`, `donePulse`, `r`, `q`, `d`), the destination and mode
that `AluEngine` takes with the operands, and the registered write request.
`StartDivision`, `Iterate` and `Rest` are what the divider does in a cycle,
`WriteRequest` the choice between an answer and the operation in EX. Sums and
shifts wrap as the hardware's do. `Allowed` is what the hardware needs of the
scheduler: no division within `DIV_BUSY_CYCLES` of another, and nothing that
writes at once in the cycle of an answer. The scheduler does more: it leaves the
slot empty while a division is under way, and one cycle longer than necessary.
`DivisionUnit` is the unit as a program sees it: a division is answered after a
fixed number of cycles with one of its `Results`. `Exact` is the result that the
manual, the golden model and the ALU test name, the unwrapped ceiling for CDIV;
it is the only one allowed where `Promised` holds, which is everywhere but for a
zero divisor and for a CDIV whose sum does not fit in a word. There any word may
come out. Integer division is not mentioned in the machine, only in `Exact` and
in `Computed`, what the machine gives for all pairs, which the mapping needs.

### Assembler and decoder

`BundleCodec` sends an operation through `_op_to_tuple`, the slot encoders, the
concatenation and the split into 32-bit words, and cuts it up again with the
decoder's own tables (`BitOffset`, `Layout`, `HardwareOpcodes`, `ElemWidth`).
A bit pattern is the set of its one bits. Both tables are written out as in
their sources, the FP8 matrix operations included, so a disagreement is visible;
only NOP (an empty slot is all zeros) and the assembler's operator symbols (`"+"`
for `add`), which the scheduler does not emit, are left out. An operation is a name and
parameters; `Buildable` says which ones the scheduler's constructors make, with
values that their fields can hold, and `Meant` what an engine is to find of them
in the fields it looks at (`LooksAt`).

### Kernel compiler

`KernelIr` has the builder's operations and the lowering; `ScratchLayout` is
the arithmetic of the allocator and `ScratchAllocator` the allocator at work.
`KernelLoops`, `KernelPipelines`, `TileWeave` and `MatrixKernels` *build* the
kernels with the builder's control structures, and state beside each one the
memory its docstring or golden function promises. `KernelMachine` executes the
lowered operations as the golden model does. The matrix product is an
uninterpreted bilinear form on tiles, words are eight bits wide.

## Runs

| Run | Result | Question |
|---|---|---|
| `MCFetch` | holds | do bundles fire once, in order (`ExecutesInOrder`, `SlotIsDue`, `BranchPcIsTwoAhead`), with matrix engines kept apart (`NoBundleHeldByMatrix`, `MatrixWaitsForTransfer`), HALTED only when drained (`HaltedMeansDrained`) and reached (`EveryRunHalts`)? |
| `MCOperands` | holds | is every operand and every copied lane the value meant (`OperandsAreMeant`, `CopiesAreMeant`), and does every write reach its bank (`WritesLand`)? |
| `MCOperandsLost` | violated | is the write of a late load safe from the other writes of its bank? |
| `MCMemory` | holds | the contract of the engine (`KeepsContract`), its barrier (`WaitMeansWritten`), its bounds (`OutstandingBounded`, `CompletionsFit`), its sharing of the port (`NoOrphanReads`, `CopyStarts`), progress (`BundlesNeverHang`) |
| `MCHost` | holds | does a finished load or wait belong to the call that asked (`LoadMeansLoaded`, `HaltedMeansRan`), and does every call return (`CallsReturn`)? |
| `MCSchedule` | holds | what do the placements guarantee (`RawRespected`, `SlotsExclusive`, `VectorsReadAlone`, `LabelsSplit`, `WaitsBetween`), and does the scheduled program compute what its operations mean (`OperandsFresh`, `NewestWins`), within the units and ports of the core (`PortsFree`, `ReadsServed`)? |
| `MCScheduleVector` | violated | does a reader of a vector quotient wait for the dividers? |
| `MCDivider` | holds | is every division answered in time with its quotient or remainder (`DividesInTime`), does nothing meet an answer or a running divider (`SlotFree`), does a remainder fit its register (`RemainderFits`)? |
| `MCCodec` | holds | does the decoder read what the operations meant (`DecodesWhatWasMeant`)? |
| `MCAllocator` | holds | `AutoClearOfEarlier`, `VectorsAligned` |
| `MCKernels` | holds | does each kernel leave the memory promised (`ResultAsMeant`), without intermediate stores (`StoresFinal`), and halt (`Halts`)? |
| `MCKernelsShared` | violated | is a block value that two stores share the same in both? |

### Bounds

*Fetch.* `Depth = 10` holds a branch with its three empty bundles, the two in
front of the target of a relative one, work on both sides and wrap-around of
pc; the program sets put every engine kind at every position in front of HALT,
behind it, before a branch and at its target, forward and backward, taken and
not taken. Every input is tried in every cycle; nothing is counted, so runs are
unbounded in length.

*Operands.* Two banks of two registers and vectors of two lanes make every pair
of operands meet in a bank; five bundles are two more than the distance over
which results are forwarded, so each pair of reader and writer is met with a
hold or a bubble in between; every order of the nine bundles is tried.

*Memory.* `StoreDepth = 2` distinguishes empty, one, full and full with one on
the bus; two destinations and two addresses distinguish the right and wrong
register or address; two values a stale and a fresh one; `MaxReads = 2` lets a
load and a transfer be in flight together; `MaxBeats = 2` a first and a last
beat; `Vlen = 1` keeps the copy loop at its first and last element.

*Host.* Two cores that finish at different times, two programs so that old and
new differ, two bundles so that a load has a middle.

*Scheduler.* All programs of four items over ten operations, one of each
latency class, engine and kind of destination, with a label that may lie before
or behind its jump: a writer, a barrier, a reader and one operation in between
or in competition. Latencies are shortened in proportion (division 4,
multiplication 3, addition 2): what counts is which of them is longer than
which. Two slots of one engine make slot choice matter, two banks of two
registers make every operation compete for a bank with some other. `MaxClock =
14` lets three divisions in a row finish and a loop go round more than once.
`SlowOnes` says of the operations of both scheduler runs which of them the
scheduler's tables know (`UnitsKnown`), and TLC evaluates it.

*Divider.* Three bits, and every pair of words for every kind of division, zero
as a divisor included: each remainder, borrow and wrapped sum occurs. Two
destinations tell a taken one from the one in EX, and operations of one cycle
may follow in every cycle the scheduler allows.

*Codec.* Operands are the ends of each field; three operations in a bundle fill
slots on both sides of one another.

*Allocator.* Four declarations from a menu with every alignment and explicit
bases below, on and beyond the rows.

*Kernels.* Vectors of two lanes, and all lengths up to eight, so that there
are none, one and several full blocks and every length of tail; pipelines for
one to five tiles in batches of one to three, so that batches are full and
partial; grids up to three by three. Scratch memory starts with two fills, so
that a word that is read before it is written shows.

### Fairness

Each liveness property has one assumption: infinitely often a cycle passes in
which the environment cooperates. Fetch (`Quiet`): nothing new stalls and busy
engines finish, since they are counters and state machines that end. Memory
(`Offers`): the slave takes what is offered and answers, as AXI requires. Host
(`Cooperates`): bus and DDR answer and a running program ends; a poll without
success is what the time limit is for. Kernels: the machine takes its next
step. A clock needs no assumption because every step is a cycle.

### What the violated runs show

1. *A load's answer can destroy a result* (`MCOperandsLost`). Write-back
   registers the answer of a load so that, as the comment says, it is not
   dropped when another write targets its bank. Nothing delays either one; both
   arrive at port B together and the later assignment wins. The load is safe,
   the ALU result of the bank is lost. The scheduler does emit such code.
2. *A shared block value goes stale* (`MCKernelsShared`). All chunks of a value
   share one vector register; the second store of a block of two chunks uses
   the wrong chunk.
3. *A vector quotient is read too early* (`MCScheduleVector`). The manuals call
   division multi-cycle and every lane of `ValuEngine` has a divider, but the
   latency and busy tables of vector operations (`scheduler.py:532-545`) list the
   floating point classes only. All that keeps the reader away is the gap behind
   any vector operation (`valu_post_gap = 2`): it is placed three bundles behind
   the division, whose dividers then have thirty cycles to go, and finds what
   the lane held before.

### Other disagreements met while modelling

The passing runs need these cases excluded; each is reproduced by the change in
parentheses.

* *A copy reads another operation's operands.* The comment at
  `VliwCore.scala:620` calls the hijacked read port 0 of the bundle frozen behind
  a scratchpad copy safe. A vector operation in that bundle still claims port A of
  every bank, and the copy moves its lanes. A CONST held in EX does not look at
  the stall and writes its register in every cycle of the hold, a lane of the
  vector being copied for instance. The scheduler keeps neither apart. These are
  the last two disjuncts of `CopiesAreMeant`; without either one `MCOperands`
  finds it violated.
* *CDIV does not always round up.* The manual (`docs/ISA.md:204`), the golden
  model (`golden_model.py:532`) and `test_alu.py:72` say `(a + b - 1) / b`, which
  is what `Exact` says; `AluEngine.scala:73` computes the sum in a word, where it
  wraps for a dividend near the top, and divides what is left. `Promised` leaves
  such operands out; without its clause on `cdiv`, `DividesInTime` is violated in
  `MCDivider`.
* *Branch bubble.* `FetchUnit.scala:15` and `scheduler.py:66` speak of one dead
  slot. Behind a taken branch at `a`, the bundles at `a+1` and `a+3` execute and
  `a+2` is dropped; `JUMP_BUBBLE = 3` hides it.
* *Relative branches.* Golden model (`golden_model.py:913`) and scheduler
  (`scheduler.py:1414`) count from the branch, and so does `SequentialCore`. The
  hardware adds the offset to the pc captured with the bundle
  (`VliwCore.scala:461`; `FlowEngine.scala:17` says `PC += signed_offset`), which
  is two further: it skips the first two bundles it should enter. The programs of
  `MCFetch` name the first of two empty bundles in front of the target
  (`LandingPadded`), which no tool does. With a program that names its target,
  `ExecutesInOrder` is violated.
* *Immediate width.* `DecodeUnit.scala:134` and the assembler keep ten bits
  whatever `imemDepth` is (`Immediates = 4`). In the kernel compiler the same
  ten bits cut strides and column offsets of 512 words and more
  (`tileweave.py:308`, `459`; a stride above 31 with `ImmBits = 6`).
* *Load during MDMVIN, load and store in one bundle* (`MemoryEngine!Liberties`),
  *two loads in one bundle* (`LoadSlots = 2`): a load takes the transfer's data,
  sees its own bundle's store, or is dropped.
* *A copy can be lost to a store.* A copy that starts in the cycle in which a
  queued store is popped never runs: both assign the state and the store wins.
  The run does not exclude it; it is the second disjunct of `CopyStarts`, which
  says that nothing else is lost and when.
* *Full instruction memory.* `HostInterface.scala:115` cuts a count of
  `imemDepth` to zero, and the loader reports DONE without loading
  (`Counts` with 4 in `MCHost.cfg`). *Retry after a timeout*: the loader still
  works on the first load and its DONE is taken for the second (drop `settled`).
  *Reset*: `coreReset` leaves `HostInterface` and is connected to nothing.
* *Scheduler tables end at a block and count bundle addresses.* A jump skips
  the padding behind a division; the back edge of a loop finds its divider
  busy; a load in one block and its use in the next have no barrier; results of
  different latency reach one register or one bank in the wrong order or
  together; one select whose three operands share a bank is accepted
  (`Covered`, `AllSingleCycle`, `racing` and the premise of `ReadsServed` leave
  these out). A barrier inserted behind HALT lands in HALT's bundle.
* *Division by zero.* The divider answers all ones and leaves the dividend; the
  golden model answers zero (`UnsignedDivider.scala:20` calls it undefined).
  `Promised` leaves it out: any word may be the answer.
* *Codec.* The third operand of a select loses its eleventh bit; an
  `EWIDTH_*` constant given as a width means another width; a matrix move
  reaches only 2048 words.
* *TileWeave.* A store mask on a program with a tail masks one lane of the tail;
  a load stored over its own source is read again for a second store; the
  golden function of the multi-matrix kernels probes the difference where the
  kernels store the affine word.

## Proofs

All theorems hold for every value of the constants that satisfies the named
assumptions of the module they are about (types, and sizes at least as large
as the code's structure needs).
The type invariants of `AluDivider`, `FetchPipeline`, `OperandPath` and
`ScratchAllocator` (no range leaves scratch memory) are theorems only; no run
repeats them.

* `FetchOrderProofs`. `FetchTypeCorrect` for all programs, the others under
  `Scheduled`, the contract kept by the scheduler. `SlotIsDue` is not inductive:
  that the EX slot holds the due bundle depends on what the fetched register,
  the memory's output and pc hold. `FetchInv` therefore describes the whole
  front end in terms of `due`: `Startup` is the first cycle of a run,
  `BranchCycle` the cycle after a taken branch (the one cycle in which a stall
  would fetch the wrong bundle; it cannot stall because the contract puts an
  empty bundle in EX and in decode), and `StraightCycle` every other one, with
  three shapes: slot and fetched bundle valid, slot bubbled, both empty after a
  branch or a start. Each action maps shapes to shapes. The same invariant gives
  `BranchesSeeTheirPc`, `MatrixHoldsNobody`, `TransfersComeFirst` and
  `EnginesDrained`.
  The second half of the module is `PipelineExecutesInOrder`, that the pipeline
  implements `SequentialCore`, for programs that pad their branches, whose relative
  branches land in front of two empty bundles, and an immediate field that
  reaches every address (`BranchesLand`). The abstract machine does not see
  empty bundles: it looks for the next bundle with work with a `CHOOSE`. `Skipped`
  says that only empty bundles lie between the place where the last bundle with
  work sent control (`Resume`) and `due.next`; `NextWorkIs` then evaluates the
  `CHOOSE`. The rest is arithmetic modulo the depth (`SameAddress`,
  `ImmediateIsEnough`).
* `OperandPathProofs`. Two facts first, for every program that waits for its
  loads (the barrier rule is part of `Spec`): types, and `OnlyAnswersMeet`, that
  when a bank is asked for two different writes in one cycle one of them is the
  answer of a load. The three properties are then proved of every behaviour in
  which no bank is asked for two (`[]OnePerBank`, the assumption of
  `BankedScratchMemory.scala:173`), so such a meeting is the only thing that can
  lose a write or spoil an operand.
  `SpecOnePerBank` gives a condition on programs that is enough for it: nothing
  writes to the bank of a load still out. The scheduler does not keep to it
  (`MCOperandsLost`).
  A reader's operand may be in its bank, in write-back, in the EX bundle that
  will write it, or on its way from a load, and the two forwarding paths look at
  addresses one and two cycles old. The invariant says what each register *will*
  hold once everything up to EX has taken effect (`AfterEx`) and follows that
  value: `MeantFollows` and `DecodeFollows` that this is what the bundles behind
  want, `SnapshotTaken` and `OperandsReady` that a held or a live operand is
  already that value, `LoadsApart` that a load still out is nobody's business,
  `CopyReady` and `CopyUnderWay` that the lanes still to be copied stay what they
  were, unless a CONST held behind the copy overwrites one or a vector operation
  in decode has the port: the two cases `CopiesAreMeant` names.
* `HostRunsProofs`, for programs that fit the count register (`CountsFit`; a full
  memory does not). Nothing tells the driver which command a status belongs to,
  so the invariant follows the call: `PulsesLast`, that a command's pulse takes
  effect in the very cycle in which the driver may begin to poll, and one
  conjunct per phase (`Preparing`, `Loading`, `Starting`) that says what the
  loader and the cores have done when a poll could be answered in it.
* `MemoryEngineProofs`, first half: types and the bounds of both queues for all programs
  (`CompletionsBounded`, `StoresBounded`). The completion queue's bound rests on
  `Countdown` and `JustCompleted` (entries are at least two cycles apart because a
  load occupies the load register before it completes), the store bound on
  `Counted`: the owed stores are those on the bus and in the queue.
  The second half is under `SafeOrder`: the barrier, the ownership of reads
  and the refinement of `MemoryContract`. `OrderInv` adds: a load that is not yet
  written is in the load register, young in the completion queue or in the
  write-back register (`OnItsWay`); the owed stores are exactly `cap` and the
  queue, in order (`Matched`); loads, stores and transfers are never in flight
  together in the ways that would break the answer (`Apart`); accepted reads
  belong to whom they should (`Asked`); and the value a load will return is
  always among those the contract allows (`Returnable`). `CopyStarts` needs only
  `Matched`: a copy finds the state machine idle, which then either starts it or
  takes the head of the queue, and that is the oldest store owed. It holds of
  copies right behind stores too.
* `ScheduleProofs`, first half: the placements of every program over any operations.
  Each property is a statement about pairs of placed operations, and a new
  operation is compared with tables, not with operations. The invariant ties
  the tables to the operations: `Behind` (the search never goes back, so program
  order is bundle order), `ReadyIsLast` (`reg_ready` is about the last writer),
  `SlotsFilled` (slots are filled from below, so a count of users is a slot
  number), `BusyKept`, `LabelsKnown`, and `LoadsAwaited` (a load of this block is
  pending or has its barrier). `Adds` names what every placement, of an
  operation or of a barrier, does to the placed operations, and one lemma per
  property shows it preserved by `Adds`. `VectorsReadAlone` holds for a reason
  that is in no single rule: a vector operation writes every bank
  (`LanesReachAll`), so it never joins a bundle with a write, a reader without a
  write moves the search on (`MovesOn`), and so does the vector operation.
  The second half is about the timed machine, for every program and every moment at
  which a load may land. The three theorems on values and units assume
  `UnitsKnown`: whatever a unit works on for longer than a cycle has a busy window
  and a latency in the scheduler's tables that are long enough. The code keeps to
  it except in vector divisions (`MCScheduleVector`). `RunAssumption` says what
  the constructors do: a result is one register or the lanes of one vector, no
  wider than the banks, and only jumps have targets. Fresh operands are not
  inductive: a stale register is harmless as long as its value is still under
  way. `RunInv` therefore says where values are. `Coherent`: a register nobody
  races for holds what program order wants, or a unit or the bus is about to
  bring it. `FlyOrigin` and `LoadOrigin`: what is under way goes back to a placed
  operation, as many bundles ago as cycles at most, and no bundle since writes
  its register or waits for it (`Issued`, `NotAwaited`). `Working`: what is left
  to a unit is its length minus the cycles since. An operation that reads a
  register under way would then be its first reader behind its last writer, at a
  distance that `RawRespected` forbids for a unit (nothing would be left to do)
  and `WaitsBetween` for a load (a wait has issued); one that meets a busy unit
  contradicts `SlotsExclusive` in the same way (`UnitsFree`). Three more facts
  about placements are needed than the contract states (`MovesApart`,
  `ReadyAfter`, `ReadersAfter`), among them that a bundle holds one pending load.
  For programs of single-cycle operations with jumps, `Single` is enough: nothing
  is ever under way, because the writes of a bundle go to different banks
  (`BundleApart`). `ReadsServed` needs no hypothesis: `FewReads` counts the reads
  of a bundle as it fills. `RunKeepsContract` carries the theorems about
  placements over to every run.
* `ScratchAllocatorProofs`: `AutoClearOfEarlier` follows from `AllBelowNext`: no
  range reaches beyond `nextAddr`, which explicit bases push up too.
  `VectorsAligned` needs `VectorRows`, that the alignment of a vector is a
  multiple of a row, and `AlignUpReaches`, the arithmetic of rounding up.

* `AluDividerProofs`, for words of any width and every schedule that keeps the
  slot free: the restoring divider implements `DivisionUnit`, which makes it a
  proof of the division algorithm. `Divided` is the loop invariant: after each
  iteration the dividend is a number `n` of the bits taken and a number `rest` of
  those to come (`Sofar`); `n` is divided, with `r` as its remainder and `quot` as
  its quotient, and `q` holds `rest` above `quot`. It does not hold without
  `RemainderFits`: a bit cut off by the shift would be lost. `Captured` says that destination, mode and divisor are
  still those of the operation asked, `InTime` that `counter` and `gap` count the
  same cycles, from which `SlotFree` follows. Powers of two are a recursive
  function; what is needed of it (`Pow2Defined`, `Pow2Sum`) is proved by
  induction in the form of a least counterexample (`SetInduction`), since an
  induction theorem with an operator for a parameter cannot be used.
* `BundleCodecProofs`, for any number of slots of each engine and every menu of
  operations that can be built (`CodecAssumption`). A slot is a list of fields
  that descend and do not overlap, so each field reads back what was packed
  (`PackField`), and every encoder is such a list. `Carries` says of an
  operation that its slot holds what it meant: the tables of the two sides agree
  (`OpcodesAgree`, `WidthsAgree`), the tails of a vector tuple are told apart
  (`ValuSlots`, the one proof that splits on what was left out), and a value
  below a power of two has no bits beyond its field (`Fits`). `SlotsApart` says that
  slots do not overlap, `SlotRead` that a field inside a slot of the bundle is
  therefore that field of the slot, `JoinedAgain` that the words joined again are
  the bundle, and `DecoderAgrees` that the decoder's walk meets the assembler's
  offsets. The invariant, `Held`, is that operations come from the menu and are
  no more than slots.

Only model-checked: the liveness properties (`EveryRunHalts`, `BundlesNeverHang`,
`CallsReturn`, `Halts`), which need fairness, and `KernelMachine`, whose
`ResultAsMeant` is about what recursive definitions compute, by induction over
the kernel's data, and uses bitwise operators; both are beyond the prover.

## Not modelled

* Floating point (FP8, FP32), packed and widening vector arithmetic, casts:
  pure data paths, which a numeric reference tests better.
* The matrix engine's sequencer in its cycles: `FetchPipeline` sees its busy
  signal, `KernelMachine` its result.
* Cycle counter, configuration read-outs and interrupt of the host interface;
  memory copies and read-outs of the driver.
* Configuration, plugins, Verilog generation, documentation, the test harness
  and the graph and layout layers of the DSL: elaboration, output and records.
* A second operation in the bundles of `OperandPath`, and `SCOPY_M2V`, which
  writes through the vector port.

## Plan

What a next version would add:

1. `Core`: `FetchPipeline`, `OperandPath` and `MemoryEngine` composed; the fetch
   side's assumptions on stalls (`Possible`) discharged by the engine; loads in
   flight at HALT.
2. `MatrixCompute`: the sequencer against a matrix product over bounded inputs.

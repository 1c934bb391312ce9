--------------------------- MODULE FetchPipeline ---------------------------
(***************************************************************************)
(* The instruction side of one VLIW core: the fetch unit (FetchUnit.scala),*)
(* its synchronous instruction memory (InstructionMemory.scala) and the EX *)
(* slot register of the core with everything that can hold or bubble it    *)
(* (VliwCore.scala).  One step of the specification is one clock cycle.    *)
(*                                                                         *)
(* A bundle is the control content of an instruction: what its flow slot   *)
(* does and which engine with a multi-cycle effect it starts.  Register    *)
(* numbers, operands and results are left out.  The engines are seen from  *)
(* the pipeline only: when they may stall it and when they become idle is  *)
(* an input of the cycle (MemoryEngine has a module of its own).           *)
(***************************************************************************)
EXTENDS Integers

CONSTANTS
  Depth,       \* cfg.imemDepth: number of bundles in the instruction memory
  Immediates,  \* number of values of the flow slot's immediate field
  Programs     \* the contents the host may load into the instruction memory

Addr == 0 .. Depth - 1

Inc(a) == IF a = Depth - 1 THEN 0 ELSE a + 1
Dec(a) == IF a = 0 THEN Depth - 1 ELSE a - 1

\* The flow slot: "cjump" and "cjumprel" are taken or not.  Target is what the
\* programmer asked for: the absolute address, the signed offset of a relative
\* jump, or the register an indirect jump reads.
Flows == {"none", "halt", "jump", "jumpind", "cjump", "cjumprel"}

\* The engine a bundle starts.  "load" and "store" go to the memory engine
\* (WAIT_FOR_LOAD behaves as "load" here: it can only stall), "scopy" is a
\* scratchpad copy, "compute" a matrix operation, "mdmvin"/"mdmvout" a matrix
\* transfer and "mdmvnil" one of zero elements.
Units == {"none", "alu", "load", "store", "scopy", "compute",
          "mdmvin", "mdmvout", "mdmvnil"}
MatrixUnits   == {"compute", "mdmvin", "mdmvout", "mdmvnil"}
TransferUnits == {"mdmvin", "mdmvout", "mdmvnil"}
StallingUnits == {"load", "store", "scopy"} \cup TransferUnits

Bundle == [flow : Flows, target : Int, unit : Units]

Nop == [flow |-> "none", target |-> 0, unit |-> "none"]

ASSUME FetchAssumption ==
  /\ Depth \in Nat /\ Depth >= 5
  /\ Immediates \in Nat \ {0}
  /\ Programs \subseteq [Addr -> Bundle]

VARIABLES
  imem,          \* contents of the instruction memory
  fstate,        \* FetchUnit.state
  pc,            \* FetchUnit.pc
  startupBubble, \* FetchUnit.startupBubble
  imemOut,       \* address whose bundle the memory's output register holds
  exBundle,      \* FetchUnit.exBundleReg, as the address it was read from
  exValid,       \* FetchUnit.exValidReg
  slot,          \* VliwCore.exSlotsReg: valid, bundle address, captured pc
  matrixBusy,    \* MatrixEngine.io.busy
  transfer,      \* matrix transfer in flight: "none", "in" (bypassable), "out"
  scopyBusy,     \* scratchpad copy in flight
  storeBusy      \* MemoryEngine.io.scalarStoreBusy

fetchVars  == <<fstate, pc, startupBubble, imemOut, exBundle, exValid>>
engineVars == <<matrixBusy, transfer, scopyBusy, storeBusy>>
vars       == <<imem, fetchVars, slot, engineVars>>

CoreStates == {"IDLE", "RUNNING", "HALT_DRAIN", "HALTED"}

\* What the surroundings decide in a cycle: a start pulse, a memory stall, a
\* scratch bank conflict of the bundle in decode, whether the condition of a
\* conditional jump holds, and which busy engines finish.
Input == [start : BOOLEAN, memStall : BOOLEAN, conflict : BOOLEAN,
          taken : BOOLEAN, done : SUBSET {"matrix", "transfer", "scopy", "store"}]

----------------------------------------------------------------------------
(* Combinational signals *)

EmptySlot == [valid |-> FALSE, at |-> 0, pc |-> 0]

SlotBundle == IF slot.valid THEN imem[slot.at] ELSE Nop

PipelineStall(e) == e.memStall \/ matrixBusy \/ transfer = "out"

EngineFire(e) == slot.valid /\ ~PipelineStall(e)

Halt(e) == EngineFire(e) /\ SlotBundle.flow = "halt"

JumpValid(e) ==
  /\ EngineFire(e)
  /\ \/ SlotBundle.flow \in {"jump", "jumpind"}
     \/ (SlotBundle.flow \in {"cjump", "cjumprel"} /\ e.taken)

\* What the encoded slot keeps of a target or an offset: ten bits, without sign.
Immediate == SlotBundle.target % Immediates

\* The relative jump adds its offset to the pc captured with the slot.
JumpTarget ==
  CASE SlotBundle.flow = "cjumprel" -> (slot.pc + Immediate) % Depth
    [] SlotBundle.flow = "jumpind"  -> SlotBundle.target % Depth
    [] OTHER                        -> Immediate % Depth

\* Mutant of DecodeValid: the bundle behind HALT is not suppressed.
DecodeValidUngated(e) == exValid

DecodeValid(e) == exValid /\ ~Halt(e)

DecodeBundle(e) == IF DecodeValid(e) THEN imem[exBundle] ELSE Nop

MatrixStart(e) == EngineFire(e) /\ SlotBundle.unit = "compute"

\* The memory engine's valid input is the slot's valid bit alone.
TransferStart(e) ==
  /\ slot.valid /\ ~e.memStall
  /\ SlotBundle.unit \in TransferUnits
  /\ transfer = "none"

\* Mutant of MatrixLoadWait: a second transfer does not wait for the first.
MatrixLoadWaitCompute(e) ==
  transfer = "in" /\ DecodeBundle(e).unit = "compute"

MatrixLoadWait(e) ==
  transfer = "in" /\ DecodeBundle(e).unit \in MatrixUnits

\* Mutant of MemBusy: pending stores are forgotten.
MemBusyTransfers == transfer # "none"

MemBusy == storeBusy \/ transfer # "none"

FetchStall(e) ==
  \/ e.memStall
  \/ matrixBusy
  \/ MatrixStart(e)
  \/ TransferStart(e)
  \/ transfer = "out"
  \/ MatrixLoadWait(e)
  \/ e.conflict

\* The memory engine stalls only a bundle that uses it, and everything during
\* a scratchpad copy; it must stall a copy while a transfer runs, and a
\* transfer while stores are pending.  A bundle without an engine operation
\* reads no scratch bank twice.
Possible(e) ==
  /\ e.memStall => scopyBusy \/ SlotBundle.unit \in StallingUnits
  /\ scopyBusy => e.memStall
  /\ SlotBundle.unit = "scopy" /\ transfer # "none" => e.memStall
  /\ SlotBundle.unit \in TransferUnits /\ storeBusy => e.memStall
  /\ e.conflict => DecodeBundle(e).unit # "none"
  /\ "matrix" \in e.done => matrixBusy
  /\ "transfer" \in e.done => transfer # "none"
  /\ "scopy" \in e.done => scopyBusy
  /\ "store" \in e.done => storeBusy

----------------------------------------------------------------------------
(* FetchUnit *)

Starting(e) == e.start /\ fstate \in {"IDLE", "HALTED"}

\* Mutant of CoreState: the end of a drain is looked for at a HALT only.
CoreStateNoDrain(e) ==
  fstate' = CASE Starting(e)                       -> "RUNNING"
              [] fstate = "RUNNING" /\ Halt(e)     ->
                   IF MemBusy THEN "HALT_DRAIN" ELSE "HALTED"
              [] fstate = "HALT_DRAIN" /\ ~MemBusy /\ Halt(e) -> "HALTED"
              [] OTHER                             -> fstate

CoreState(e) ==
  fstate' = CASE Starting(e)                       -> "RUNNING"
              [] fstate = "RUNNING" /\ Halt(e)     ->
                   IF MemBusy THEN "HALT_DRAIN" ELSE "HALTED"
              [] fstate = "HALT_DRAIN" /\ ~MemBusy -> "HALTED"
              [] OTHER                             -> fstate

\* A start resets pc.  Whenever exValid is FALSE the content of exBundleReg
\* does not matter: the zero a jump writes into it is left out.
StartFetch(e) ==
  /\ Starting(e)
  /\ pc' = 0
  /\ startupBubble' = TRUE
  /\ exValid' = (exValid /\ FetchStall(e))
  /\ UNCHANGED exBundle

HoldFetch(e) ==
  /\ ~Starting(e)
  /\ FetchStall(e)
  /\ UNCHANGED <<pc, startupBubble, exBundle, exValid>>

StartupCycle(e) ==
  /\ fstate = "RUNNING" /\ ~FetchStall(e) /\ startupBubble
  /\ startupBubble' = FALSE
  /\ exValid' = FALSE
  /\ pc' = Inc(pc)
  /\ UNCHANGED exBundle

TakeJump(e) ==
  /\ fstate = "RUNNING" /\ ~FetchStall(e) /\ ~startupBubble
  /\ JumpValid(e)
  /\ pc' = JumpTarget
  /\ exValid' = FALSE
  /\ UNCHANGED <<startupBubble, exBundle>>

TakeHalt(e) ==
  /\ fstate = "RUNNING" /\ ~FetchStall(e) /\ ~startupBubble
  /\ Halt(e)
  /\ exValid' = FALSE
  /\ UNCHANGED <<pc, startupBubble, exBundle>>

CaptureBundle(e) ==
  /\ fstate = "RUNNING" /\ ~FetchStall(e) /\ ~startupBubble
  /\ ~JumpValid(e) /\ ~Halt(e)
  /\ exBundle' = imemOut
  /\ exValid' = TRUE
  /\ pc' = Inc(pc)
  /\ UNCHANGED startupBubble

StoppedCycle(e) ==
  /\ fstate # "RUNNING" /\ ~Starting(e) /\ ~FetchStall(e)
  /\ exValid' = FALSE
  /\ UNCHANGED <<pc, startupBubble, exBundle>>

\* Mutant of ImemAddr: a stalled fetch reads on.
ImemAddrNoReplay(e) == pc

\* The memory reads every cycle; a stalled fetch reads the same bundle again.
ImemAddr(e) == IF FetchStall(e) THEN Dec(pc) ELSE pc

FetchUnit(e) ==
  /\ CoreState(e)
  /\ imemOut' = ImemAddr(e)
  /\ \/ StartFetch(e)
     \/ HoldFetch(e)
     \/ StartupCycle(e)
     \/ TakeJump(e)
     \/ TakeHalt(e)
     \/ CaptureBundle(e)
     \/ StoppedCycle(e)

----------------------------------------------------------------------------
(* The EX slot register and the engines as the pipeline sees them *)

\* Mutant of BubbleSlot: a matrix operation does not consume its bundle.
BubbleSlotTransfers(e) ==
  \/ TransferStart(e)
  \/ (~PipelineStall(e) /\ (MatrixLoadWait(e) \/ e.conflict))

\* A later assignment wins: a start pulse consumes the slot even when it is
\* held.  An invalid slot's other fields do not matter and are normalised.
BubbleSlot(e) ==
  \/ MatrixStart(e) \/ TransferStart(e)
  \/ (~PipelineStall(e) /\ (MatrixLoadWait(e) \/ e.conflict))

\* Mutant of SlotRegister: the captured pc follows the fetch unit.
SlotRegisterLivePc(e) ==
  slot' = CASE BubbleSlot(e)      -> EmptySlot
            [] ~BubbleSlot(e) /\ PipelineStall(e) -> [slot EXCEPT !.pc = pc]
            [] OTHER              ->
                 IF DecodeValid(e)
                 THEN [valid |-> TRUE, at |-> exBundle, pc |-> pc]
                 ELSE EmptySlot

SlotRegister(e) ==
  slot' = CASE BubbleSlot(e)      -> EmptySlot
            [] ~BubbleSlot(e) /\ PipelineStall(e) -> slot
            [] OTHER              ->
                 IF DecodeValid(e)
                 THEN [valid |-> TRUE, at |-> exBundle, pc |-> pc]
                 ELSE EmptySlot

Issues(e, unit) == slot.valid /\ ~e.memStall /\ SlotBundle.unit = unit

Engines(e) ==
  /\ matrixBusy' = (MatrixStart(e) \/ (matrixBusy /\ "matrix" \notin e.done))
  /\ transfer' = IF TransferStart(e)
                 THEN CASE SlotBundle.unit = "mdmvin"  -> "in"
                        [] SlotBundle.unit = "mdmvout" -> "out"
                        [] OTHER                       -> transfer
                 ELSE IF "transfer" \in e.done THEN "none" ELSE transfer
  /\ scopyBusy' = (Issues(e, "scopy") \/ (scopyBusy /\ "scopy" \notin e.done))
  /\ storeBusy' = (Issues(e, "store") \/ (storeBusy /\ "store" \notin e.done))

----------------------------------------------------------------------------
Init ==
  /\ imem \in Programs
  /\ fstate = "IDLE"
  /\ pc = 0
  /\ startupBubble = FALSE
  /\ imemOut \in Addr
  /\ exBundle = 0
  /\ exValid = FALSE
  /\ slot = EmptySlot
  /\ matrixBusy = FALSE
  /\ transfer = "none"
  /\ scopyBusy = FALSE
  /\ storeBusy = FALSE

Cycle(e) ==
  /\ Possible(e)
  /\ FetchUnit(e)
  /\ SlotRegister(e)
  /\ Engines(e)
  /\ UNCHANGED imem

\* The host writes the memory through its second port.  It does so between
\* runs, when no bundle of the old program is left in the pipeline.
LoadProgram ==
  /\ fstate \in {"IDLE", "HALTED"}
  /\ ~exValid /\ ~slot.valid
  /\ imem' \in Programs
  /\ UNCHANGED <<fetchVars, slot, engineVars>>

Next == LoadProgram \/ \E e \in Input : Cycle(e)

Spec == Init /\ [][Next]_vars

TypeOK ==
  /\ imem \in Programs
  /\ fstate \in CoreStates
  /\ pc \in Addr
  /\ startupBubble \in BOOLEAN
  /\ imemOut \in Addr
  /\ exBundle \in Addr
  /\ exValid \in BOOLEAN
  /\ slot \in [valid : BOOLEAN, at : Addr, pc : Addr]
  /\ matrixBusy \in BOOLEAN
  /\ transfer \in {"none", "in", "out"}
  /\ scopyBusy \in BOOLEAN
  /\ storeBusy \in BOOLEAN
=============================================================================

------------------------- MODULE FetchOrderProofs --------------------------
(***************************************************************************)
(* For every size of the instruction memory and every set of programs that *)
(* keep the scheduler's contract: bundles reach EX in the order in which   *)
(* they are due, and no engine that is busy ever overlaps a bundle that    *)
(* must not see it busy.  In the second part, the pipeline implements      *)
(* sequential execution.  The mapping observes bundles with work only, so  *)
(* beside the order of all bundles that needs where the last of them sent  *)
(* control and that nothing but empty bundles lies between there and the   *)
(* bundle due next.                                                        *)
(***************************************************************************)
EXTENDS FetchOrder, TLAPS

----------------------------------------------------------------------------
(* The inductive invariant *)

HistTypeOK ==
  /\ active \in BOOLEAN
  /\ due \in [next : Addr, shadow : 0 .. 2, from : Addr]

\* A run is active exactly while the fetch unit is RUNNING; outside a run the
\* pipeline is empty and the engines a HALT cannot overtake are idle.
Running ==
  /\ active <=> fstate = "RUNNING"
  /\ ~active => ~slot.valid /\ ~exValid /\ ~startupBubble
  /\ ~active => ~matrixBusy /\ ~scopyBusy
  /\ fstate \in {"IDLE", "HALTED"} => ~storeBusy /\ transfer = "none"

\* In the first cycle of a run nothing has been fetched.
Startup ==
  startupBubble =>
    /\ ~slot.valid /\ ~exValid /\ pc = 0
    /\ due.next = 0 /\ due.shadow = 0

\* The cycle after a taken branch: one delay slot is in EX, the bundle behind
\* it was dropped, the second delay slot is on the memory's output.  Nothing
\* can stall this cycle: a stall would fetch the bundle before the target.
BranchCycle ==
  /\ due.shadow = 2
  /\ ~scopyBusy
  /\ slot.valid /\ slot.at = Inc(due.from) /\ imem[slot.at] = Nop
  /\ ~exValid
  /\ imemOut = Inc(Inc(Inc(due.from))) /\ imem[imemOut] = Nop
  /\ pc = due.next

\* Any other cycle of a run: the slot, the fetched bundle and the memory's
\* output hold the next bundles due, and the output is one behind pc.
StraightCycle ==
  /\ due.shadow \in {0, 1}
  /\ imemOut = Dec(pc)
  /\ due.shadow = 1 => imem[Inc(Inc(Inc(due.from)))] = Nop
  /\ \/ /\ slot.valid /\ slot.at = Expected
        /\ exValid
        /\ due.shadow = 0 => exBundle = Inc(due.next) /\ imemOut = Inc(Inc(due.next))
        /\ due.shadow = 1 => exBundle = due.next /\ imemOut = Inc(due.next)
     \/ /\ ~slot.valid
        /\ exValid /\ exBundle = Expected
        /\ due.shadow = 0 => imemOut = Inc(due.next)
        /\ due.shadow = 1 => imemOut = due.next
     \/ /\ ~slot.valid /\ ~exValid
        /\ due.shadow = 0 /\ imemOut = due.next

Order == active /\ ~startupBubble => BranchCycle \/ StraightCycle

Engagement ==
  /\ NoBundleHeldByMatrix
  /\ MatrixWaitsForTransfer
  /\ BranchPcIsTwoAhead

FetchInv ==
  /\ TypeOK
  /\ HistTypeOK
  /\ Running
  /\ Startup
  /\ Order
  /\ Engagement

----------------------------------------------------------------------------
(* Addresses and programs *)

LEMMA IncDec ==
  ASSUME NEW a \in Addr
  PROVE  /\ Inc(a) \in Addr /\ Dec(a) \in Addr
         /\ Dec(Inc(a)) = a /\ Inc(Dec(a)) = a
BY FetchAssumption DEF Inc, Dec, Addr

LEMMA ModAddr ==
  ASSUME NEW t \in Int
  PROVE  t % Depth \in Addr
BY FetchAssumption DEF Addr

LEMMA SlotBundleType ==
  ASSUME TypeOK
  PROVE  /\ SlotBundle \in Bundle
         /\ \A a \in Addr : imem[a] \in Bundle
         /\ 0 \in Addr
<1>1. Nop \in Bundle
  BY DEF Nop, Bundle, Flows, Units
<1>2. \A a \in Addr : imem[a] \in Bundle
  BY FetchAssumption DEF TypeOK
<1>3. slot.at \in Addr
  BY DEF TypeOK
<1>4. 0 \in Addr
  BY FetchAssumption DEF Addr
<1> QED
  BY <1>1, <1>2, <1>3, <1>4 DEF SlotBundle

LEMMA JumpTargetType ==
  ASSUME TypeOK
  PROVE  JumpTarget \in Addr
<1>1. slot.pc \in Int /\ SlotBundle.target \in Int
  BY SlotBundleType, FetchAssumption DEF TypeOK, Addr, Bundle
<1>2. Immediate \in Int
  BY <1>1, FetchAssumption DEF Immediate
<1>3. /\ (slot.pc + Immediate) % Depth \in Addr
      /\ SlotBundle.target % Depth \in Addr
      /\ Immediate % Depth \in Addr
  BY <1>1, <1>2, ModAddr
<1> QED
  BY <1>3 DEF JumpTarget

\* What the scheduler's contract says of the bundle in EX.
LEMMA SlotContract ==
  ASSUME TypeOK, Scheduled, slot.valid
  PROVE  /\ SlotBundle = imem[slot.at]
         /\ SlotBundle.flow \in Branches =>
               /\ SlotBundle.unit \in {"none", "alu"}
               /\ imem[Inc(slot.at)] = Nop
               /\ imem[Inc(Inc(Inc(slot.at)))] = Nop
         /\ SlotBundle.flow = "halt" => SlotBundle.unit = "none"
<1>1. SlotBundle = imem[slot.at] /\ slot.at \in Addr /\ imem \in Programs
  BY DEF SlotBundle, TypeOK
<1> QED
  BY <1>1 DEF Scheduled, BranchPadded, HaltAlone

----------------------------------------------------------------------------
(* Type correctness *)

LEMMA CycleType ==
  ASSUME TypeOK, NEW e \in Input, Cycle(e)
  PROVE  TypeOK'
<1> USE DEF TypeOK
<1>1. imem' \in Programs
  BY DEF Cycle
<1>2. fstate' \in CoreStates
  BY DEF Cycle, FetchUnit, ImemAddr, CoreState, CoreStates
<1>3. imemOut' \in Addr
  BY IncDec DEF Cycle, FetchUnit, ImemAddr
<1>4. /\ pc' \in Addr /\ startupBubble' \in BOOLEAN
      /\ exBundle' \in Addr /\ exValid' \in BOOLEAN
  <2>1. StartFetch(e) \/ HoldFetch(e) \/ StartupCycle(e) \/ TakeJump(e)
        \/ TakeHalt(e) \/ CaptureBundle(e) \/ StoppedCycle(e)
    BY DEF Cycle, FetchUnit, ImemAddr
  <2>2. 0 \in Addr /\ Inc(pc) \in Addr /\ JumpTarget \in Addr
    BY SlotBundleType, IncDec, JumpTargetType
  <2> QED
    BY <2>1, <2>2 DEF StartFetch, HoldFetch, StartupCycle, TakeJump,
                      TakeHalt, CaptureBundle, StoppedCycle
<1>5. slot' \in [valid : BOOLEAN, at : Addr, pc : Addr]
  BY SlotBundleType DEF Cycle, SlotRegister, EmptySlot
<1>6. /\ matrixBusy' \in BOOLEAN /\ transfer' \in {"none", "in", "out"}
      /\ scopyBusy' \in BOOLEAN /\ storeBusy' \in BOOLEAN
  BY DEF Cycle, Engines
<1> QED
  BY <1>1, <1>2, <1>3, <1>4, <1>5, <1>6

THEOREM FetchTypeCorrect == Spec => []TypeOK
<1>1. Init => TypeOK
  <2>1. 0 \in Addr
    BY FetchAssumption DEF Addr
  <2>2. EmptySlot \in [valid : BOOLEAN, at : Addr, pc : Addr]
    BY <2>1 DEF EmptySlot
  <2> QED
    BY <2>1, <2>2 DEF Init, TypeOK, CoreStates
<1>2. TypeOK /\ [Next]_vars => TypeOK'
  <2> SUFFICES ASSUME TypeOK, [Next]_vars PROVE TypeOK'
    OBVIOUS
  <2>1. CASE LoadProgram
    BY <2>1 DEF LoadProgram, TypeOK, fetchVars, engineVars
  <2>2. ASSUME NEW e \in Input, Cycle(e) PROVE TypeOK'
    BY <2>2, CycleType
  <2>3. CASE UNCHANGED vars
    BY <2>3 DEF vars, fetchVars, engineVars, TypeOK
  <2> QED
    BY <2>1, <2>2, <2>3 DEF Next
<1> QED
  BY <1>1, <1>2, PTL DEF Spec

----------------------------------------------------------------------------
(* Branches and HALT are never hindered *)

\* When a branch is taken no stall and no bubble is active, so neither the
\* branch nor its first delay slot is lost.
LEMMA BranchUnhindered ==
  ASSUME FetchInv, Scheduled, NEW e \in Input, Possible(e), JumpValid(e)
  PROVE  /\ ~FetchStall(e) /\ ~BubbleSlot(e) /\ ~PipelineStall(e)
         /\ ~Halt(e) /\ DecodeValid(e)
         /\ active /\ ~startupBubble
         /\ due.shadow = 0 /\ slot.at = due.next /\ slot.valid
         /\ exBundle = Inc(due.next) /\ imemOut = Inc(Inc(due.next))
         /\ imemOut = Dec(pc)
         /\ imem[exBundle] = Nop
<1>1. /\ slot.valid /\ ~PipelineStall(e)
      /\ SlotBundle.flow \in Branches
  BY DEF JumpValid, EngineFire, Branches
<1>2. /\ SlotBundle = imem[slot.at]
      /\ SlotBundle.unit \in {"none", "alu"}
      /\ imem[Inc(slot.at)] = Nop
  BY <1>1, SlotContract DEF FetchInv
<1>3. active /\ ~startupBubble
  BY <1>1 DEF FetchInv, Running, Startup
<1>4. Nop.flow \notin Branches
  BY DEF Nop, Branches
<1>5. /\ due.shadow = 0 /\ slot.at = due.next
      /\ exValid /\ exBundle = Inc(due.next) /\ imemOut = Inc(Inc(due.next))
      /\ imemOut = Dec(pc)
  <2>1. BranchCycle \/ StraightCycle
    BY <1>3 DEF FetchInv, Order
  <2>2. ~BranchCycle
    BY <1>1, <1>2, <1>4 DEF BranchCycle
  <2>3. due.shadow # 1
    BY <1>1, <1>2, <1>4, <2>1, <2>2 DEF StraightCycle, Expected
  <2> QED
    BY <1>1, <2>1, <2>2, <2>3 DEF StraightCycle, Expected
<1>6. ~Halt(e)
  BY <1>1 DEF Halt, Branches
<1>7. DecodeValid(e) /\ DecodeBundle(e) = Nop /\ imem[exBundle] = Nop
  BY <1>2, <1>5, <1>6 DEF DecodeValid, DecodeBundle
<1>8. ~e.memStall /\ ~matrixBusy /\ transfer # "out"
  BY <1>1 DEF PipelineStall
<1>9. ~MatrixStart(e) /\ ~TransferStart(e)
  BY <1>2 DEF MatrixStart, TransferStart, TransferUnits
<1>10. ~MatrixLoadWait(e) /\ ~e.conflict
  BY <1>7 DEF MatrixLoadWait, MatrixUnits, Nop, Possible
<1> QED
  BY <1>1, <1>3, <1>5, <1>6, <1>7, <1>8, <1>9, <1>10 DEF FetchStall, BubbleSlot

\* When HALT fires nothing stalls and the bundle behind it is suppressed.
LEMMA HaltUnhindered ==
  ASSUME FetchInv, Scheduled, NEW e \in Input, Possible(e), Halt(e)
  PROVE  /\ ~FetchStall(e) /\ ~DecodeValid(e) /\ ~JumpValid(e)
         /\ active /\ ~startupBubble /\ ~scopyBusy /\ ~matrixBusy
         /\ SlotBundle.unit = "none"
<1>1. slot.valid /\ ~PipelineStall(e) /\ SlotBundle.flow = "halt"
  BY DEF Halt, EngineFire
<1>2. SlotBundle.unit = "none"
  BY <1>1, SlotContract DEF FetchInv
<1>3. active /\ ~startupBubble
  BY <1>1 DEF FetchInv, Running, Startup
<1>4. ~DecodeValid(e) /\ DecodeBundle(e) = Nop /\ ~JumpValid(e)
  BY <1>1 DEF DecodeValid, DecodeBundle, JumpValid
<1>5. ~e.memStall /\ ~matrixBusy /\ transfer # "out"
  BY <1>1 DEF PipelineStall
<1>6. ~MatrixStart(e) /\ ~TransferStart(e)
  BY <1>2 DEF MatrixStart, TransferStart, TransferUnits
<1>7. ~MatrixLoadWait(e) /\ ~e.conflict
  BY <1>4 DEF MatrixLoadWait, MatrixUnits, Nop, Possible
<1>8. ~scopyBusy
  BY <1>5 DEF Possible
<1> QED
  BY <1>2, <1>3, <1>4, <1>5, <1>6, <1>7, <1>8 DEF FetchStall

----------------------------------------------------------------------------
(* One cycle preserves the invariant, part by part *)

LEMMA CycleHistType ==
  ASSUME FetchInv, NEW e \in Input, Cycle(e), Observe(e)
  PROVE  HistTypeOK'
<1>1. 0 \in Addr /\ JumpTarget \in Addr /\ slot.at \in Addr /\ Inc(due.next) \in Addr
  BY SlotBundleType, JumpTargetType, IncDec DEF FetchInv, TypeOK, HistTypeOK
<1>2. CASE BeginRun
  <2>1. active' = TRUE /\ due' = [next |-> 0, shadow |-> 0, from |-> 0]
    BY <1>2 DEF BeginRun
  <2>2. 0 \in 0 .. 2
    OBVIOUS
  <2> QED
    BY <1>1, <2>1, <2>2 DEF HistTypeOK
<1>3. CASE Fire(e)
  <2>1. active' \in BOOLEAN
    BY <1>3 DEF Fire
  <2>2. due' \in [next : Addr, shadow : 0 .. 2, from : Addr]
    BY <1>1, <1>3 DEF Fire, FetchInv, HistTypeOK
  <2> QED
    BY <2>1, <2>2 DEF HistTypeOK
<1>4. CASE UNCHANGED histVars
  BY <1>4 DEF histVars, FetchInv, HistTypeOK
<1> QED
  BY <1>2, <1>3, <1>4 DEF Observe

LEMMA CycleRunning ==
  ASSUME FetchInv, Scheduled, NEW e \in Input, Cycle(e), Observe(e)
  PROVE  Running'
<1> USE DEF Cycle
<1>1. CASE Starting(e)
  <2>1. fstate' = "RUNNING" /\ active' = TRUE
    <3>1. fstate \in {"IDLE", "HALTED"}
      BY <1>1 DEF Starting
    <3> QED
      BY <1>1, <3>1 DEF FetchUnit, ImemAddr, CoreState, Observe, BeginRun
  <2> QED
    BY <2>1 DEF Running
<1>2. CASE ~Starting(e) /\ Halt(e)
  <2>1. /\ active /\ ~startupBubble /\ ~DecodeValid(e) /\ ~FetchStall(e)
        /\ ~scopyBusy /\ ~matrixBusy /\ SlotBundle.unit = "none" /\ ~JumpValid(e)
    BY <1>2, HaltUnhindered
  <2>2. EngineFire(e) /\ ~active'
    BY <1>2 DEF Halt, Observe, Fire
  <2>3. fstate = "RUNNING" /\ fstate' = IF MemBusy THEN "HALT_DRAIN" ELSE "HALTED"
    BY <1>2, <2>1 DEF FetchInv, Running, FetchUnit, ImemAddr, CoreState
  <2>4. ~exValid' /\ ~startupBubble'
    BY <1>2, <2>1, <2>3 DEF FetchUnit, ImemAddr, StartFetch, HoldFetch, StartupCycle,
                  TakeJump, TakeHalt, CaptureBundle, StoppedCycle
  <2>5. ~slot'.valid
    BY <2>1, <2>2 DEF SlotRegister, EmptySlot, EngineFire
  <2>6. ~matrixBusy' /\ ~scopyBusy' /\ storeBusy' = (storeBusy /\ "store" \notin e.done)
        /\ transfer' \in {transfer, "none"}
    BY <2>1 DEF Engines, MatrixStart, Issues, TransferStart, TransferUnits
  <2> QED
    BY <2>2, <2>3, <2>4, <2>5, <2>6 DEF Running, MemBusy
<1>3. CASE ~Starting(e) /\ ~Halt(e) /\ active
  <2>1. active' /\ fstate' = "RUNNING"
    BY <1>3 DEF Observe, Fire, histVars, FetchInv, Running, FetchUnit, ImemAddr, CoreState
  <2> QED
    BY <2>1 DEF Running
<1>4. CASE ~Starting(e) /\ ~active
  <2>1. /\ fstate # "RUNNING" /\ ~slot.valid /\ ~exValid /\ ~startupBubble
        /\ ~matrixBusy /\ ~scopyBusy
        /\ fstate \in {"IDLE", "HALTED"} => ~storeBusy /\ transfer = "none"
    BY <1>4 DEF FetchInv, Running
  <2>2. ~EngineFire(e) /\ ~DecodeValid(e) /\ ~Halt(e)
    BY <2>1 DEF EngineFire, DecodeValid, Halt
  <2>3. active' = active
    BY <1>4, <2>2 DEF Observe, histVars
  <2>4. ~exValid' /\ ~startupBubble'
    BY <1>4, <2>1 DEF FetchUnit, ImemAddr, StartFetch, HoldFetch, StartupCycle,
                  TakeJump, TakeHalt, CaptureBundle, StoppedCycle
  <2>5. ~slot'.valid
    BY <2>1, <2>2 DEF SlotRegister, EmptySlot
  <2>6. /\ ~matrixBusy' /\ ~scopyBusy'
        /\ storeBusy' = (storeBusy /\ "store" \notin e.done)
        /\ transfer' \in {transfer, "none"}
    BY <2>1, <2>2 DEF Engines, MatrixStart, Issues, TransferStart
  <2>7. fstate' = IF fstate = "HALT_DRAIN" /\ ~MemBusy THEN "HALTED" ELSE fstate
    BY <1>4, <2>1 DEF FetchUnit, ImemAddr, CoreState
  <2> QED
    BY <1>4, <2>1, <2>3, <2>4, <2>5, <2>6, <2>7 DEF Running, MemBusy
<1> QED
  BY <1>1, <1>2, <1>3, <1>4

LEMMA CycleEngagement ==
  ASSUME FetchInv, Scheduled, NEW e \in Input, Cycle(e)
  PROVE  (NoBundleHeldByMatrix /\ MatrixWaitsForTransfer)'
<1> USE DEF Cycle
<1>0. imem' = imem
  OBVIOUS
<1>1. CASE BubbleSlot(e)
  BY <1>1 DEF SlotRegister, EmptySlot, NoBundleHeldByMatrix, MatrixWaitsForTransfer
<1>2. CASE ~BubbleSlot(e) /\ PipelineStall(e)
  <2>1. slot' = slot /\ ~MatrixStart(e) /\ ~TransferStart(e)
    BY <1>2 DEF SlotRegister, BubbleSlot
  <2>2. (matrixBusy' => matrixBusy) /\ transfer' \in {transfer, "none"}
    BY <2>1 DEF Engines
  <2> QED
    BY <1>0, <2>1, <2>2 DEF FetchInv, Engagement, NoBundleHeldByMatrix,
                       MatrixWaitsForTransfer, SlotBundle
<1>3. CASE ~BubbleSlot(e) /\ ~PipelineStall(e)
  <2>1. ~MatrixStart(e) /\ ~TransferStart(e) /\ ~MatrixLoadWait(e)
        /\ ~matrixBusy /\ transfer # "out"
    BY <1>3 DEF BubbleSlot, PipelineStall
  <2>2. ~matrixBusy' /\ transfer' \in {transfer, "none"}
    BY <2>1 DEF Engines
  <2>3. slot' = IF DecodeValid(e) THEN [valid |-> TRUE, at |-> exBundle, pc |-> pc]
                                  ELSE EmptySlot
    BY <1>3 DEF SlotRegister
  <2>4. CASE ~DecodeValid(e)
    BY <2>3, <2>4 DEF EmptySlot, NoBundleHeldByMatrix, MatrixWaitsForTransfer
  <2>5. CASE DecodeValid(e)
    <3>1. SlotBundle' = DecodeBundle(e)
      BY <1>0, <2>3, <2>5 DEF SlotBundle, DecodeBundle
    <3>2. SlotBundle'.unit \in MatrixUnits => transfer # "in"
      BY <2>1, <3>1 DEF MatrixLoadWait
    <3>3. transfer \in {"none", "in"}
      BY <2>1 DEF FetchInv, TypeOK
    <3> QED
      BY <2>1, <2>2, <3>2, <3>3 DEF NoBundleHeldByMatrix, MatrixWaitsForTransfer
  <2> QED
    BY <2>4, <2>5
<1> QED
  BY <1>1, <1>2, <1>3

LEMMA CycleStartup ==
  ASSUME FetchInv, Scheduled, NEW e \in Input, Cycle(e), Observe(e)
  PROVE  Startup'
<1> USE DEF Cycle
<1>1. CASE Starting(e)
  <2>1. ~slot.valid /\ ~exValid /\ fstate # "RUNNING"
    BY <1>1 DEF Starting, FetchInv, Running
  <2>2. ~slot'.valid
    BY <2>1 DEF SlotRegister, EmptySlot, DecodeValid
  <2>3. pc' = 0 /\ ~exValid'
    BY <1>1, <2>1 DEF FetchUnit, ImemAddr, StartFetch, HoldFetch, StartupCycle,
                  TakeJump, TakeHalt, CaptureBundle, StoppedCycle
  <2>4. due' = [next |-> 0, shadow |-> 0, from |-> 0]
    BY <1>1 DEF Observe, BeginRun
  <2> QED
    BY <2>2, <2>3, <2>4 DEF Startup
<1>2. CASE ~Starting(e) /\ ~startupBubble
  <2>1. ~startupBubble'
    BY <1>2 DEF FetchUnit, ImemAddr, StartFetch, HoldFetch, StartupCycle,
                TakeJump, TakeHalt, CaptureBundle, StoppedCycle
  <2> QED
    BY <2>1 DEF Startup
<1>3. CASE ~Starting(e) /\ startupBubble
  <2>1. ~slot.valid /\ ~exValid /\ pc = 0 /\ due.next = 0 /\ due.shadow = 0
        /\ fstate = "RUNNING"
    BY <1>3 DEF FetchInv, Startup, Running
  <2>2. ~slot'.valid
    BY <2>1 DEF SlotRegister, EmptySlot, DecodeValid
  <2>3. startupBubble' => pc' = pc /\ exValid' = exValid
    BY <1>3, <2>1 DEF FetchUnit, ImemAddr, StartFetch, HoldFetch, StartupCycle,
                  TakeJump, TakeHalt, CaptureBundle, StoppedCycle
  <2>4. due' = due
    BY <1>3, <2>1 DEF Observe, EngineFire, histVars
  <2> QED
    BY <2>1, <2>2, <2>3, <2>4 DEF Startup
<1> QED
  BY <1>1, <1>2, <1>3

\* A fetch stall that does not hold the EX slot bubbles it.
LEMMA StallHoldsOrBubbles ==
  ASSUME NEW e \in Input, FetchStall(e), ~BubbleSlot(e)
  PROVE  PipelineStall(e)
BY DEF FetchStall, BubbleSlot, PipelineStall

\* A bubble overwrites only a bundle that fires in the same cycle.
LEMMA BubbleMeansFired ==
  ASSUME FetchInv, NEW e \in Input, BubbleSlot(e), slot.valid
  PROVE  EngineFire(e)
<1>1. ~matrixBusy /\ transfer # "out"
  BY DEF FetchInv, Engagement, NoBundleHeldByMatrix
<1> QED
  BY <1>1 DEF BubbleSlot, MatrixStart, TransferStart, EngineFire, PipelineStall

LEMMA CycleBranchPc ==
  ASSUME FetchInv, Scheduled, NEW e \in Input, Cycle(e), Observe(e)
  PROVE  BranchPcIsTwoAhead'
<1> USE DEF Cycle
<1>1. imem' = imem
  OBVIOUS
<1>2. CASE slot' = EmptySlot
  BY <1>2 DEF BranchPcIsTwoAhead, EmptySlot
<1>3. CASE slot' = slot
  BY <1>1, <1>3 DEF FetchInv, Engagement, BranchPcIsTwoAhead, SlotBundle
<1>4. CASE slot' = [valid |-> TRUE, at |-> exBundle, pc |-> pc] /\ DecodeValid(e)
  <2>1. active /\ ~startupBubble /\ exValid
    BY <1>4 DEF DecodeValid, FetchInv, Running, Startup
  <2>2. StraightCycle
    BY <2>1 DEF FetchInv, Order, BranchCycle
  <2>3. SlotBundle' = imem[exBundle]
    BY <1>1, <1>4 DEF SlotBundle
  <2>4. Nop.flow \notin Branches
    BY DEF Nop, Branches
  <2>5. pc = Inc(imemOut)
    BY <2>2, IncDec DEF StraightCycle, FetchInv, TypeOK
  <2>6. imem[exBundle].flow \in Branches => imemOut = Inc(exBundle)
    BY <2>1, <2>2, <2>4 DEF StraightCycle, Expected
  <2> QED
    BY <1>4, <2>3, <2>5, <2>6 DEF BranchPcIsTwoAhead
<1> QED
  BY <1>2, <1>3, <1>4 DEF SlotRegister

----------------------------------------------------------------------------
(* The order of the bundles in the pipeline *)

\* A taken branch is followed by the cycle BranchCycle describes.
LEMMA OrderAfterJump ==
  ASSUME FetchInv, Scheduled, NEW e \in Input, Cycle(e), Observe(e),
         ~Starting(e), JumpValid(e)
  PROVE  BranchCycle'
<1> USE DEF Cycle
<1>1. /\ ~FetchStall(e) /\ ~BubbleSlot(e) /\ ~PipelineStall(e)
      /\ ~Halt(e) /\ DecodeValid(e)
      /\ active /\ ~startupBubble
      /\ slot.at = due.next /\ slot.valid
      /\ exBundle = Inc(due.next) /\ imemOut = Inc(Inc(due.next))
      /\ imemOut = Dec(pc)
      /\ imem[exBundle] = Nop
  BY BranchUnhindered
<1>2. fstate = "RUNNING" /\ pc \in Addr /\ imem' = imem
  BY <1>1 DEF FetchInv, Running, TypeOK
<1>3. due' = [next |-> JumpTarget, shadow |-> 2, from |-> slot.at]
  BY DEF Observe, Fire, JumpValid
<1>4. slot' = [valid |-> TRUE, at |-> exBundle, pc |-> pc]
  BY <1>1 DEF SlotRegister
<1>5. pc' = JumpTarget /\ exValid' = FALSE /\ imemOut' = pc
  BY <1>1, <1>2 DEF FetchUnit, ImemAddr, StartFetch, HoldFetch, StartupCycle,
                    TakeJump, TakeHalt, CaptureBundle, StoppedCycle
<1>6. SlotBundle.unit \in {"none", "alu"} /\ imem[Inc(Inc(Inc(slot.at)))] = Nop
  BY <1>1, SlotContract DEF FetchInv, JumpValid, Branches
<1>7. pc = Inc(Inc(Inc(slot.at)))
  BY <1>1, <1>2, IncDec
<1>8. ~scopyBusy'
  <2>1. ~e.memStall
    BY <1>1 DEF PipelineStall
  <2> QED
    BY <1>6, <2>1 DEF Engines, Issues, Possible
<1> QED
  BY <1>1, <1>2, <1>3, <1>4, <1>5, <1>6, <1>7, <1>8 DEF BranchCycle

\* The first delay slot fires in the cycle after the branch, the second one
\* is fetched, and the memory now reads the target.
LEMMA OrderAfterBranchCycle ==
  ASSUME FetchInv, Scheduled, NEW e \in Input, Cycle(e), Observe(e),
         ~Starting(e), active, ~startupBubble, BranchCycle
  PROVE  StraightCycle'
<1> USE DEF Cycle
<1>1. /\ fstate = "RUNNING" /\ pc \in Addr /\ imem' = imem /\ due.from \in Addr
      /\ exValid \in BOOLEAN
  BY DEF FetchInv, Running, TypeOK, HistTypeOK
<1>2. SlotBundle = Nop /\ slot.valid /\ ~exValid /\ ~scopyBusy /\ due.shadow = 2
  BY DEF BranchCycle, SlotBundle
<1>3. ~matrixBusy /\ transfer # "out"
  BY <1>2 DEF FetchInv, Engagement, NoBundleHeldByMatrix
<1>4. ~e.memStall
  BY <1>2 DEF Possible, Nop, StallingUnits, TransferUnits
<1>5. ~DecodeValid(e) /\ DecodeBundle(e) = Nop
  BY <1>2 DEF DecodeValid, DecodeBundle
<1>6. ~MatrixStart(e) /\ ~TransferStart(e)
  BY <1>2 DEF MatrixStart, TransferStart, Nop, TransferUnits
<1>7. ~MatrixLoadWait(e) /\ ~e.conflict
  BY <1>5 DEF MatrixLoadWait, Nop, MatrixUnits, TransferUnits, Possible
<1>8. ~FetchStall(e) /\ ~PipelineStall(e) /\ ~BubbleSlot(e)
  BY <1>3, <1>4, <1>6, <1>7 DEF FetchStall, PipelineStall, BubbleSlot
<1>9. EngineFire(e) /\ ~Halt(e) /\ ~JumpValid(e)
  BY <1>2, <1>8 DEF EngineFire, Halt, JumpValid, Nop
<1>10. due' = [due EXCEPT !.shadow = 1]
  BY <1>2, <1>9 DEF Observe, Fire
<1>11. slot' = EmptySlot
  BY <1>5, <1>8 DEF SlotRegister
<1>12. exBundle' = imemOut /\ exValid' = TRUE /\ pc' = Inc(pc) /\ imemOut' = pc
  BY <1>1, <1>8, <1>9 DEF FetchUnit, ImemAddr, StartFetch, HoldFetch, StartupCycle,
                    TakeJump, TakeHalt, CaptureBundle, StoppedCycle
<1>13. due'.shadow = 1 /\ due'.next = due.next /\ due'.from = due.from
  BY <1>10 DEF FetchInv, HistTypeOK
<1>14. imemOut' = Dec(pc') /\ imemOut' = due'.next
  BY <1>1, <1>12, <1>13, IncDec DEF BranchCycle
<1>15. Expected' = imemOut
  BY <1>13 DEF Expected, BranchCycle
<1> QED
  BY <1>1, <1>11, <1>12, <1>13, <1>14, <1>15 DEF StraightCycle, EmptySlot, BranchCycle

\* What firing, or not firing, does to the address that is due.
LEMMA DueStep ==
  ASSUME FetchInv, NEW e \in Input, Observe(e), ~Starting(e), ~JumpValid(e),
         due.shadow \in {0, 1}
  PROVE  /\ due'.from = due.from
         /\ ~EngineFire(e) => due' = due /\ Expected' = Expected
         /\ EngineFire(e) => /\ due'.shadow = 0
                             /\ Expected' = due'.next
                             /\ due.shadow = 0 => due'.next = Inc(due.next)
                             /\ due.shadow = 1 => due'.next = due.next
<1>1. due \in [next : Addr, shadow : 0 .. 2, from : Addr]
  BY DEF FetchInv, HistTypeOK
<1>2. CASE EngineFire(e)
  <2>1. due' = IF due.shadow > 0 THEN [due EXCEPT !.shadow = @ - 1]
                                 ELSE [due EXCEPT !.next = Inc(@)]
    BY <1>2 DEF Observe, Fire
  <2> QED
    BY <1>1, <1>2, <2>1 DEF Expected
<1>3. CASE ~EngineFire(e)
  BY <1>3 DEF Observe, histVars, Expected
<1> QED
  BY <1>2, <1>3

\* A stalled fetch: the bundles stay where they are, or the slot fires and is
\* replaced by a bubble.
LEMMA OrderWhileStalled ==
  ASSUME FetchInv, NEW e \in Input, Cycle(e), Observe(e), ~Starting(e),
         ~JumpValid(e), StraightCycle, FetchStall(e)
  PROVE  StraightCycle'
<1> USE DEF Cycle
<1>1. /\ pc' = pc /\ exBundle' = exBundle /\ exValid' = exValid
      /\ imemOut' = Dec(pc) /\ imem' = imem
  BY DEF FetchUnit, ImemAddr, StartFetch, HoldFetch, StartupCycle,
         TakeJump, TakeHalt, CaptureBundle, StoppedCycle
<1>2. due.shadow \in {0, 1} /\ imemOut = Dec(pc) /\ imemOut' = imemOut
  BY <1>1 DEF StraightCycle
<1>3. CASE slot.valid /\ BubbleSlot(e)
  <2>1. EngineFire(e)
    BY <1>3, BubbleMeansFired
  <2>2. slot' = EmptySlot
    BY <1>3 DEF SlotRegister
  <2>3. exValid /\ (due.shadow = 0 => exBundle = Inc(due.next) /\ imemOut = Inc(Inc(due.next)))
        /\ (due.shadow = 1 => exBundle = due.next /\ imemOut = Inc(due.next))
    BY <1>3 DEF StraightCycle
  <2>4. exBundle = due'.next /\ imemOut = Inc(due'.next)
    BY <1>2, <2>1, <2>3, DueStep
  <2> QED
    BY <1>1, <1>2, <2>1, <2>2, <2>3, <2>4, DueStep DEF StraightCycle, EmptySlot
<1>4. CASE slot.valid /\ ~BubbleSlot(e)
  <2>1. PipelineStall(e) /\ slot' = slot
    BY <1>4, StallHoldsOrBubbles DEF SlotRegister
  <2>2. due' = due /\ Expected' = Expected
    BY <1>2, <2>1, DueStep DEF EngineFire
  <2> QED
    BY <1>1, <1>2, <2>1, <2>2 DEF StraightCycle
<1>5. CASE ~slot.valid
  <2>1. slot'.valid = FALSE
    BY <1>5, StallHoldsOrBubbles DEF SlotRegister, EmptySlot
  <2>2. due' = due /\ Expected' = Expected
    BY <1>2, <1>5, DueStep DEF EngineFire
  <2> QED
    BY <1>1, <1>2, <1>5, <2>1, <2>2 DEF StraightCycle
<1> QED
  BY <1>3, <1>4, <1>5

\* A cycle without a stall moves every bundle one stage on.
LEMMA OrderWhileMoving ==
  ASSUME FetchInv, NEW e \in Input, Cycle(e), Observe(e), ~Starting(e), active,
         ~startupBubble, ~JumpValid(e), ~Halt(e), StraightCycle, ~FetchStall(e)
  PROVE  StraightCycle'
<1> USE DEF Cycle
<1>1. fstate = "RUNNING" /\ pc \in Addr /\ imemOut \in Addr
  BY DEF FetchInv, Running, TypeOK
<1>2. /\ exBundle' = imemOut /\ exValid' = TRUE /\ pc' = Inc(pc)
      /\ imemOut' = pc /\ imem' = imem
  BY <1>1 DEF FetchUnit, ImemAddr, StartFetch, HoldFetch, StartupCycle,
              TakeJump, TakeHalt, CaptureBundle, StoppedCycle
<1>3. due.shadow \in {0, 1} /\ imemOut' = Dec(pc') /\ imemOut' = Inc(imemOut)
  BY <1>1, <1>2, IncDec DEF StraightCycle
<1>4. ~BubbleSlot(e) /\ ~PipelineStall(e)
  BY DEF FetchStall, BubbleSlot, PipelineStall
<1>5. slot' = IF exValid THEN [valid |-> TRUE, at |-> exBundle, pc |-> pc]
                         ELSE EmptySlot
  BY <1>4 DEF SlotRegister, DecodeValid
<1>6. CASE slot.valid
  <2>1. EngineFire(e)
    BY <1>4, <1>6 DEF EngineFire
  <2>2. exValid /\ (due.shadow = 0 => exBundle = Inc(due.next) /\ imemOut = Inc(Inc(due.next)))
        /\ (due.shadow = 1 => exBundle = due.next /\ imemOut = Inc(due.next))
    BY <1>6 DEF StraightCycle
  <2>3. exBundle = due'.next /\ imemOut = Inc(due'.next)
    BY <1>3, <2>1, <2>2, DueStep
  <2> QED
    BY <1>2, <1>3, <1>5, <2>1, <2>2, <2>3, DueStep DEF StraightCycle
<1>7. CASE ~slot.valid /\ exValid
  <2>1. due' = due /\ Expected' = Expected
    BY <1>3, <1>7, DueStep DEF EngineFire
  <2>2. exBundle = Expected /\ (due.shadow = 0 => imemOut = Inc(due.next))
        /\ (due.shadow = 1 => imemOut = due.next
                              /\ imem[Inc(Inc(Inc(due.from)))] = Nop)
    BY <1>7 DEF StraightCycle
  <2> QED
    BY <1>2, <1>3, <1>5, <1>7, <2>1, <2>2 DEF StraightCycle
<1>8. CASE ~slot.valid /\ ~exValid
  <2>1. due' = due /\ Expected' = Expected
    BY <1>3, <1>8, DueStep DEF EngineFire
  <2>2. due.shadow = 0 /\ imemOut = due.next
    BY <1>8 DEF StraightCycle
  <2>3. Expected = due.next
    BY <2>2 DEF Expected
  <2> QED
    BY <1>2, <1>3, <1>5, <1>8, <2>1, <2>2, <2>3 DEF StraightCycle, EmptySlot
<1> QED
  BY <1>6, <1>7, <1>8

LEMMA CycleOrder ==
  ASSUME FetchInv, Scheduled, NEW e \in Input, Cycle(e), Observe(e)
  PROVE  Order'
<1>1. CASE Starting(e)
  <2>1. startupBubble' = TRUE
    BY <1>1 DEF Starting, Cycle, FetchUnit, ImemAddr, StartFetch, HoldFetch, StartupCycle,
                TakeJump, TakeHalt, CaptureBundle, StoppedCycle
  <2> QED
    BY <2>1 DEF Order
<1>2. CASE ~Starting(e) /\ (~active \/ Halt(e))
  <2>1. EngineFire(e) => active
    BY DEF EngineFire, FetchInv, Running
  <2>2. ~active'
    BY <1>2, <2>1 DEF Observe, Fire, histVars, Halt
  <2> QED
    BY <2>2 DEF Order
<1>3. CASE ~Starting(e) /\ active /\ ~Halt(e) /\ startupBubble
  <2>1. ~slot.valid /\ ~exValid /\ pc = 0 /\ due.next = 0 /\ due.shadow = 0
        /\ fstate = "RUNNING" /\ pc \in Addr
    BY <1>3 DEF FetchInv, Startup, Running, TypeOK
  <2>2. due' = due /\ ~DecodeValid(e)
    BY <1>3, <2>1 DEF Observe, EngineFire, histVars, DecodeValid
  <2>3. slot'.valid = FALSE
    BY <2>1, <2>2 DEF Cycle, SlotRegister, EmptySlot
  <2>4. CASE FetchStall(e)
    <3>1. startupBubble' = TRUE
      BY <1>3, <2>1, <2>4 DEF Cycle, FetchUnit, ImemAddr, StartFetch, HoldFetch, StartupCycle,
                  TakeJump, TakeHalt, CaptureBundle, StoppedCycle
    <3> QED
      BY <3>1 DEF Order
  <2>5. CASE ~FetchStall(e)
    <3>1. exValid' = FALSE /\ pc' = Inc(pc) /\ imemOut' = pc
      BY <1>3, <2>1, <2>5 DEF Cycle, FetchUnit, ImemAddr, StartFetch, HoldFetch, StartupCycle,
                  TakeJump, TakeHalt, CaptureBundle, StoppedCycle
    <3>2. imemOut' = Dec(pc') /\ imemOut' = due'.next /\ due'.shadow = 0
      BY <2>1, <2>2, <3>1, IncDec
    <3> QED
      BY <2>3, <3>1, <3>2 DEF Order, StraightCycle
  <2> QED
    BY <2>4, <2>5
<1>4. CASE ~Starting(e) /\ active /\ ~Halt(e) /\ ~startupBubble /\ JumpValid(e)
  BY <1>4, OrderAfterJump DEF Order
<1>5. CASE ~Starting(e) /\ active /\ ~Halt(e) /\ ~startupBubble /\ ~JumpValid(e)
  <2>1. BranchCycle \/ StraightCycle
    BY <1>5 DEF FetchInv, Order
  <2> QED
    BY <1>5, <2>1, OrderAfterBranchCycle, OrderWhileStalled, OrderWhileMoving
    DEF Order
<1> QED
  BY <1>1, <1>2, <1>3, <1>4, <1>5

----------------------------------------------------------------------------
(* The invariant and the properties it implies *)

LEMMA FetchInvInitially == HInit => FetchInv
<1> SUFFICES ASSUME HInit PROVE FetchInv
  OBVIOUS
<1>1. 0 \in Addr
  BY FetchAssumption DEF Addr
<1>2. TypeOK
  BY <1>1 DEF HInit, Init, TypeOK, CoreStates, EmptySlot
<1>3. HistTypeOK
  <2>1. active = FALSE /\ due = [next |-> 0, shadow |-> 0, from |-> 0]
    BY DEF HInit
  <2>2. 0 \in 0 .. 2
    OBVIOUS
  <2> QED
    BY <1>1, <2>1, <2>2 DEF HistTypeOK
<1>4. slot.valid = FALSE
  BY DEF HInit, Init, EmptySlot
<1> QED
  BY <1>2, <1>3, <1>4
  DEF HInit, Init, FetchInv, Running, Startup, Order, Engagement,
      NoBundleHeldByMatrix, MatrixWaitsForTransfer, BranchPcIsTwoAhead

LEMMA FetchInvInductive ==
  ASSUME Scheduled, FetchInv, [HNext]_hvars
  PROVE  FetchInv'
<1>1. CASE LoadProgram /\ UNCHANGED histVars
  <2>1. /\ imem' \in Programs /\ UNCHANGED <<fetchVars, slot, engineVars, histVars>>
        /\ fstate \in {"IDLE", "HALTED"} /\ ~exValid /\ ~slot.valid
    BY <1>1 DEF LoadProgram
  <2>2. ~active /\ ~startupBubble
    BY <2>1 DEF FetchInv, Running
  <2>3. TypeOK' /\ HistTypeOK'
    BY <2>1 DEF FetchInv, TypeOK, HistTypeOK, fetchVars, engineVars, histVars
  <2>4. Running' /\ Startup' /\ Order'
    BY <2>1, <2>2 DEF FetchInv, Running, Startup, Order, fetchVars, engineVars,
                      histVars
  <2>5. Engagement'
    BY <2>1 DEF Engagement, NoBundleHeldByMatrix, MatrixWaitsForTransfer,
                BranchPcIsTwoAhead
  <2> QED
    BY <2>3, <2>4, <2>5 DEF FetchInv
<1>2. ASSUME NEW e \in Input, Cycle(e), Observe(e)
      PROVE  FetchInv'
  <2>1. TypeOK'
    BY <1>2, CycleType DEF FetchInv
  <2>2. Engagement'
    BY <1>2, CycleEngagement, CycleBranchPc DEF Engagement
  <2> QED
    BY <1>2, <2>1, <2>2, CycleHistType, CycleRunning, CycleStartup, CycleOrder
    DEF FetchInv
<1>3. CASE UNCHANGED hvars
  <2>1. UNCHANGED <<imem, fstate, pc, startupBubble, imemOut, exBundle, exValid,
                    slot, matrixBusy, transfer, scopyBusy, storeBusy,
                    ran, active, due>>
    BY <1>3 DEF hvars, vars, fetchVars, engineVars, histVars
  <2>2. SlotBundle' = SlotBundle /\ Expected' = Expected
    BY <2>1 DEF SlotBundle, Expected
  <2>3. TypeOK' /\ HistTypeOK' /\ Running' /\ Startup'
    BY <2>1 DEF FetchInv, TypeOK, HistTypeOK, Running, Startup
  <2>4. Order'
    BY <2>1, <2>2 DEF FetchInv, Order, BranchCycle, StraightCycle
  <2>5. Engagement'
    BY <2>1, <2>2 DEF FetchInv, Engagement, NoBundleHeldByMatrix,
                      MatrixWaitsForTransfer, BranchPcIsTwoAhead
  <2> QED
    BY <2>3, <2>4, <2>5 DEF FetchInv
<1> QED
  BY <1>1, <1>2, <1>3 DEF HNext

LEMMA FetchInvImpliesProperties ==
  ASSUME FetchInv
  PROVE  SlotIsDue /\ HaltedMeansDrained
<1>1. SlotIsDue
  <2> SUFFICES ASSUME slot.valid PROVE active /\ slot.at = Expected
    BY DEF SlotIsDue
  <2>1. active /\ ~startupBubble
    BY DEF FetchInv, Running, Startup
  <2>2. BranchCycle \/ StraightCycle
    BY <2>1 DEF FetchInv, Order
  <2> QED
    BY <2>1, <2>2 DEF BranchCycle, StraightCycle, Expected
<1>2. HaltedMeansDrained
  BY DEF FetchInv, Running, HaltedMeansDrained
<1> QED
  BY <1>1, <1>2

\* Whatever stalls, bubbles, branches and restarts occur, a valid EX slot holds
\* the bundle that is due (FetchUnit's and VliwCore's replay, flush and hold
\* logic together).
THEOREM ExecutionOrder ==
  ASSUME Scheduled
  PROVE  HSpec => []SlotIsDue
<1>1. HInit => FetchInv
  BY FetchInvInitially
<1>2. FetchInv /\ [HNext]_hvars => FetchInv'
  BY FetchInvInductive
<1>3. FetchInv => SlotIsDue
  BY FetchInvImpliesProperties DEF FetchInv, Engagement
<1> QED
  BY <1>1, <1>2, <1>3, PTL DEF HSpec

\* The pc a branch is resolved against is two bundles ahead of it in every cycle
\* it may fire, whatever held it before.
THEOREM BranchesSeeTheirPc ==
  ASSUME Scheduled
  PROVE  HSpec => []BranchPcIsTwoAhead
<1>1. HInit => FetchInv
  BY FetchInvInitially
<1>2. FetchInv /\ [HNext]_hvars => FetchInv'
  BY FetchInvInductive
<1>3. FetchInv => BranchPcIsTwoAhead
  BY FetchInvImpliesProperties DEF FetchInv, Engagement
<1> QED
  BY <1>1, <1>2, <1>3, PTL DEF HSpec

\* A core that reports HALTED has no store, transfer, copy or matrix operation in
\* flight.
THEOREM EnginesDrained ==
  ASSUME Scheduled
  PROVE  HSpec => []HaltedMeansDrained
<1>1. HInit => FetchInv
  BY FetchInvInitially
<1>2. FetchInv /\ [HNext]_hvars => FetchInv'
  BY FetchInvInductive
<1>3. FetchInv => HaltedMeansDrained
  BY FetchInvImpliesProperties DEF FetchInv, Engagement
<1> QED
  BY <1>1, <1>2, <1>3, PTL DEF HSpec

\* A bundle never waits in EX for a matrix engine: it is kept in decode until the
\* engine is free.
THEOREM MatrixHoldsNobody ==
  ASSUME Scheduled
  PROVE  HSpec => []NoBundleHeldByMatrix
<1>1. HInit => FetchInv
  BY FetchInvInitially
<1>2. FetchInv /\ [HNext]_hvars => FetchInv'
  BY FetchInvInductive
<1>3. FetchInv => NoBundleHeldByMatrix
  BY FetchInvImpliesProperties DEF FetchInv, Engagement
<1> QED
  BY <1>1, <1>2, <1>3, PTL DEF HSpec

\* No matrix bundle enters EX while an inbound transfer is running.
THEOREM TransfersComeFirst ==
  ASSUME Scheduled
  PROVE  HSpec => []MatrixWaitsForTransfer
<1>1. HInit => FetchInv
  BY FetchInvInitially
<1>2. FetchInv /\ [HNext]_hvars => FetchInv'
  BY FetchInvInductive
<1>3. FetchInv => MatrixWaitsForTransfer
  BY FetchInvImpliesProperties DEF FetchInv, Engagement
<1> QED
  BY <1>1, <1>2, <1>3, PTL DEF HSpec

----------------------------------------------------------------------------
\* The immediate field is at least as wide as an address, and the two bundles
\* that a relative branch skips are empty.
BranchesLand == Immediates % Depth = 0 /\ \A p \in Programs : LandingPadded(p)

----------------------------------------------------------------------------
(* Refinement: the inductive invariant *)

Works(a) == Architecture!HasWork(imem[a % Depth])

\* Where the last bundle with work sent control.
Resume == IF ran.taken THEN Architecture!BranchTarget(ran.at) ELSE ran.at + 1

RanTypeOK ==
  /\ ran \in [at : -1 .. Depth - 1, taken : BOOLEAN, flip : BOOLEAN]
  /\ ran.taken => ran.at \in Addr

\* From there to the bundle due next all bundles are empty.
Skipped ==
  active => \E k \in Nat : /\ due.next = (Resume + k) % Depth
                           /\ \A j \in 0 .. k - 1 : ~Works(Resume + j)

RefineInv == FetchInv /\ RanTypeOK /\ Skipped

----------------------------------------------------------------------------
(* Addresses modulo the depth *)

LEMMA Remainder ==
  ASSUME NEW q \in Int, NEW b \in Addr
  PROVE  (Depth * q + b) % Depth = b
<1>1. Depth \in Nat \ {0} /\ b \in Nat /\ b < Depth
  BY FetchAssumption DEF Addr
<1>2. PICK n, e, a : /\ n = Depth * q + b /\ e = n \div Depth /\ a = n % Depth
  OBVIOUS
<1>3. n \in Int /\ e \in Int /\ a \in 0 .. Depth - 1 /\ n = Depth * e + a
  BY <1>1, <1>2
<1>4. PICK x \in Int : x = q - e
  BY <1>3
<1>5. Depth * x = a - b
  BY <1>1, <1>2, <1>3, <1>4
<1>6. Depth * x < Depth /\ -Depth < Depth * x
  BY <1>1, <1>3, <1>5
<1>7. ~(x >= 1)
  BY <1>1, <1>6
<1>8. ~(x <= -1)
  BY <1>1, <1>6
<1>9. x = 0
  BY <1>7, <1>8
<1>10. a = b
  BY <1>1, <1>3, <1>5, <1>9
<1> QED
  BY <1>2, <1>10

LEMMA Quotient ==
  ASSUME NEW n \in Int
  PROVE  n % Depth \in Addr /\ \E q \in Int : n = Depth * q + (n % Depth)
<1>1. Depth \in Nat \ {0}
  BY FetchAssumption
<1>2. n \div Depth \in Int /\ n = Depth * (n \div Depth) + (n % Depth)
  BY <1>1
<1> QED
  BY <1>2, ModAddr

\* Numbers that differ by whole memories are the same address.
LEMMA SameAddress ==
  ASSUME NEW m \in Int, NEW n \in Int, NEW d \in Int, m = n + Depth * d
  PROVE  m % Depth = n % Depth
<1>1. PICK q \in Int : n = Depth * q + (n % Depth)
  BY Quotient
<1>2. PICK b \in Addr : b = n % Depth
  BY Quotient
<1>3. m = Depth * (q + d) + b
  BY <1>1, <1>2, FetchAssumption DEF Addr
<1>4. q + d \in Int
  OBVIOUS
<1> QED
  BY <1>2, <1>3, <1>4, Remainder

LEMMA IncIsNext ==
  ASSUME NEW n \in Int
  PROVE  Inc(n % Depth) = (n + 1) % Depth
<1>1. PICK q \in Int : n = Depth * q + (n % Depth)
  BY Quotient
<1>2. PICK b \in Addr : b = n % Depth
  BY Quotient
<1>3. CASE b = Depth - 1
  <2>1. n + 1 = Depth * (q + 1) + 0 /\ 0 \in Addr /\ q + 1 \in Int
    BY <1>1, <1>2, <1>3, FetchAssumption DEF Addr
  <2> QED
    BY <1>2, <1>3, <2>1, Remainder DEF Inc
<1>4. CASE b # Depth - 1
  <2>1. n + 1 = Depth * q + (b + 1) /\ b + 1 \in Addr
    BY <1>1, <1>2, <1>4, FetchAssumption DEF Addr
  <2> QED
    BY <1>2, <1>4, <2>1, Remainder DEF Inc
<1> QED
  BY <1>3, <1>4

LEMMA AddrIsItself ==
  ASSUME NEW a \in Addr
  PROVE  a \in Nat /\ a % Depth = a
<1>1. a \in Nat /\ a = Depth * 0 + a
  BY FetchAssumption DEF Addr
<1> QED
  BY <1>1, Remainder

\* What ten bits keep of a number is the same address.
LEMMA ImmediateIsEnough ==
  ASSUME NEW t \in Int, NEW base \in Int, Immediates % Depth = 0
  PROVE  (base + (t % Immediates)) % Depth = (base + t) % Depth
<1>1. Immediates \in Nat \ {0} /\ Depth \in Nat \ {0}
  BY FetchAssumption
<1>2. PICK q, r : q = t \div Immediates /\ r = t % Immediates
  OBVIOUS
<1>3. q \in Int /\ r \in Int /\ t = Immediates * q + r
  BY <1>1, <1>2
<1>4. PICK m \in Int : Immediates = Depth * m
  <2>1. Immediates \in Int /\ Immediates % Depth = 0
    BY <1>1
  <2>2. PICK m \in Int : Immediates = Depth * m + (Immediates % Depth)
    BY <2>1, Quotient
  <2>3. Immediates = Depth * m
    BY <1>1, <2>1, <2>2
  <2> QED
    BY <2>3
<1>5. PICK d \in Int : d = m * q
  BY <1>3
<1>6. base + t = (base + r) + Depth * d
  BY <1>1, <1>3, <1>4, <1>5
<1> QED
  BY <1>2, <1>3, <1>6, SameAddress

----------------------------------------------------------------------------
(* The first bundle with work *)

LEMMA NextWorkIs ==
  ASSUME NEW a \in Nat, NEW k \in Nat, Works(a + k),
         \A j \in 0 .. k - 1 : ~Works(a + j)
  PROVE  Architecture!NextWork(a) = (a + k) % Depth
<1>1. Depth \in Nat \ {0}
  BY FetchAssumption
<1>2. k < Depth
  <2> SUFFICES ASSUME k >= Depth PROVE FALSE
    BY <1>1
  <2>1. PICK j \in 0 .. k - 1 : j = k - Depth
    BY <1>1
  <2>2. a + k = (a + j) + Depth * 1
    BY <1>1, <2>1
  <2>3. (a + k) % Depth = (a + j) % Depth
    BY <2>2, SameAddress
  <2> QED
    BY <2>1, <2>3 DEF Works
<1> DEFINE First(i) == /\ Works(a + i)
                       /\ \A j \in 0 .. i - 1 : ~Works(a + j)
<1>3. k \in 0 .. Depth - 1 /\ First(k)
  BY <1>1, <1>2
<1>4. \A i \in 0 .. Depth - 1 : First(i) => i = k
  BY <1>3
<1>5. PICK c : c = CHOOSE i \in 0 .. Depth - 1 : First(i)
  OBVIOUS
<1>6. c \in 0 .. Depth - 1 /\ First(c)
  <2> HIDE DEF First
  <2> QED
    BY <1>3, <1>5
<1>7. c = k
  <2> HIDE DEF First
  <2> QED
    BY <1>4, <1>6
<1>8. Architecture!NextWork(a) = (a + c) % Depth
  BY <1>5 DEF Architecture!NextWork, Works
<1> QED
  BY <1>7, <1>8

----------------------------------------------------------------------------
(* A bundle fires *)

\* Only the bundle due next has work: delay slots are empty.
LEMMA FiringBundle ==
  ASSUME FetchInv, NEW e \in Input, EngineFire(e)
  PROVE  /\ slot.valid /\ active /\ slot.at \in Addr /\ SlotBundle = imem[slot.at]
         /\ due.shadow = 0 => slot.at = due.next
         /\ due.shadow # 0 => SlotBundle = Nop
<1>1. slot.valid /\ SlotBundle = imem[slot.at] /\ slot.at \in Addr
  BY DEF EngineFire, SlotBundle, FetchInv, TypeOK
<1>2. active /\ slot.at = Expected
  BY <1>1, FetchInvImpliesProperties DEF SlotIsDue
<1>3. ~startupBubble
  BY <1>1 DEF FetchInv, Startup
<1>4. BranchCycle \/ StraightCycle
  BY <1>2, <1>3 DEF FetchInv, Order
<1> QED
  BY <1>1, <1>2, <1>4 DEF BranchCycle, StraightCycle, Expected

\* A taken branch goes where the program says, but for empty bundles.
LEMMA TargetIsMeant ==
  ASSUME FetchInv, BranchesLand, NEW e \in Input, JumpValid(e)
  PROVE  /\ Architecture!BranchTarget(slot.at) \in Addr
         /\ \E k \in Nat :
              /\ JumpTarget = (Architecture!BranchTarget(slot.at) + k) % Depth
              /\ \A j \in 0 .. k - 1 : ~Works(Architecture!BranchTarget(slot.at) + j)
<1> DEFINE meant == Architecture!BranchTarget(slot.at)
<1>1. /\ slot.valid /\ slot.at \in Addr /\ SlotBundle = imem[slot.at]
      /\ SlotBundle.flow \in Branches
  BY FiringBundle DEF JumpValid, Branches
<1>2. slot.pc = Inc(Inc(slot.at))
  BY <1>1 DEF FetchInv, Engagement, BranchPcIsTwoAhead
<1>3. SlotBundle \in Bundle
  BY SlotBundleType DEF FetchInv
<1>4. PICK at, t : at = slot.at /\ t = SlotBundle.target
  OBVIOUS
<1>5. at \in Int /\ t \in Int
  BY <1>1, <1>3, <1>4, AddrIsItself DEF Bundle
<1>6. slot.pc = (at + 2) % Depth
  <2>1. at % Depth = at
    BY <1>1, <1>4, AddrIsItself
  <2>2. Inc(at) = (at + 1) % Depth
    BY <1>5, <2>1, IncIsNext
  <2>3. Inc((at + 1) % Depth) = ((at + 1) + 1) % Depth /\ (at + 1) + 1 = at + 2
    BY <1>5, IncIsNext
  <2> QED
    BY <1>2, <1>4, <2>2, <2>3
<1>7. CASE SlotBundle.flow = "cjumprel"
  <2>1. PICK p \in Int : p = (at + 2) % Depth
    BY <1>5, Quotient DEF Addr
  <2>2. PICK q \in Int : at + 2 = Depth * q + p
    BY <1>5, <2>1, Quotient
  <2>3. at + 2 + t = (p + t) + Depth * q
    BY <1>5, <2>2, FetchAssumption
  <2>4. (at + 2 + t) % Depth = (p + t) % Depth
    BY <1>5, <2>3, SameAddress
  <2>5. (p + (t % Immediates)) % Depth = (p + t) % Depth
    BY <1>5, ImmediateIsEnough DEF BranchesLand
  <2>6. JumpTarget = (p + (t % Immediates)) % Depth
    BY <1>4, <1>6, <1>7, <2>1 DEF JumpTarget, Immediate
  <2>7. meant = (at + t) % Depth
    BY <1>1, <1>4, <1>7 DEF Architecture!BranchTarget
  <2>8. PICK b \in Addr : b = (at + t) % Depth
    BY <1>5, Quotient
  <2>9. PICK s \in Int : at + t = Depth * s + b
    BY <1>5, <2>8, Quotient
  <2>10. b \in Int /\ b + 1 \in Int /\ at + t + 1 \in Int /\ at + 2 + t \in Int
    BY <1>5, <2>8, AddrIsItself
  <2>11. (at + t + 1) % Depth = (b + 1) % Depth
    <3>1. at + t + 1 = (b + 1) + Depth * s
      BY <1>5, <2>9, <2>10, FetchAssumption
    <3> QED
      BY <2>10, <3>1, SameAddress
  <2>12. (at + 2 + t) % Depth = (b + 2) % Depth
    <3>1. at + 2 + t = (b + 2) + Depth * s /\ b + 2 \in Int
      BY <1>5, <2>9, <2>10, FetchAssumption
    <3> QED
      BY <2>10, <3>1, SameAddress
  <2>13. imem[b] = Nop /\ imem[(b + 1) % Depth] = Nop
    BY <1>1, <1>4, <1>7, <2>8, <2>11 DEF BranchesLand, LandingPadded, FetchInv, TypeOK
  <2>14. ~Works(b + 0) /\ ~Works(b + 1)
    BY <2>8, <2>13, AddrIsItself DEF Works, Architecture!HasWork, Nop
  <2>15. \A j \in 0 .. 2 - 1 : ~Works(b + j)
    BY <2>14
  <2>16. meant = b /\ JumpTarget = (b + 2) % Depth
    BY <2>4, <2>5, <2>6, <2>7, <2>8, <2>12
  <2> QED
    BY <2>8, <2>15, <2>16
<1>a. ASSUME meant = JumpTarget
      PROVE  /\ meant \in Addr
             /\ \E k \in Nat : /\ JumpTarget = (meant + k) % Depth
                              /\ \A j \in 0 .. k - 1 : ~Works(meant + j)
  <2>1. meant \in Addr
    BY <1>a, JumpTargetType DEF FetchInv
  <2>2. meant \in Nat /\ meant % Depth = meant
    BY <2>1, AddrIsItself
  <2>3. meant + 0 = meant /\ 0 .. 0 - 1 = {} /\ 0 \in Nat
    BY <2>2
  <2> QED
    BY <1>a, <2>1, <2>2, <2>3
<1>8. CASE SlotBundle.flow = "jumpind"
  BY <1>1, <1>8, <1>a DEF JumpTarget, Architecture!BranchTarget
<1>9. CASE SlotBundle.flow \notin {"cjumprel", "jumpind"}
  <2>1. (0 + (t % Immediates)) % Depth = (0 + t) % Depth
    BY <1>5, ImmediateIsEnough DEF BranchesLand
  <2>2. 0 + (t % Immediates) = t % Immediates /\ 0 + t = t
    BY <1>5, FetchAssumption
  <2>3. JumpTarget = (t % Immediates) % Depth
    BY <1>4, <1>9 DEF JumpTarget, Immediate
  <2>4. Architecture!BranchTarget(slot.at) = t % Depth
    BY <1>1, <1>4, <1>9 DEF Architecture!BranchTarget
  <2> QED
    BY <1>a, <2>1, <2>2, <2>3, <2>4
<1> QED
  BY <1>7, <1>8, <1>9

LEMMA ResumeType ==
  ASSUME RanTypeOK, TypeOK, BranchesLand
  PROVE  Resume \in Nat
<1>1. CASE ~ran.taken
  BY <1>1, FetchAssumption DEF RanTypeOK, Resume
<1>2. CASE ran.taken
  <2>1. ran.at \in Addr /\ ran.at \in Int
    BY <1>2, AddrIsItself DEF RanTypeOK
  <2>2. imem[ran.at].target \in Int
    BY <2>1, SlotBundleType DEF Bundle
  <2>3. Architecture!BranchTarget(ran.at) \in Addr
    BY <2>1, <2>2, ModAddr DEF Architecture!BranchTarget
  <2> QED
    BY <1>2, <2>3, AddrIsItself DEF Resume
<1> QED
  BY <1>1, <1>2

\* What fires is what the program runs next.
LEMMA FiringFollows ==
  ASSUME RefineInv, BranchesLand, NEW e \in Input, EngineFire(e),
         Architecture!HasWork(SlotBundle)
  PROVE  Architecture!Following = slot.at /\ due.shadow = 0 /\ slot.at = due.next
<1>1. /\ active /\ slot.at \in Addr /\ SlotBundle = imem[slot.at]
      /\ due.shadow = 0 /\ slot.at = due.next
  BY FiringBundle DEF RefineInv, Architecture!HasWork, Nop
<1>2. PICK k \in Nat : /\ due.next = (Resume + k) % Depth
                      /\ \A j \in 0 .. k - 1 : ~Works(Resume + j)
  BY <1>1 DEF RefineInv, Skipped
<1>3. Works(Resume + k)
  BY <1>1, <1>2 DEF Works
<1>4. Resume \in Nat
  BY ResumeType DEF RefineInv, FetchInv
<1>5. Architecture!NextWork(Resume) = slot.at
  BY <1>1, <1>2, <1>3, <1>4, NextWorkIs
<1>6. Architecture!Following = Architecture!NextWork(Resume)
  BY DEF Architecture!Following, Resume
<1> QED
  BY <1>1, <1>5, <1>6

----------------------------------------------------------------------------
(* The invariant *)

LEMMA RefineInvInitially == HInit => RefineInv
<1> SUFFICES ASSUME HInit PROVE RefineInv
  OBVIOUS
<1>1. ran = [at |-> -1, taken |-> FALSE, flip |-> FALSE] /\ ~active
  BY DEF HInit, Architecture!NotYet
<1> QED
  BY <1>1, FetchInvInitially, FetchAssumption DEF RefineInv, RanTypeOK, Skipped

\* A bundle with work fires: nothing is skipped behind it yet.
LEMMA WorkFires ==
  ASSUME RefineInv, BranchesLand, NEW e \in Input, Cycle(e), Fire(e), EngineFire(e),
         Architecture!HasWork(SlotBundle)
  PROVE  RanTypeOK' /\ Skipped'
<1>1. /\ slot.at \in Addr /\ slot.at \in Int /\ due.shadow = 0 /\ slot.at = due.next
      /\ -1 \in Int /\ slot.at \in -1 .. Depth - 1
  BY FiringFollows, FiringBundle, AddrIsItself, FetchAssumption DEF RefineInv, Addr
<1>2. ran' = [at |-> slot.at, taken |-> JumpValid(e), flip |-> ~ran.flip] /\ imem' = imem
  BY DEF Fire, Cycle
<1>3. JumpValid(e) \in BOOLEAN
  BY DEF JumpValid, EngineFire
<1>4. RanTypeOK'
  <2>1. ran'.at = slot.at /\ ran'.taken = JumpValid(e)
    BY <1>2
  <2>2. ran' \in [at : -1 .. Depth - 1, taken : BOOLEAN, flip : BOOLEAN]
    BY <1>1, <1>2, <1>3 DEF RefineInv, RanTypeOK
  <2> QED
    BY <1>1, <2>1, <2>2 DEF RanTypeOK
<1>5. \E k \in Nat : /\ due'.next = (Resume' + k) % Depth
                     /\ \A j \in 0 .. k - 1 : ~Works(Resume' + j)
  <2>1. CASE JumpValid(e)
    <3>1. PICK target : target = Architecture!BranchTarget(slot.at)
      OBVIOUS
    <3>2. due'.next = JumpTarget
      BY <2>1 DEF Fire
    <3>3. Resume' = target
      BY <1>2, <2>1, <3>1 DEF Resume, Architecture!BranchTarget
    <3> QED
      BY <2>1, <3>1, <3>2, <3>3, TargetIsMeant DEF RefineInv
  <2>2. CASE ~JumpValid(e)
    <3>1. due'.next = Inc(slot.at)
      BY <1>1, <2>2 DEF Fire, RefineInv, FetchInv, HistTypeOK
    <3>2. Resume' = slot.at + 1
      BY <1>2, <2>2 DEF Resume
    <3>3. Inc(slot.at) = (slot.at + 1) % Depth
      BY <1>1, AddrIsItself, IncIsNext
    <3>4. 0 \in Nat /\ 0 .. 0 - 1 = {} /\ (slot.at + 1) + 0 = slot.at + 1
      BY <1>1
    <3> QED
      BY <3>1, <3>2, <3>3, <3>4
  <2> QED
    BY <2>1, <2>2
<1>6. Skipped'
  BY <1>2, <1>5 DEF Skipped, Works
<1> QED
  BY <1>4, <1>6

\* An empty bundle fires: one more is skipped, or a delay slot is over.
LEMMA EmptyFires ==
  ASSUME RefineInv, BranchesLand, NEW e \in Input, Cycle(e), Fire(e), EngineFire(e),
         ~Architecture!HasWork(SlotBundle)
  PROVE  RanTypeOK' /\ Skipped'
<1>1. /\ active /\ slot.at \in Addr /\ SlotBundle = imem[slot.at]
      /\ due.shadow = 0 => slot.at = due.next
  BY FiringBundle DEF RefineInv
<1>2. ran' = ran /\ imem' = imem
  BY DEF Fire, Cycle
<1>3. ~JumpValid(e)
  BY DEF JumpValid, Architecture!HasWork
<1>4. PICK start \in Nat : start = Resume
  BY ResumeType DEF RefineInv, FetchInv
<1>5. Resume' = start
  BY <1>2, <1>4 DEF Resume, Architecture!BranchTarget
<1>6. \A a : Works(a) <=> Architecture!HasWork(imem[a % Depth])
  BY DEF Works
<1>7. PICK k \in Nat : /\ due.next = (start + k) % Depth
                      /\ \A j \in 0 .. k - 1 : ~Works(start + j)
  BY <1>1, <1>4 DEF RefineInv, Skipped
<1>8. CASE due.shadow = 0
  <2>1. due'.next = Inc(due.next)
    BY <1>3, <1>8 DEF Fire, RefineInv, FetchInv, HistTypeOK
  <2>2. due'.next = (start + (k + 1)) % Depth
    <3>1. start + k \in Int /\ (start + k) + 1 = start + (k + 1)
      BY <1>4, <1>7
    <3> QED
      BY <1>7, <2>1, <3>1, IncIsNext
  <2>3. ~Works(start + k)
    BY <1>1, <1>7, <1>8 DEF Works
  <2>4. \A j \in 0 .. (k + 1) - 1 : ~Works(start + j)
    BY <1>7, <2>3
  <2>5. \A j \in 0 .. (k + 1) - 1 : ~Architecture!HasWork(imem'[(start + j) % Depth])
    BY <1>2, <2>4 DEF Works
  <2>6. PICK m \in Nat : m = k + 1
    OBVIOUS
  <2> QED
    BY <1>2, <1>5, <2>2, <2>5, <2>6 DEF RefineInv, RanTypeOK, Skipped, Works
<1>9. CASE due.shadow # 0
  <2>1. due'.next = due.next
    BY <1>3, <1>9 DEF Fire, RefineInv, FetchInv, HistTypeOK
  <2>2. \A j \in 0 .. k - 1 : ~Architecture!HasWork(imem'[(start + j) % Depth])
    BY <1>2, <1>7 DEF Works
  <2> QED
    BY <1>2, <1>5, <1>7, <2>1, <2>2 DEF RefineInv, RanTypeOK, Skipped, Works
<1> QED
  BY <1>8, <1>9

LEMMA RefineInvInductive ==
  ASSUME Scheduled, BranchesLand, RefineInv, [HNext]_hvars
  PROVE  RefineInv'
<1>1. FetchInv'
  BY FetchInvInductive DEF RefineInv
<1>2. CASE LoadProgram /\ UNCHANGED histVars
  <2>1. ~active
    BY <1>2 DEF LoadProgram, RefineInv, FetchInv, Running
  <2> QED
    BY <1>1, <1>2, <2>1 DEF histVars, RefineInv, RanTypeOK, Skipped
<1>3. ASSUME NEW e \in Input, Cycle(e), Observe(e)
      PROVE  RanTypeOK' /\ Skipped'
  <2>1. CASE Starting(e)
    <3>1. /\ ran' = [at |-> -1, taken |-> FALSE, flip |-> FALSE]
          /\ due' = [next |-> 0, shadow |-> 0, from |-> 0]
      BY <1>3, <2>1 DEF Observe, BeginRun, Architecture!NotYet
    <3>2. Resume' = 0 /\ due'.next = 0
      BY <3>1 DEF Resume
    <3>3. 0 \in Addr /\ 0 + 0 = 0 /\ 0 .. 0 - 1 = {} /\ 0 \in Nat
      BY FetchAssumption DEF Addr
    <3>4. (0 + 0) % Depth = 0
      BY <3>3, AddrIsItself
    <3> QED
      BY <3>1, <3>2, <3>3, <3>4, FetchAssumption DEF RanTypeOK, Skipped
  <2>2. CASE ~Starting(e) /\ EngineFire(e)
    BY <1>3, <2>2, WorkFires, EmptyFires DEF Observe
  <2>3. CASE ~Starting(e) /\ ~EngineFire(e)
    <3>1. ran' = ran /\ active' = active /\ due' = due /\ imem' = imem
      BY <1>3, <2>3 DEF Observe, histVars, Cycle
    <3> QED
      BY <3>1 DEF RefineInv, RanTypeOK, Skipped, Resume, Works, Architecture!BranchTarget
  <2> QED
    BY <2>1, <2>2, <2>3
<1>4. CASE UNCHANGED hvars
  BY <1>1, <1>4 DEF hvars, vars, histVars, RefineInv, RanTypeOK, Skipped, Resume, Works,
                    Architecture!BranchTarget
<1> QED
  BY <1>1, <1>2, <1>3, <1>4 DEF HNext, RefineInv

----------------------------------------------------------------------------
(* The refinement *)

\* A bundle with work that fires is a step of the sequential machine.
LEMMA FiringRuns ==
  ASSUME RefineInv, BranchesLand, NEW e \in Input, Cycle(e), Fire(e), EngineFire(e),
         Architecture!HasWork(SlotBundle)
  PROVE  Architecture!Run
<1>1. /\ Architecture!Following = slot.at /\ active /\ SlotBundle = imem[slot.at]
  BY FiringFollows, FiringBundle DEF RefineInv
<1>2. PICK taken \in BOOLEAN : taken = JumpValid(e)
  BY DEF JumpValid, EngineFire
<1>3. Architecture!MayBeTaken(slot.at, taken)
  <2>1. CASE SlotBundle.flow \in {"jump", "jumpind"}
    BY <1>1, <1>2, <2>1 DEF JumpValid, Architecture!MayBeTaken
  <2>2. CASE SlotBundle.flow \in {"cjump", "cjumprel"}
    BY <1>1, <1>2, <2>2 DEF Architecture!MayBeTaken
  <2>3. CASE SlotBundle.flow \notin {"jump", "jumpind", "cjump", "cjumprel"}
    <3>1. ~JumpValid(e)
      BY <2>3 DEF JumpValid
    <3>2. taken = FALSE
      BY <1>2, <3>1
    <3> QED
      BY <1>1, <2>3, <3>2 DEF Architecture!MayBeTaken
  <2> QED
    BY <2>1, <2>2, <2>3
<1>4. ran' = [at |-> slot.at, taken |-> taken, flip |-> ~ran.flip]
  BY <1>2 DEF Fire
<1>5. active' = (imem[slot.at].flow # "halt")
  BY <1>1 DEF Fire, Halt
<1>6. UNCHANGED imem
  BY DEF Cycle
<1> QED
  BY <1>1, <1>3, <1>4, <1>5, <1>6 DEF Architecture!Run

LEMMA StepRefines ==
  ASSUME RefineInv, BranchesLand, HNext
  PROVE  [Architecture!Next]_(Architecture!vars)
<1>1. CASE LoadProgram /\ UNCHANGED histVars
  <2>1. ~active
    BY <1>1 DEF LoadProgram, RefineInv, FetchInv, Running
  <2>2. ran' = ran /\ active' = active
    BY <1>1 DEF histVars
  <2>3. CASE imem' = imem
    BY <2>2, <2>3 DEF Architecture!vars
  <2>4. CASE imem' # imem
    BY <2>1, <2>2, <2>4 DEF Architecture!Load, Architecture!Next
  <2> QED
    BY <2>3, <2>4
<1>2. ASSUME NEW e \in Input, Cycle(e), Observe(e)
      PROVE  [Architecture!Next]_(Architecture!vars)
  <2>0. imem' = imem
    BY <1>2 DEF Cycle
  <2>1. CASE Starting(e)
    <3>1. ~active
      BY <2>1 DEF Starting, RefineInv, FetchInv, Running
    <3>2. active' = TRUE /\ ran' = Architecture!NotYet
      BY <1>2, <2>1 DEF Observe, BeginRun
    <3> QED
      BY <2>0, <3>1, <3>2 DEF Architecture!Start, Architecture!Next
  <2>2. CASE ~Starting(e) /\ EngineFire(e) /\ Architecture!HasWork(SlotBundle)
    BY <1>2, <2>2, FiringRuns DEF Observe, Architecture!Next
  <2>3. CASE ~Starting(e) /\ EngineFire(e) /\ ~Architecture!HasWork(SlotBundle)
    <3>1. ran' = ran
      BY <1>2, <2>3 DEF Observe, Fire
    <3>2. active
      BY <2>3, FiringBundle DEF RefineInv
    <3>3. ~Halt(e)
      BY <2>3 DEF Halt, Architecture!HasWork
    <3>4. active' = active
      BY <1>2, <2>3, <3>2, <3>3 DEF Observe, Fire
    <3> QED
      BY <2>0, <3>1, <3>4 DEF Architecture!vars
  <2>4. CASE ~Starting(e) /\ ~EngineFire(e)
    BY <1>2, <2>0, <2>4 DEF Observe, histVars, Architecture!vars
  <2> QED
    BY <2>1, <2>2, <2>3, <2>4
<1> QED
  BY <1>1, <1>2 DEF HNext

\* FetchUnit, InstructionMemory and VliwCore's EX stage execute every program
\* that pads its branches one bundle after the other: each bundle with work
\* fires once, branches go where they are meant to, nothing runs behind HALT.
THEOREM PipelineExecutesInOrder ==
  ASSUME Scheduled, BranchesLand
  PROVE  HSpec => ExecutesInOrder
<1>1. HInit => RefineInv
  BY RefineInvInitially
<1>2. RefineInv /\ [HNext]_hvars => RefineInv'
  BY RefineInvInductive
<1>3. HInit => Architecture!Init
  BY DEF HInit, Architecture!Init
<1>4. RefineInv /\ [HNext]_hvars => [Architecture!Next]_(Architecture!vars)
  <2> SUFFICES ASSUME RefineInv, [HNext]_hvars
               PROVE  [Architecture!Next]_(Architecture!vars)
    OBVIOUS
  <2>1. CASE HNext
    BY <2>1, StepRefines
  <2>2. CASE UNCHANGED hvars
    BY <2>2 DEF hvars, vars, histVars, Architecture!vars
  <2> QED
    BY <2>1, <2>2
<1> QED
  BY <1>1, <1>2, <1>3, <1>4, PTL DEF HSpec, ExecutesInOrder, Architecture!Spec
=============================================================================

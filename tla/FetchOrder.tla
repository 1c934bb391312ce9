---------------------------- MODULE FetchOrder -----------------------------
(***************************************************************************)
(* The order in which the core executes bundles: FetchPipeline with two    *)
(* history variables.  "ran" records the last bundle with work that fired  *)
(* in EX and is the mapping to SequentialCore.  "due" runs ahead of it in  *)
(* the program as the hardware defines it: after a taken branch at address *)
(* a, the bundles at a+1 and a+3 still execute, then the target.           *)
(***************************************************************************)
EXTENDS FetchPipeline

VARIABLES
  ran,     \* last bundle with work that fired
  active,  \* between a start and the HALT that ends the run
  due      \* next: address after the delay slots, shadow: delay slots left,
           \* from: the branch they belong to

histVars == <<ran, active, due>>
hvars    == <<vars, histVars>>

Architecture == INSTANCE SequentialCore WITH program <- imem, running <- active

----------------------------------------------------------------------------
(* The contract a scheduled program obeys *)

Branches == {"jump", "jumpind", "cjump", "cjumprel"}

\* The scheduler pads a branch with JUMP_BUBBLE = 3 empty bundles and packs
\* nothing that can stall the pipeline with it.
BranchPadded(p, n) ==
  \A a \in Addr : p[a].flow \in Branches =>
    /\ p[a].unit \in {"none", "alu"}
    /\ n >= 1 => p[Inc(a)] = Nop
    /\ n >= 2 => p[Inc(Inc(a))] = Nop
    /\ n >= 3 => p[Inc(Inc(Inc(a)))] = Nop

\* HALT is alone in its bundle.
HaltAlone(p) == \A a \in Addr : p[a].flow = "halt" => p[a].unit = "none"

\* The hardware counts a relative branch from the pc it captured, two ahead of
\* the branch (VliwCore.scala:461): it skips the two bundles it is meant to
\* enter.  No tool knows of it; a program is safe only if both are empty.
LandingPadded(p) ==
  \A a \in Addr : p[a].flow = "cjumprel" =>
    /\ p[(a + p[a].target) % Depth] = Nop
    /\ p[(a + p[a].target + 1) % Depth] = Nop

Scheduled == \A p \in Programs : BranchPadded(p, 3) /\ HaltAlone(p)

----------------------------------------------------------------------------
Expected == CASE due.shadow = 2 -> Inc(due.from)
              [] due.shadow = 1 -> Inc(Inc(Inc(due.from)))
              [] OTHER          -> due.next

BeginRun ==
  /\ ran' = Architecture!NotYet
  /\ active' = TRUE
  /\ due' = [next |-> 0, shadow |-> 0, from |-> 0]

\* A bundle fires: engines, memory requests and flow effects take place.
Fire(e) ==
  /\ ran' = IF Architecture!HasWork(SlotBundle)
            THEN [at |-> slot.at, taken |-> JumpValid(e), flip |-> ~ran.flip]
            ELSE ran
  /\ active' = (active /\ ~Halt(e))
  /\ due' = IF JumpValid(e)
            THEN [next |-> JumpTarget, shadow |-> 2, from |-> slot.at]
            ELSE IF due.shadow > 0
                 THEN [due EXCEPT !.shadow = @ - 1]
                 ELSE [due EXCEPT !.next = Inc(@)]

Observe(e) ==
  \/ Starting(e) /\ BeginRun
  \/ ~Starting(e) /\ EngineFire(e) /\ Fire(e)
  \/ ~Starting(e) /\ ~EngineFire(e) /\ UNCHANGED histVars

HInit ==
  /\ Init
  /\ ran = Architecture!NotYet
  /\ active = FALSE
  /\ due = [next |-> 0, shadow |-> 0, from |-> 0]

HNext ==
  \/ LoadProgram /\ UNCHANGED histVars
  \/ \E e \in Input : Cycle(e) /\ Observe(e)

HSpec == HInit /\ [][HNext]_hvars

\* The engines and the memory get on with their work: infinitely often a
\* cycle passes in which nothing new stalls and everything busy finishes.
Quiet(e) ==
  /\ ~e.start /\ ~e.conflict /\ ~e.taken
  /\ e.memStall <=> \/ scopyBusy
                    \/ SlotBundle.unit = "scopy" /\ transfer # "none"
                    \/ SlotBundle.unit \in TransferUnits /\ storeBusy
  /\ e.done = {d \in {"matrix", "transfer", "scopy", "store"} :
                 \/ d = "matrix" /\ matrixBusy
                 \/ d = "transfer" /\ transfer # "none"
                 \/ d = "scopy" /\ scopyBusy
                 \/ d = "store" /\ storeBusy}

Progress == \E e \in Input : Quiet(e) /\ Cycle(e) /\ Observe(e)

LiveSpec == HSpec /\ WF_hvars(Progress)

----------------------------------------------------------------------------
(* Properties *)

\* The pipeline implements sequential execution: through every stall, bubble,
\* replayed fetch and restart, each bundle with work fires exactly once, in
\* program order, with branches going where the golden model sends them and
\* nothing after HALT (for relative branches: LandingPadded).
ExecutesInOrder == Architecture!Spec

\* The same, in the hardware's own terms and for delay slots too: a valid EX
\* slot always holds the bundle that is due, and only while a run is active.
SlotIsDue == slot.valid => active /\ slot.at = Expected

\* The pc captured with a branch is the branch's own address plus two, the
\* distance the fetch unit runs ahead, whatever stalls happened since.
BranchPcIsTwoAhead ==
  slot.valid /\ SlotBundle.flow \in Branches => slot.pc = Inc(Inc(slot.at))

\* A core that reports HALTED has no store, transfer, copy or matrix
\* operation left in flight.
HaltedMeansDrained ==
  fstate = "HALTED" => /\ ~storeBusy /\ transfer = "none"
                       /\ ~matrixBusy /\ ~scopyBusy

\* mem.io.valid is not gated by the matrix stalls, only by the slot: so a
\* bundle must never wait in EX behind a matrix engine, or its memory half
\* would fire again and again while its other half is held.
NoBundleHeldByMatrix == matrixBusy \/ transfer = "out" => ~slot.valid

\* A matrix bundle never reaches EX while an inbound transfer is still
\* filling the matrix-local memory it works on.
MatrixWaitsForTransfer ==
  slot.valid /\ SlotBundle.unit \in MatrixUnits => transfer = "none"

\* A program whose branches all lead forward; a loop may be taken for ever.
LeadsForward ==
  \A a \in Addr :
    /\ imem[a].flow = "cjumprel" => imem[a].target > 0
    /\ imem[a].flow \in Branches \ {"cjumprel"} => imem[a].target > a

\* Whatever stalled it on the way, a started program without loops ends.
EveryRunHalts == fstate = "RUNNING" /\ LeadsForward ~> fstate = "HALTED"
=============================================================================

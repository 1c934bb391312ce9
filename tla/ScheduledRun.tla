---------------------------- MODULE ScheduledRun ----------------------------
(***************************************************************************)
(* What the core makes of a compiled program.  Every cycle issues the      *)
(* bundle at pc, unless a taken branch still has its shadow to run or the  *)
(* bundle waits for a load.  A single-cycle result is written in the cycle *)
(* it issues and may be read in the next one; a quotient or a floating     *)
(* point result is written when its unit is done; loads land in order,     *)
(* whenever the memory answers.                                            *)
(*                                                                         *)
(* Values are symbolic: a register holds the cycle in which the operation  *)
(* that wrote it issued.  seq is what the registers hold when operations   *)
(* run one at a time, in program order, along the same path; mach is what  *)
(* the banks hold.                                                         *)
(***************************************************************************)
EXTENDS ScheduleContract

CONSTANT MaxClock       \* bound: cycles of a run

VARIABLES
    pc,         \* bundle to issue
    shadow,     \* cycles left of a taken branch
    clock,      \* cycles so far
    seq, mach,  \* register -> cycle of its writer
    fly,        \* results in a unit: [op, slot, tag, left]
    loads,      \* loads not answered: <<[op, tag], ...>>
    racing,     \* registers two writes compete for: see Execute
    halted

(* Where a branch may go, and what an operation may write: at most one     *)
(* register, or a vector no wider than the banks (VliwSocConfig.scala:172).*)
ASSUME RunAssumption ==
    /\ VLen <= Banks /\ MaxClock \in Nat
    /\ \A op \in Ops :
         /\ op.target \in Labels \cup {None} /\ (op.target # None => IsJump(op))
         /\ Len(op.dests) <= 1 \/ \E d \in Regs : op.dests = Lanes(d)

runVars == <<pc, shadow, clock, seq, mach, fly, loads, racing, halted>>
vars == <<contractVars, runVars>>

RunInit ==
    /\ ContractInit
    /\ pc = 0 /\ shadow = 0 /\ clock = 1
    /\ seq = [r \in Regs |-> 0] /\ mach = seq
    /\ fly = {} /\ loads = <<>> /\ racing = {}
    /\ halted = FALSE

-----------------------------------------------------------------------------
Bundle == {placed[i] : i \in At(pc)}

(* WAIT_FOR_LOAD holds the bundle while the load it names is outstanding.  *)
Blocked ==
    \E p \in Bundle : /\ p.op.name = "wait_for_load"
                      /\ \E k \in DOMAIN loads : loads[k].op.dests[1] = p.op.wait

Running == scheduled /\ ~halted /\ pc < ProgramLength /\ clock < MaxClock
Issuing == Running /\ shadow = 0 /\ ~Blocked

(* Cycles a unit of the slot works on an operation; 0 for single-cycle.    *)
UnitCycles(op) ==
    CASE op.name \in {"div", "mod", "cdiv"} -> DivBusy
      [] op.name = "fmul" -> FpMulLatency
      [] op.name \in {"fadd", "fsub", "fmax", "fmin", "i2f", "f2i", "u2f", "f2u"} -> FpAddLatency
      [] OTHER -> 0

(* The scheduler keeps a slot for as long as its unit works on an operation *)
(* and the readers away for longer.  It knows of every slow operation but  *)
(* the divisions of the vector engine.                                     *)
UnitsKnown ==
    \A op \in Ops : UnitCycles(op) > 0 =>
        /\ op.engine \in {"alu", "valu"}
        /\ op.busy >= UnitCycles(op)
        /\ op.latency > UnitCycles(op)

OneUnit(p, q) == p.op.engine = q.op.engine /\ p.slot = q.slot
IsDiv(op) == op.name \in {"div", "mod", "cdiv"}

(* The divider takes the next operation in the cycle it is done, the       *)
(* floating point unit one cycle later.                                    *)
UnitBusy(p) ==
    \E f \in fly : /\ OneUnit(f, p)
                   /\ IsDiv(f.op) <=> IsDiv(p.op)
                   /\ IsDiv(f.op) => f.left > 0

(* A unit that is done owns the write port of its slot.                    *)
PortTaken(p) == \E f \in fly : OneUnit(f, p) /\ f.left = 0

Starts(p) == UnitCycles(p.op) > 0 /\ ~UnitBusy(p)
Flies(p) == [op |-> p.op, slot |-> p.slot, tag |-> clock, left |-> UnitCycles(p.op) - 1]
Direct(p) == UnitCycles(p.op) = 0 /\ ~IsPendingLoad(p.op) /\ ~PortTaken(p)

(* What reaches the banks this cycle: <<register, tag>>.                   *)
Landing(issued) ==
    (UNION {Dests(f.op) \X {f.tag} : f \in {g \in fly : g.left = 0}})
      \cup (UNION {Dests(p.op) \X {clock} : p \in {q \in issued : Direct(q)}})

(* A bank has one write port: of two writes one is lost.                   *)
Stored(landing) ==
    {w \in SUBSET landing : \A x \in landing :
        \E y \in w : /\ Bank(y[1]) = Bank(x[1])
                     /\ \A z \in w : Bank(z[1]) = Bank(x[1]) => z = y}

Written(old, w) ==
    [r \in Regs |-> IF \E x \in w : x[1] = r THEN (CHOOSE x \in w : x[1] = r)[2]
                                             ELSE old[r]]

(* Registers of a bank that two results reach in one cycle.                *)
Colliding(landing) ==
    {x[1] : x \in {y \in landing : \E z \in landing : z # y /\ Bank(z[1]) = Bank(y[1])}}

AllDests(issued) == UNION {Dests(p.op) : p \in issued}

(* Registers some unit or load is still to write.                          *)
UnderWay ==
    (UNION {Dests(f.op) : f \in fly})
      \cup (UNION {Dests(loads[k].op) : k \in DOMAIN loads})

(* The units and the banks advance one cycle while issued enters EX.       *)
Execute(issued) ==
    /\ clock' = clock + 1
    /\ \E w \in Stored(Landing(issued)) : mach' = Written(mach, w)
    /\ fly' = {[f EXCEPT !.left = @ - 1] : f \in {g \in fly : g.left > 0}}
                \cup {Flies(p) : p \in {q \in issued : Starts(q)}}
    /\ loads' = loads \o
         LET new == {p \in issued : IsPendingLoad(p.op)}
         IN  IF new = {} THEN <<>>
                         ELSE <<[op |-> (CHOOSE p \in new : TRUE).op, tag |-> clock]>>
    /\ seq' = Written(seq, UNION {Dests(p.op) \X {clock} : p \in issued})
    /\ racing' = (racing \ AllDests(issued)) \cup (AllDests(issued) \cap UnderWay)
                    \cup Colliding(Landing(issued))

(* Where the program goes on: a branch waits for its shadow.               *)
Continue(issued) ==
    \/ /\ \A p \in issued : p.op.name # "jump"
       /\ pc' = pc + 1 /\ shadow' = 0
    \/ \E p \in {q \in issued : q.op.target # None} :
         pc' = Target(p.op) /\ shadow' = JumpBubble

Issue ==
    /\ Issuing
    /\ Execute(Bundle)
    /\ Continue(Bundle)
    /\ halted' = \E p \in Bundle : IsHalt(p.op)

(* A cycle that issues nothing: the shadow of a branch, a wait, the drain  *)
(* after the last bundle.                                                  *)
Bubble ==
    /\ scheduled /\ ~Issuing
    /\ Running \/ fly # {}
    /\ clock < MaxClock
    /\ Execute({})
    /\ shadow' = IF shadow > 0 THEN shadow - 1 ELSE 0
    /\ UNCHANGED <<pc, halted>>

(* The oldest load is answered.                                            *)
LoadLands ==
    /\ loads # <<>>
    /\ mach' = Written(mach, Dests(Head(loads).op) \X {Head(loads).tag})
    /\ loads' = Tail(loads)
    /\ UNCHANGED <<pc, shadow, clock, seq, fly, racing, halted>>

Run == (Issue \/ Bubble \/ LoadLands) /\ UNCHANGED contractVars

Stopped == scheduled /\ ~Running /\ fly = {} /\ loads = <<>>

Next == \/ ContractNext /\ UNCHANGED runVars
        \/ Run
        \/ (Stopped \/ (scheduled /\ clock = MaxClock)) /\ UNCHANGED vars

RunSpec == RunInit /\ [][Next]_vars

-----------------------------------------------------------------------------
(* What the tables of the scheduler cover.  They are kept per block and in *)
(* bundle addresses, which a branch does not respect, so code of several   *)
(* blocks counts only if every result is there in the next bundle; and no  *)
(* table says when a unit writes, so a bank's one write port is only kept  *)
(* for results that are written in the cycle they issue.                   *)
SingleCycle(op) == UnitCycles(op) = 0 /\ ~IsPendingLoad(op)
AllSingleCycle == \A i \in DOMAIN placed : SingleCycle(placed[i].op)
OneBlock == /\ \A i \in DOMAIN placed : ~IsJump(placed[i].op)
            /\ \A l \in Labels : label_pcs[l] = None
Covered == AllSingleCycle \/ OneBlock

(* An operation that issues finds in each source what the operation before *)
(* it in program order left there, unless two writes compete for that      *)
(* register: every latency, wait and forwarding distance the scheduler     *)
(* counted on is long enough.  It is about what the banks hold; whether a  *)
(* port delivers it is ReadsServed and ScheduleContract!VectorsReadAlone.  *)
OperandsFresh ==
    Issuing /\ Covered =>
      \A i \in At(pc) : \A r \in Srcs(placed[i].op) \ racing :
        /\ mach[r] = seq[r]
        /\ \A k \in At(pc) : k < i => r \notin Dests(placed[k].op)

NoUnitMet ==
    \A p \in Bundle :
        /\ UnitCycles(p.op) > 0 => ~UnitBusy(p)
        /\ UnitCycles(p.op) = 0 /\ Dests(p.op) # {} => ~PortTaken(p)

(* AluEngine.scala:108, "done never coincides with a valid non-div write", *)
(* and no division or floating point operation meets a busy unit.          *)
PortsFree == Issuing /\ Covered => NoUnitMet

(* When the program has halted and everything has landed, every register   *)
(* holds what the last operation of the program wrote there.  Single-cycle *)
(* results never compete; others may, and then only for what racing names. *)
NewestWins ==
    halted /\ fly = {} /\ loads = <<>> =>
        /\ AllSingleCycle => mach = seq
        /\ OneBlock => \A r \in Regs \ racing : mach[r] = seq[r]

(* A bank serves at most two scalar reads of a bundle, when no operation   *)
(* alone has three.                                                        *)
ReadsServed ==
    Issuing => \A b \in 0..(Banks - 1) :
        (\A p \in Bundle : ReadsOf(p.op, b) <= 2) => Reads(pc, b) <= 2

=============================================================================

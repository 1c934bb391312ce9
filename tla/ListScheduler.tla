--------------------------- MODULE ListScheduler ---------------------------
(***************************************************************************)
(* VliwScheduler.schedule: the operations and labels of a program are      *)
(* taken in order; each operation goes to the first bundle that has a slot *)
(* for it and breaks no rule, a wait for a load is put before the first    *)
(* operation of the same block that reads the loaded register, and a block *)
(* ends at a label or after a jump.  The program is not fixed: every step  *)
(* chooses the next item, so a behaviour is the compilation of one program *)
(* and TLC visits all programs of MaxItems items.                          *)
(*                                                                         *)
(* The tables of a cycle (slot_usage, cycle_writes, cycle_read_banks,      *)
(* cycle_write_banks) are functions of the operations placed there, and so *)
(* is cycle_bundles; placed keeps those operations in the order placed.    *)
(***************************************************************************)
EXTENDS SchedulerOps

CONSTANTS
    Ops,        \* the operations a program may use
    Labels,     \* the labels it may place or jump to
    MaxItems,   \* bound: items of a program
    Regs        \* the registers

(* What the constructors of SchedulerOps give: registers of the machine,   *)
(* a result no sooner than the next bundle, a load with a destination.     *)
ASSUME OpsAssumption ==
    \A op \in Ops :
        /\ op.engine \in Engines
        /\ op.dests \in Seq(Regs) /\ op.srcs \in Seq(Regs)
        /\ op.latency \in Nat /\ op.busy \in Nat
        /\ op.dests # <<>> => op.latency >= NormalLatency
        /\ IsPendingLoad(op) => op.engine = "load" /\ op.dests # <<>>
        /\ IsHalt(op) \/ IsJump(op) => op.engine = "flow"

ASSUME RegsAssumption == Regs \subseteq Nat /\ None \notin Regs /\ MaxItems \in Nat
ASSUME NoneAssumption == None \notin Int /\ None \notin Ops

VARIABLES
    placed,         \* <<[op, cycle, slot], ...>> in the order placed
    reg_ready,      \* register -> first cycle it may be read
    div_busy,       \* <<engine, slot>> -> last cycle it is busy
    pending,        \* pending_load_map: register -> base of its load, or None
    start_cycle,    \* first cycle of the block
    current_cycle,  \* first cycle the next operation may take
    label_pcs,      \* label -> cycle, or None
    pending_labels, \* labels of this block not placed yet
    item,           \* the operation whose waits are being placed, or None
    items,          \* items taken
    scheduled       \* the program has ended

schedVars == <<placed, reg_ready, div_busy, pending, start_cycle, current_cycle,
               label_pcs, pending_labels, item, items, scheduled>>

NoPending == [r \in Regs |-> None]

(* The slots that may stay busy.                                           *)
Units == UNION {{e} \X (0..(SlotLimit[e] - 1)) : e \in {"alu", "valu"}}

Init ==
    /\ placed = <<>>
    /\ reg_ready = [r \in Regs |-> 0]
    /\ div_busy = [u \in Units |-> -1]
    /\ pending = NoPending
    /\ start_cycle = 0
    /\ current_cycle = 0
    /\ label_pcs = [l \in Labels |-> None]
    /\ pending_labels = {}
    /\ item = None
    /\ items = 0
    /\ scheduled = FALSE

-----------------------------------------------------------------------------
(* Tables of a cycle.                                                      *)
At(c) == {i \in DOMAIN placed : placed[i].cycle = c}
Used(c, engine) == Cardinality({i \in At(c) : placed[i].op.engine = engine})
Writes(c, d) == \E i \in At(c) : d \in Dests(placed[i].op)
WrittenBank(c, b) == \E i \in At(c) : b \in WriteBanks(placed[i].op)

(* cycle_read_banks: how many scalar reads bank b serves in cycle c.       *)
Reads(c, b) ==
    Cardinality({read \in At(c) \X (1..3) :
                   LET ports == ReadPorts(placed[read[1]].op)
                   IN  read[2] \in DOMAIN ports /\ Bank(ports[read[2]]) = b})

(* The conditions of the search loop, in its order.                        *)
SlotFree(op, c) == Used(c, op.engine) < SlotLimit[op.engine]
HaltAlone(op, c) ==
    IF IsHalt(op) THEN At(c) = {} ELSE \A i \in At(c) : ~IsHalt(placed[i].op)
NoContention(op, c) ==
    \A i \in At(c) : /\ ~VectorBankContention(placed[i].op, op)
                     /\ ~MatrixMemoryConflict(placed[i].op, op)
NoSameDest(op, c) == \A d \in Dests(op) : ~Writes(c, d)
SlotIdleEarly(op, c) ==     \* mistake: free in the last busy cycle
    op.engine \in {"alu", "valu"} => c >= div_busy[<<op.engine, Used(c, op.engine)>>]
SlotIdle(op, c) ==
    op.engine \in {"alu", "valu"} => c > div_busy[<<op.engine, Used(c, op.engine)>>]
ReadsFitAlone(op, c) ==     \* mistake: the operation's own reads only
    \A b \in ReadBanks(op) : ReadsOf(op, b) <= 2
ReadsFit(op, c) ==
    At(c) # {} => \A b \in ReadBanks(op) :
        /\ Reads(c, b) + ReadsOf(op, b) <= 2
        /\ WrittenBank(c, b) => Reads(c, b) + ReadsOf(op, b) <= 1
WritesFitReads(op, c) ==    \* mistake: two writes to a bank are not counted
    \A b \in WriteBanks(op) : Reads(c, b) <= 1
WritesFit(op, c) ==
    \A b \in WriteBanks(op) : ~WrittenBank(c, b) /\ Reads(c, b) <= 1

Fits(op, c) ==
    /\ SlotFree(op, c)
    /\ HaltAlone(op, c)
    /\ NoContention(op, c)
    /\ NoSameDest(op, c)
    /\ SlotIdle(op, c)
    /\ ReadsFit(op, c)
    /\ WritesFit(op, c)

(* RAW: no cycle before a source is ready.                                 *)
EarlyEnoughFirst(op, c) ==  \* mistake: the first source only
    c >= current_cycle /\ (op.srcs # <<>> => c >= reg_ready[op.srcs[1]])
EarlyEnough(op, c) == c >= current_cycle /\ \A r \in Srcs(op) : c >= reg_ready[r]

(* The search: the first cycle that fits.                                  *)
FirstFit(op, c) ==
    /\ EarlyEnough(op, c)
    /\ Fits(op, c)
    /\ \A d \in current_cycle..(c - 1) : ~(EarlyEnough(op, d) /\ Fits(op, d))

(* Where the search can end: operations were placed up to current_cycle    *)
(* only, and no source or slot is waited for longer than this.             *)
Cycles == current_cycle..(current_cycle + 1 + DivLatency + FpAddRead + FpMulRead)

-----------------------------------------------------------------------------
NeededFirst(op) ==          \* mistake: the first source only
    IF op.srcs = <<>> THEN {} ELSE {pending[op.srcs[1]]} \ {None}
Needed(op) == {pending[r] : r \in Srcs(op)} \ {None}

(* Where the next operation may go once op took cycle c.                   *)
Advance(op, c) ==
    CASE IsJump(op) -> c + 1 + JumpBubble
      [] op.engine \in {"load", "store"} /\ op.name # "const" -> c + 1 + MemGap
      [] op.engine = "valu" -> c + 1 + ValuGap
      [] op.engine = "matrix" -> c + 1 + MatrixGap
      [] OTHER -> c

LastCycleLength ==          \* mistake: a block as long as the distance of its ends
    IF placed = <<>> THEN start_cycle - 1 ELSE current_cycle - 1
(* The block's last cycle; the block is empty if it placed nothing.        *)
LastCycle ==
    LET cycles == {placed[i].cycle : i \in DOMAIN placed}
        block  == {c \in cycles : c >= start_cycle}
    IN  IF block = {} THEN start_cycle - 1
                      ELSE CHOOSE c \in block : \A d \in block : d <= c

Close(next) ==
    /\ start_cycle' = next
    /\ current_cycle' = next
    /\ pending' = NoPending

(* A wait for the smallest base still needed, in the first cycle with a    *)
(* free load slot.  No other rule is asked.                                *)
PlaceWait(op) ==
    \E base \in Needed(op), c \in Cycles :
      /\ \A other \in Needed(op) : base <= other
      /\ SlotFree(WaitForLoad(base), c)
      /\ \A d \in current_cycle..(c - 1) : ~SlotFree(WaitForLoad(base), d)
      /\ placed' = Append(placed, [op |-> WaitForLoad(base), cycle |-> c,
                                   slot |-> Used(c, "load")])
      /\ current_cycle' = c + 1
      /\ pending' = [r \in Regs |-> IF pending[r] = base THEN None ELSE pending[r]]
      /\ item' = op
      /\ UNCHANGED <<reg_ready, div_busy, start_cycle, label_pcs,
                     pending_labels, items, scheduled>>

Place(op) ==
    \E c \in Cycles :
      LET slot == Used(c, op.engine)
      IN  /\ FirstFit(op, c)
          /\ placed' = Append(placed, [op |-> op, cycle |-> c, slot |-> slot])
          /\ label_pcs' = [l \in Labels |->
                             IF l \in pending_labels THEN c ELSE label_pcs[l]]
          /\ pending_labels' = {}
          /\ reg_ready' = [r \in Regs |-> IF r \in Dests(op) THEN c + op.latency
                                                             ELSE reg_ready[r]]
          /\ div_busy' = IF op.busy > 0 /\ op.engine \in {"alu", "valu"}
                         THEN [div_busy EXCEPT ![<<op.engine, slot>>] = c + op.busy]
                         ELSE div_busy
          /\ IF IsJump(op)
             THEN Close(c + 1 + JumpBubble)
             ELSE /\ current_cycle' = Advance(op, c)
                  /\ pending' = IF IsPendingLoad(op)
                                THEN [r \in Regs |-> IF r \in Dests(op)
                                        THEN op.dests[1] ELSE pending[r]]
                                ELSE pending
                  /\ UNCHANGED start_cycle
          /\ item' = None
          /\ items' = items + 1
          /\ UNCHANGED scheduled

(* One pass of the loop over the block's items, for an operation.          *)
ScheduleOp(op) ==
    /\ ~scheduled
    /\ item \in {None, op}
    /\ items < MaxItems
    /\ IF Needed(op) # {} THEN PlaceWait(op) ELSE Place(op)

(* A block that ends with its labels not placed gives them its last cycle. *)
TrailingLabels ==
    [l \in Labels |-> IF l \in pending_labels THEN current_cycle ELSE label_pcs[l]]

(* A label closes the block before it and opens the next.                  *)
TakeLabel(l) ==
    /\ ~scheduled
    /\ item = None
    /\ items < MaxItems
    /\ label_pcs[l] = None /\ l \notin pending_labels
    /\ Close(LastCycle + 1)
    /\ label_pcs' = TrailingLabels
    /\ pending_labels' = {l}
    /\ items' = items + 1
    /\ UNCHANGED <<placed, reg_ready, div_busy, item, scheduled>>

Finish ==
    /\ ~scheduled
    /\ item = None
    /\ scheduled' = TRUE
    /\ Close(LastCycle + 1)
    /\ label_pcs' = TrailingLabels
    /\ pending_labels' = {}
    /\ UNCHANGED <<placed, reg_ready, div_busy, item, items>>

Schedule ==
    \/ \E op \in Ops : ScheduleOp(op)
    \/ \E l \in Labels : TakeLabel(l)
    \/ Finish

SchedSpec == Init /\ [][Schedule]_schedVars

-----------------------------------------------------------------------------
(* _resolve_target: a label never placed is program address 0.             *)
Target(op) == IF label_pcs[op.target] # None THEN label_pcs[op.target] ELSE 0

(* The bundles emitted: the last block ends where the next would start.    *)
ProgramLength == start_cycle

=============================================================================

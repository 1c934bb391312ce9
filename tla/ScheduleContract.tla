-------------------------- MODULE ScheduleContract --------------------------
(***************************************************************************)
(* What the machine may count on in every schedule ListScheduler produces, *)
(* stated of the placements alone.  One history variable says how many     *)
(* operations had been placed when a label was taken.                      *)
(***************************************************************************)
EXTENDS ListScheduler

VARIABLE label_at       \* label -> operations placed before it, or None

contractVars == <<schedVars, label_at>>

(* What the constructors give besides: a vector operation writes VLen lanes *)
(* from a base on, arithmetic and selection have a result, and only a load *)
(* is a constant.                                                          *)
ASSUME ResultsAssumption ==
    \A op \in Ops :
        /\ op.engine = "valu" => \E d \in Regs : op.dests = Lanes(d)
        /\ op.engine \in {"alu", "flow"} /\ ReadPorts(op) # <<>>
             => op.dests # <<>> \/ IsJump(op)
        /\ op.name = "const" => op.engine = "load"

ContractInit == Init /\ label_at = [l \in Labels |-> None]

ContractNext ==
    \/ /\ \E op \in Ops : ScheduleOp(op)
       /\ UNCHANGED label_at
    \/ \E l \in Labels : /\ TakeLabel(l)
                         /\ label_at' = [label_at EXCEPT ![l] = Len(placed)]
    \/ Finish /\ UNCHANGED label_at

ContractSpec == ContractInit /\ [][ContractNext]_contractVars

-----------------------------------------------------------------------------
Reader(j, r) == r \in Srcs(placed[j].op)
Writer(i, r) == r \in Dests(placed[i].op)

(* i is the last writer of r before j.                                     *)
LastWriter(i, j, r) ==
    i < j /\ Writer(i, r) /\ \A k \in (i + 1)..(j - 1) : ~Writer(k, r)

(* The bundles keep program order.                                         *)
InOrder == \A i, j \in DOMAIN placed : i < j => placed[i].cycle <= placed[j].cycle

(* RAW: a reader comes the writer's latency after it, across blocks too as *)
(* long as control falls through.                                          *)
RawRespected ==
    \A j \in DOMAIN placed : \A r \in Srcs(placed[j].op) : \A i \in 1..(j - 1) :
        LastWriter(i, j, r) => placed[j].cycle >= placed[i].cycle + placed[i].op.latency

SameSlot(i, j) ==
    placed[i].op.engine = placed[j].op.engine /\ placed[i].slot = placed[j].slot

(* Two operations never share a slot of a bundle, the slots are those the  *)
(* machine has, and a slot's busy operation is over before the next one.   *)
SlotsExclusive ==
    \A j \in DOMAIN placed :
        /\ placed[j].slot \in 0..(SlotLimit[placed[j].op.engine] - 1)
        /\ \A i \in 1..(j - 1) : SameSlot(i, j) =>
             /\ placed[i].cycle < placed[j].cycle
             /\ placed[i].op.engine \in {"alu", "valu"} =>
                    placed[i].cycle + placed[i].op.busy < placed[j].cycle

(* BankedScratchMemory.scala:72: vector reads claim both ports on all banks*)
(* and block the scalar ones.  No check of the scheduler says so: a vector *)
(* operation writes every bank, and what could join its bundle without a   *)
(* write is kept out by the cycle the search starts from.                  *)
VectorsReadAlone ==
    VLen = Banks =>
      \A i, j \in DOMAIN placed :
        /\ placed[i].op.engine = "valu" /\ placed[j].op.engine # "valu"
        /\ placed[i].cycle = placed[j].cycle
        => ReadBanks(placed[j].op) = {}

(* A label is an address between the operations before and after it.       *)
LabelsSplit ==
    \A l \in Labels : label_pcs[l] # None =>
        \A i \in DOMAIN placed :
            IF i <= label_at[l] THEN placed[i].cycle < label_pcs[l]
                                ELSE placed[i].cycle >= label_pcs[l]

(* No label and no jump between i and j.                                   *)
SameBlock(i, j) ==
    /\ \A k \in i..(j - 1) : ~IsJump(placed[k].op)
    /\ \A l \in Labels : label_at[l] # None => ~(i <= label_at[l] /\ label_at[l] < j)

LastLoad(i, j, r) ==
    /\ i < j /\ Writer(i, r) /\ IsPendingLoad(placed[i].op)
    /\ \A k \in (i + 1)..(j - 1) : ~(Writer(k, r) /\ IsPendingLoad(placed[k].op))

(* The barrier rule: in one block, a wait for the load stands in a bundle  *)
(* of its own between a load and the operation that reads what it loads.   *)
WaitsBetween ==
    \A j \in DOMAIN placed : \A r \in Srcs(placed[j].op) : \A i \in 1..(j - 1) :
        LastLoad(i, j, r) /\ SameBlock(i, j) =>
            \E k \in (i + 1)..(j - 1) :
                /\ placed[k].op = WaitForLoad(placed[i].op.dests[1])
                /\ placed[i].cycle < placed[k].cycle
                /\ placed[k].cycle < placed[j].cycle

=============================================================================

--------------------------- MODULE ScheduleProofs ---------------------------
(***************************************************************************)
(* For every machine shape, every set of operations and every program      *)
(* length: the schedules of ListScheduler keep the order and the distances *)
(* ScheduleContract states of them.  And, where the scheduler knows the    *)
(* units (UnitsKnown): the timed machine reads fresh operands, meets its   *)
(* units and ports idle, and ends with what program order wants in the     *)
(* registers.                                                              *)
(***************************************************************************)
EXTENDS ScheduledRun, FiniteSetTheorems, TLAPS

----------------------------------------------------------------------------
(* The inductive invariant *)

Waits == {WaitForLoad(b) : b \in Regs}
Entry == [op: Ops \cup Waits, cycle: Nat, slot: Nat]

Bounds ==
  /\ placed \in Seq(Entry)
  /\ reg_ready \in [Regs -> Nat]
  /\ div_busy \in [Units -> Int]
  /\ pending \in [Regs -> Regs \cup {None}]
  /\ start_cycle \in Nat
  /\ current_cycle \in Nat
  /\ start_cycle <= current_cycle
  /\ label_pcs \in [Labels -> Nat \cup {None}]
  /\ pending_labels \subseteq Labels
  /\ item \in Ops \cup {None}
  /\ label_at \in [Labels -> Nat \cup {None}]

\* Operations whose bundle nothing joins later: the search moves on.
MovesOn(op) ==
  \/ op.engine \in {"valu", "matrix"}
  \/ op.engine \in {"load", "store"} /\ op.name # "const"
  \/ IsJump(op)

\* The search never goes back: everything placed is at or before the cycle
\* the next operation may take, and what moves the search on is before it.
Behind ==
  \A i \in DOMAIN placed :
    /\ placed[i].cycle <= current_cycle
    /\ MovesOn(placed[i].op) => placed[i].cycle < current_cycle

\* reg_ready is about the last operation that writes the register.
ReadyIsLast ==
  \A r \in Regs : \A i \in DOMAIN placed :
    LastWriter(i, Len(placed) + 1, r) =>
      reg_ready[r] = placed[i].cycle + placed[i].op.latency

\* The slots of an engine are taken from the lowest up.
SlotsFilled ==
  \A i \in DOMAIN placed : placed[i].slot < Used(placed[i].cycle, placed[i].op.engine)

\* div_busy covers every operation that occupied the slot.
BusyKept ==
  \A i \in DOMAIN placed :
    placed[i].op.engine \in {"alu", "valu"} /\ placed[i].op.busy > 0 =>
      placed[i].cycle + placed[i].op.busy
        <= div_busy[<<placed[i].op.engine, placed[i].slot>>]

\* A label is known once it was taken; while it has no address its block is
\* empty, so no load of the block is pending.
LabelsKnown ==
  /\ \A l \in Labels : (label_at[l] = None) <=> (label_pcs[l] = None /\ l \notin pending_labels)
  /\ \A l \in Labels : label_at[l] # None => label_at[l] <= Len(placed)
  /\ \A l \in pending_labels : label_pcs[l] = None /\ label_at[l] = Len(placed)
  /\ pending_labels # {} =>
       /\ current_cycle = start_cycle
       /\ pending = NoPending
       /\ \A i \in DOMAIN placed : placed[i].cycle < start_cycle
  /\ \A l \in Labels : label_pcs[l] # None =>
       label_pcs[l] <= start_cycle \/ \E i \in DOMAIN placed : label_pcs[l] <= placed[i].cycle

\* A load of the current block is still pending, or a wait for it stands in
\* a bundle before any the next operation may take.
LoadsAwaited ==
  ~scheduled => \A r \in Regs : \A i \in DOMAIN placed :
    LastLoad(i, Len(placed) + 1, r) /\ SameBlock(i, Len(placed) + 1) =>
      \/ pending[r] = placed[i].op.dests[1]
      \/ \E k \in (i + 1)..Len(placed) :
           /\ placed[k].op = WaitForLoad(placed[i].op.dests[1])
           /\ placed[i].cycle < placed[k].cycle
           /\ placed[k].cycle < current_cycle

\* What the check of the write banks before every placement leaves behind.
BanksApart ==
  \A i, j \in DOMAIN placed :
    i # j /\ placed[i].cycle = placed[j].cycle
      => WriteBanks(placed[i].op) \cap WriteBanks(placed[j].op) = {}

IInv ==
  /\ Bounds /\ Behind /\ ReadyIsLast /\ SlotsFilled /\ BusyKept /\ LabelsKnown
  /\ LoadsAwaited
  /\ InOrder /\ RawRespected /\ SlotsExclusive /\ BanksApart /\ LabelsSplit
  /\ VectorsReadAlone /\ WaitsBetween

----------------------------------------------------------------------------
(* Operations *)

LEMMA WaitFacts ==
  ASSUME NEW b
  PROVE  /\ WaitForLoad(b).engine = "load" /\ WaitForLoad(b).name = "wait_for_load"
         /\ WaitForLoad(b).dests = <<>> /\ WaitForLoad(b).srcs = <<>>
         /\ WaitForLoad(b).latency = 0 /\ WaitForLoad(b).busy = 0
BY DEF WaitForLoad, Op, NormalLatency

(* What an operation reads and writes, and a barrier neither.              *)
LEMMA OpFacts ==
  ASSUME NEW op \in Ops \cup Waits
  PROVE  /\ op.engine \in Engines /\ op.latency \in Nat /\ op.busy \in Nat
         /\ Dests(op) \subseteq Regs /\ Srcs(op) \subseteq Regs
         /\ IsPendingLoad(op) =>
              /\ op \in Ops /\ op.engine = "load" /\ op.name # "const" /\ ~IsJump(op)
              /\ op.dests[1] \in Regs
         /\ IsJump(op) => op.engine = "flow"
<1>1. CASE op \in Ops
  <2>1. op.dests \in Seq(Regs) /\ op.srcs \in Seq(Regs)
    BY <1>1, OpsAssumption
  <2>2. Dests(op) \subseteq Regs /\ Srcs(op) \subseteq Regs
    BY <2>1 DEF Dests, Srcs
  <2>3. IsPendingLoad(op) => op.dests[1] \in Regs
    BY <1>1, <2>1, OpsAssumption
  <2> QED
    BY <1>1, <2>2, <2>3, OpsAssumption DEF IsPendingLoad, IsJump
<1>2. CASE op \in Waits
  <2>1. PICK b \in Regs : op = WaitForLoad(b)
    BY <1>2 DEF Waits
  <2>2. /\ op.engine = "load" /\ op.name = "wait_for_load" /\ op.dests = <<>>
        /\ op.srcs = <<>> /\ op.latency = 0 /\ op.busy = 0
    BY <2>1, WaitFacts
  <2>3. Dests(op) = {} /\ Srcs(op) = {}
    BY <2>2 DEF Dests, Srcs
  <2>4. ~IsPendingLoad(op) /\ ~IsJump(op)
    BY <2>2 DEF IsPendingLoad, IsJump
  <2> QED
    BY <2>2, <2>3, <2>4 DEF Engines
<1> QED
  BY <1>1, <1>2

LEMMA WaitIsSilent ==
  ASSUME NEW b
  PROVE  /\ Dests(WaitForLoad(b)) = {} /\ Srcs(WaitForLoad(b)) = {}
         /\ WriteBanks(WaitForLoad(b)) = {}
         /\ ~IsPendingLoad(WaitForLoad(b)) /\ ~IsJump(WaitForLoad(b))
<1>1. Dests(WaitForLoad(b)) = {} /\ Srcs(WaitForLoad(b)) = {}
  BY WaitFacts DEF Dests, Srcs
<1> QED
  BY <1>1, WaitFacts DEF WriteBanks, IsPendingLoad, IsJump

(* The search looks at cycles from the current one on.                     *)
LEMMA CyclesAreNat ==
  ASSUME current_cycle \in Nat, NEW c \in Cycles
  PROVE  c \in Nat /\ c >= current_cycle
BY TimingAssumption DEF Cycles, DivLatency, FpAddRead, FpMulRead

(* The next operation is never put before the one just placed.             *)
LEMMA AdvanceReaches ==
  ASSUME NEW op \in Ops, NEW c \in Nat
  PROVE  /\ Advance(op, c) \in Nat /\ Advance(op, c) >= c
         /\ MovesOn(op) => Advance(op, c) > c
<1>1. JumpBubble \in Nat /\ MemGap \in Nat /\ ValuGap \in Nat /\ MatrixGap \in Nat
  BY TimingAssumption
<1>2. CASE IsJump(op)
  BY <1>1, <1>2, OpFacts DEF Advance, MovesOn
<1>3. CASE ~IsJump(op) /\ op.engine \in {"load", "store"} /\ op.name # "const"
  BY <1>1, <1>3 DEF Advance
<1>4. CASE ~IsJump(op) /\ ~(op.engine \in {"load", "store"} /\ op.name # "const")
  BY <1>1, <1>4 DEF Advance, MovesOn
<1> QED
  BY <1>2, <1>3, <1>4

----------------------------------------------------------------------------
(* One more operation placed *)

\* What placing an operation or a wait has in common.
Adds(op, c) ==
  /\ op \in Ops \cup Waits
  /\ c \in Nat
  /\ c >= current_cycle
  /\ SlotFree(op, c)
  /\ placed' = Append(placed, [op |-> op, cycle |-> c, slot |-> Used(c, op.engine)])
  /\ current_cycle' \in Nat
  /\ current_cycle' >= c
  /\ MovesOn(op) => current_cycle' > c

(* The operations of an engine in a bundle are counted.                    *)
LEMMA UsedIsNat ==
  ASSUME placed \in Seq(Entry), NEW c, NEW engine
  PROVE  Used(c, engine) \in Nat
<1>1. IsFiniteSet(1..Len(placed))
  <2>1. Len(placed) \in Int /\ 1 \in Int
    OBVIOUS
  <2> QED
    BY <2>1, FS_Interval
<1>2. {i \in At(c) : placed[i].op.engine = engine} \in SUBSET (1..Len(placed))
  BY DEF At
<1>3. IsFiniteSet({i \in At(c) : placed[i].op.engine = engine})
  BY <1>1, <1>2, FS_Subset, Zenon
<1> QED
  BY <1>3, FS_CardinalityType, Zenon DEF Used

(* The list grows by one entry at its end.                                 *)
LEMMA Grown ==
  ASSUME Bounds, NEW op, NEW c, Adds(op, c)
  PROVE  /\ Len(placed) \in Nat
         /\ DOMAIN placed = 1..Len(placed)
         /\ DOMAIN placed' = 1..(Len(placed) + 1)
         /\ Len(placed') = Len(placed) + 1
         /\ placed' \in Seq(Entry)
         /\ \A i \in 1..Len(placed) : placed'[i] = placed[i] /\ placed[i] \in Entry
         /\ placed'[Len(placed) + 1].op = op
         /\ placed'[Len(placed) + 1].cycle = c
         /\ placed'[Len(placed) + 1].slot = Used(c, op.engine)
<1> DEFINE e == [op |-> op, cycle |-> c, slot |-> Used(c, op.engine)]
<1>1. placed \in Seq(Entry)
  BY DEF Bounds
<1>2. e \in Entry
  BY <1>1, UsedIsNat DEF Adds, Entry
<1>3. e.op = op /\ e.cycle = c /\ e.slot = Used(c, op.engine)
  OBVIOUS
<1>4. placed' = Append(placed, e)
  BY DEF Adds
<1> HIDE DEF e
<1> QED
  BY <1>1, <1>2, <1>3, <1>4

(* The counts of the bundles grow with it.                                 *)
LEMMA UsedGrows ==
  ASSUME Bounds, NEW op, NEW c, Adds(op, c), NEW d, NEW engine
  PROVE  Used(d, engine)' = IF d = c /\ engine = op.engine THEN Used(d, engine) + 1
                                                          ELSE Used(d, engine)
<1> DEFINE n == Len(placed)
           S == {i \in At(d) : placed[i].op.engine = engine}
           T == {i \in At(d)' : placed'[i].op.engine = engine}
<1>1. S \in SUBSET (1..n) /\ n + 1 \notin S
  BY Grown DEF At
<1>2. IsFiniteSet(S)
  <2>1. n \in Int /\ 1 \in Int
    BY Grown
  <2>2. IsFiniteSet(1..n)
    BY <2>1, FS_Interval
  <2> QED
    BY <1>1, <2>2, FS_Subset, Zenon
<1>3. Used(d, engine) = Cardinality(S) /\ Used(d, engine)' = Cardinality(T)
  BY DEF Used
<1>4. CASE d = c /\ engine = op.engine
  <2>1. T = S \cup {n + 1}
    BY <1>4, Grown DEF At
  <2>2. Cardinality(S \cup {n + 1}) = Cardinality(S) + 1
    <3> HIDE DEF S, n
    <3> QED
      BY <1>1, <1>2, FS_AddElement
  <2> QED
    BY <1>3, <1>4, <2>1, <2>2
<1>5. CASE ~(d = c /\ engine = op.engine)
  <2>1. T = S
    BY <1>5, Grown DEF At
  <2> QED
    BY <1>3, <1>5, <2>1
<1> QED
  BY <1>4, <1>5

----------------------------------------------------------------------------
(* What one more operation preserves *)

LEMMA AddsInOrder ==
  ASSUME Bounds, Behind, InOrder, NEW op, NEW c, Adds(op, c)
  PROVE  InOrder' /\ Behind'
<1>1. \A i \in 1..Len(placed) : placed[i].cycle <= c /\ placed[i].cycle \in Nat
  <2>1. current_cycle \in Nat /\ c \in Nat /\ current_cycle <= c
    BY DEF Bounds, Adds
  <2> QED
    BY <2>1, Grown DEF Behind, Entry
<1>2. InOrder'
  <2> SUFFICES ASSUME NEW i \in 1..(Len(placed) + 1), NEW j \in 1..(Len(placed) + 1), i < j
               PROVE  placed'[i].cycle <= placed'[j].cycle
    BY Grown DEF InOrder
  <2>1. CASE j = Len(placed) + 1
    BY <2>1, <1>1, Grown
  <2>2. CASE j \in 1..Len(placed)
    BY <2>2, Grown DEF InOrder
  <2> QED
    BY <2>1, <2>2, Grown
<1>3. Behind'
  <2> SUFFICES ASSUME NEW i \in 1..(Len(placed) + 1)
               PROVE  /\ placed'[i].cycle <= current_cycle'
                      /\ MovesOn(placed'[i].op) => placed'[i].cycle < current_cycle'
    BY Grown DEF Behind, MovesOn, IsJump
  <2>1. CASE i = Len(placed) + 1
    BY <2>1, Grown DEF Adds
  <2>2. CASE i \in 1..Len(placed)
    BY <2>2, <1>1, Grown DEF Adds, Behind, Bounds
  <2> QED
    BY <2>1, <2>2, Grown
<1> QED
  BY <1>2, <1>3

(* Slots: the new operation takes the lowest free one.                     *)
LEMMA AddsSlotsFilled ==
  ASSUME Bounds, SlotsFilled, NEW op, NEW c, Adds(op, c)
  PROVE  SlotsFilled'
<1> SUFFICES ASSUME NEW i \in 1..(Len(placed) + 1)
             PROVE  (placed[i].slot < Used(placed[i].cycle, placed[i].op.engine))'
  <2> HIDE DEF Adds
  <2> QED
    BY Grown DEF SlotsFilled
<1>1. CASE i = Len(placed) + 1
  <2>1. Used(c, op.engine)' = Used(c, op.engine) + 1
    BY UsedGrows
  <2>2. Used(c, op.engine) \in Nat
    BY UsedIsNat DEF Bounds
  <2> QED
    BY <1>1, <2>1, <2>2, Grown
<1>2. CASE i \in 1..Len(placed)
  <2>1. PICK d, engine : d = placed[i].cycle /\ engine = placed[i].op.engine
    OBVIOUS
  <2>2. placed'[i] = placed[i] /\ placed[i].slot \in Nat
    BY <1>2, Grown DEF Entry
  <2>3. placed[i].slot < Used(d, engine)
    BY <1>2, <2>1, Grown DEF SlotsFilled
  <2>4. Used(d, engine) \in Nat
    BY UsedIsNat DEF Bounds
  <2>5. Used(d, engine)' = Used(d, engine) \/ Used(d, engine)' = Used(d, engine) + 1
    BY UsedGrows
  <2>6. Used(placed[i].cycle, placed[i].op.engine)' = Used(d, engine)'
    BY <2>1, <2>2 DEF Used, At
  <2> QED
    BY <2>2, <2>3, <2>4, <2>5, <2>6
<1> QED
  BY <1>1, <1>2, Grown

(* A slot is never shared, and never used while it is busy.                *)
LEMMA AddsSlotsExclusive ==
  ASSUME Bounds, Behind, SlotsFilled, BusyKept, SlotsExclusive,
         NEW op, NEW c, Adds(op, c),
         op.engine \in {"alu", "valu"} => SlotIdle(op, c)
  PROVE  SlotsExclusive'
<1> DEFINE n == Len(placed)
<1>1. op.engine \in Engines /\ Used(c, op.engine) \in Nat /\ Used(c, op.engine) < SlotLimit[op.engine]
  BY OpFacts, UsedIsNat DEF Adds, SlotFree, Bounds
<1>2. SlotLimit[op.engine] \in Nat
  BY <1>1, SlotAssumption
<1> SUFFICES ASSUME NEW j \in 1..(n + 1)
             PROVE  /\ placed'[j].slot \in 0..(SlotLimit[placed'[j].op.engine] - 1)
                    /\ \A i \in 1..(j - 1) : SameSlot(i, j)' =>
                         /\ placed'[i].cycle < placed'[j].cycle
                         /\ placed'[i].op.engine \in {"alu", "valu"} =>
                              placed'[i].cycle + placed'[i].op.busy < placed'[j].cycle
  BY Grown DEF SlotsExclusive
<1>3. CASE j \in 1..n
  <2>1. placed'[j] = placed[j] /\ j \in DOMAIN placed
        /\ \A i \in 1..(j - 1) : placed'[i] = placed[i]
    BY <1>3, Grown
  <2>2. \A i \in 1..(j - 1) : SameSlot(i, j)' = SameSlot(i, j)
    BY <2>1 DEF SameSlot
  <2> QED
    BY <2>1, <2>2 DEF SlotsExclusive
<1>4. CASE j = n + 1
  <2>1. placed'[j].op = op /\ placed'[j].cycle = c /\ placed'[j].slot = Used(c, op.engine)
    BY <1>4, Grown
  <2>2. placed'[j].slot \in 0..(SlotLimit[placed'[j].op.engine] - 1)
    BY <1>1, <1>2, <2>1
  <2>3. ASSUME NEW i \in 1..(j - 1), SameSlot(i, j)'
        PROVE  /\ placed'[i].cycle < placed'[j].cycle
               /\ placed'[i].op.engine \in {"alu", "valu"} =>
                    placed'[i].cycle + placed'[i].op.busy < placed'[j].cycle
    <3>1. i \in 1..n /\ placed'[i] = placed[i] /\ placed[i] \in Entry /\ i \in DOMAIN placed
      BY <1>4, Grown
    <3>2. placed[i].op.engine = op.engine /\ placed[i].slot = Used(c, op.engine)
      BY <2>1, <2>3, <3>1 DEF SameSlot
    <3>3. placed[i].cycle \in Nat /\ placed[i].cycle <= c
      BY <3>1 DEF Entry, Behind, Bounds, Adds
    <3>4. placed[i].cycle # c
      <4>1. placed[i].slot < Used(placed[i].cycle, placed[i].op.engine)
        BY <3>1 DEF SlotsFilled
      <4> QED
        BY <4>1, <3>2, <1>1
    <3>5. placed[i].cycle < c
      BY <3>3, <3>4 DEF Adds
    <3>6. ASSUME op.engine \in {"alu", "valu"}
          PROVE  placed[i].cycle + placed[i].op.busy < c
      <4>1. placed[i].op.busy \in Nat
        BY <3>1, OpFacts DEF Entry
      <4>2. CASE placed[i].op.busy = 0
        BY <4>2, <3>3, <3>5
      <4>3. CASE placed[i].op.busy > 0
        <5>1. placed[i].cycle + placed[i].op.busy <= div_busy[<<op.engine, Used(c, op.engine)>>]
          BY <4>3, <3>1, <3>2, <3>6 DEF BusyKept
        <5>2. c > div_busy[<<op.engine, Used(c, op.engine)>>]
          BY <3>6 DEF SlotIdle
        <5>3. <<op.engine, Used(c, op.engine)>> \in Units
          BY <1>1, <1>2, <3>6 DEF Units
        <5>4. div_busy[<<op.engine, Used(c, op.engine)>>] \in Int
          BY <5>3 DEF Bounds
        <5> QED
          BY <5>1, <5>2, <5>4, <3>3, <4>1 DEF Adds
      <4> QED
        BY <4>1, <4>2, <4>3
    <3> QED
      BY <2>1, <3>1, <3>2, <3>5, <3>6
  <2> QED
    BY <2>2, <2>3
<1> QED
  BY <1>3, <1>4, Grown

LEMMA AddsBusyKept ==
  ASSUME Bounds, BusyKept, SlotsExclusive, NEW op, NEW c, Adds(op, c),
         op.engine \in {"alu", "valu"} => SlotIdle(op, c),
         div_busy' = IF op.busy > 0 /\ op.engine \in {"alu", "valu"}
                     THEN [div_busy EXCEPT ![<<op.engine, Used(c, op.engine)>>] = c + op.busy]
                     ELSE div_busy
  PROVE  BusyKept' /\ div_busy' \in [Units -> Int]
<1> DEFINE n == Len(placed)
           u == <<op.engine, Used(c, op.engine)>>
<1>1. op.busy \in Nat /\ c \in Nat /\ div_busy \in [Units -> Int]
  BY OpFacts DEF Adds, Bounds
<1>2. ASSUME op.engine \in {"alu", "valu"}
      PROVE  u \in Units /\ c > div_busy[u]
  <2>1. Used(c, op.engine) \in Nat /\ Used(c, op.engine) < SlotLimit[op.engine]
    BY UsedIsNat DEF Adds, SlotFree, Bounds
  <2>2. SlotLimit[op.engine] \in Nat
    BY <1>2, SlotAssumption DEF Engines
  <2>3. u \in Units
    BY <1>2, <2>1, <2>2 DEF Units
  <2> QED
    BY <1>2, <2>3 DEF SlotIdle
<1>3. div_busy' \in [Units -> Int]
  <2>1. div_busy' = IF op.busy > 0 /\ op.engine \in {"alu", "valu"}
                    THEN [div_busy EXCEPT ![u] = c + op.busy] ELSE div_busy
    OBVIOUS
  <2>2. c + op.busy \in Int
    BY <1>1
  <2> HIDE DEF u
  <2>3. [div_busy EXCEPT ![u] = c + op.busy] \in [Units -> Int]
    BY <1>1, <2>2
  <2>4. CASE op.busy > 0 /\ op.engine \in {"alu", "valu"}
    BY <2>1, <2>3, <2>4
  <2>5. CASE ~(op.busy > 0 /\ op.engine \in {"alu", "valu"})
    BY <1>1, <2>1, <2>5
  <2> QED
    BY <2>4, <2>5
<1>4. \A v \in Units : div_busy'[v] >= div_busy[v]
  <2> SUFFICES ASSUME NEW v \in Units
               PROVE  div_busy'[v] >= div_busy[v]
    OBVIOUS
  <2>1. CASE op.busy > 0 /\ op.engine \in {"alu", "valu"}
    <3>1. div_busy' = [div_busy EXCEPT ![u] = c + op.busy]
      BY <2>1
    <3> HIDE DEF u
    <3>2. CASE v = u
      BY <3>1, <3>2, <1>1, <1>2, <2>1
    <3>3. CASE v # u
      BY <3>1, <3>3, <1>1
    <3> QED
      BY <3>2, <3>3
  <2>2. CASE ~(op.busy > 0 /\ op.engine \in {"alu", "valu"})
    BY <2>2, <1>1
  <2> QED
    BY <2>1, <2>2
<1>5. ASSUME NEW i \in 1..(n + 1), placed'[i].op.engine \in {"alu", "valu"},
             placed'[i].op.busy > 0
      PROVE  placed'[i].cycle + placed'[i].op.busy
               <= div_busy'[<<placed'[i].op.engine, placed'[i].slot>>]
  <2>1. CASE i = n + 1
    <3>1. placed'[i].op = op /\ placed'[i].cycle = c /\ placed'[i].slot = Used(c, op.engine)
      BY <2>1, Grown
    <3>2. div_busy' = [div_busy EXCEPT ![u] = c + op.busy] /\ u \in Units
      BY <3>1, <1>2, <1>5
    <3>3. div_busy'[u] = c + op.busy
      <4> HIDE DEF u
      <4> QED
        BY <3>2, <1>1
    <3> QED
      BY <3>1, <3>3, <1>1
  <2>2. CASE i \in 1..n
    <3> DEFINE v == <<placed[i].op.engine, placed[i].slot>>
    <3>1. placed'[i] = placed[i] /\ placed[i] \in Entry /\ i \in DOMAIN placed
      BY <2>2, Grown
    <3>2. placed[i].cycle + placed[i].op.busy <= div_busy[v]
      BY <1>5, <3>1 DEF BusyKept
    <3>3. placed[i].slot \in 0..(SlotLimit[placed[i].op.engine] - 1)
      BY <3>1 DEF SlotsExclusive
    <3>4. v \in Units
      BY <1>5, <3>1, <3>3 DEF Units
    <3>5. placed[i].cycle \in Nat /\ placed[i].op.busy \in Nat
      BY <3>1, OpFacts DEF Entry
    <3>6. div_busy'[v] >= div_busy[v] /\ div_busy[v] \in Int /\ div_busy'[v] \in Int
      <4> HIDE DEF v
      <4> QED
        BY <3>4, <1>1, <1>3, <1>4
    <3> QED
      BY <3>1, <3>2, <3>5, <3>6
  <2> QED
    BY <2>1, <2>2
<1> QED
  BY <1>3, <1>5, Grown DEF BusyKept

(* Nothing is said differently of the operations that were there before.   *)
LEMMA OldPairs ==
  ASSUME Bounds, NEW op, NEW c, Adds(op, c), label_at' = label_at,
         NEW i \in 1..Len(placed), NEW j \in 1..(Len(placed) + 1), NEW r
  PROVE  /\ LastWriter(i, j, r)' <=> LastWriter(i, j, r)
         /\ LastLoad(i, j, r)' <=> LastLoad(i, j, r)
         /\ SameBlock(i, j)' <=> SameBlock(i, j)
<1>1. \A k \in i..(j - 1) : k \in 1..Len(placed) /\ placed'[k] = placed[k]
  BY Grown
<1>2. \A k \in 1..Len(placed) : Writer(k, r)' <=> Writer(k, r)
  BY Grown DEF Writer
<1>3. \A k \in (i + 1)..(j - 1) : k \in i..(j - 1)
  BY Grown
<1>4. placed'[i] = placed[i]
  BY Grown
<1>5. LastWriter(i, j, r)' <=> LastWriter(i, j, r)
  BY <1>1, <1>2, <1>3 DEF LastWriter
<1>6. LastLoad(i, j, r)' <=> LastLoad(i, j, r)
  BY <1>1, <1>2, <1>3, <1>4 DEF LastLoad
<1>7. SameBlock(i, j)' <=> SameBlock(i, j)
  BY <1>1 DEF SameBlock
<1> QED
  BY <1>5, <1>6, <1>7

(* A reader waits for the last writer of each of its sources.              *)
LEMMA AddsRaw ==
  ASSUME Bounds, ReadyIsLast, RawRespected, NEW op, NEW c, Adds(op, c),
         label_at' = label_at,
         \A r \in Srcs(op) : c >= reg_ready[r],
         reg_ready' = [r \in Regs |-> IF r \in Dests(op) THEN c + op.latency
                                                         ELSE reg_ready[r]]
  PROVE  ReadyIsLast' /\ RawRespected'
<1>0. PICK n, m, l : n = Len(placed) /\ m = n + 1 /\ l = m + 1
  OBVIOUS
<1>1. /\ n = Len(placed) /\ m = n + 1 /\ l = m + 1 /\ n \in Nat /\ DOMAIN placed = 1..n /\ DOMAIN placed' = 1..(n + 1)
      /\ Len(placed') = n + 1
      /\ \A i \in 1..n : placed'[i] = placed[i] /\ placed[i] \in Entry
      /\ placed'[n + 1].op = op /\ placed'[n + 1].cycle = c
  BY <1>0, Grown
<1>2. ReadyIsLast'
  <2> SUFFICES ASSUME NEW r \in Regs, NEW i \in 1..m, LastWriter(i, l, r)'
               PROVE  reg_ready'[r] = placed'[i].cycle + placed'[i].op.latency
    BY <1>1 DEF ReadyIsLast, LastWriter, Writer
  <2>1. CASE i = m
    <3>1. r \in Dests(op)
      BY <1>1, <2>1 DEF LastWriter, Writer
    <3> QED
      BY <1>1, <2>1, <3>1
  <2>2. CASE i \in 1..n
    <3>1. m \in (i + 1)..(l - 1)
      BY <1>1, <2>2
    <3>2. r \notin Dests(op)
      BY <1>1, <3>1 DEF LastWriter, Writer
    <3>3. LastWriter(i, m, r)'
      <4>1. \A k \in (i + 1)..(m - 1) : k \in (i + 1)..(l - 1)
        BY <1>1, <2>2
      <4>2. i < m
        BY <1>1, <2>2
      <4>3. Writer(i, r)' /\ \A k \in (i + 1)..(l - 1) : ~Writer(k, r)'
        BY DEF LastWriter
      <4>4. \A k \in (i + 1)..(m - 1) : ~Writer(k, r)'
        BY <4>1, <4>3
      <4> QED
        BY <4>2, <4>3, <4>4 DEF LastWriter
    <3>4. LastWriter(i, m, r)
      <4>1. m \in 1..m
        BY <1>1
      <4> QED
        BY <1>1, <2>2, <3>3, <4>1, OldPairs
    <3>5. reg_ready[r] = placed[i].cycle + placed[i].op.latency
      BY <1>1, <2>2, <3>4 DEF ReadyIsLast
    <3> QED
      BY <1>1, <2>2, <3>2, <3>5
  <2> QED
    BY <1>1, <2>1, <2>2
<1>3. RawRespected'
  <2> SUFFICES ASSUME NEW j \in 1..(n + 1), NEW r \in Srcs(placed'[j].op),
                      NEW i \in 1..(j - 1), LastWriter(i, j, r)'
               PROVE  placed'[j].cycle >= placed'[i].cycle + placed'[i].op.latency
    BY <1>1 DEF RawRespected, Srcs
  <2>0. i \in 1..n /\ placed'[i] = placed[i]
    BY <1>1
  <2>1. LastWriter(i, j, r)
    BY <1>1, <2>0, OldPairs
  <2>2. CASE j = n + 1
    <3>1. r \in Srcs(op) /\ r \in Regs
      BY <1>1, <2>2, OpFacts DEF Adds
    <3>2. reg_ready[r] = placed[i].cycle + placed[i].op.latency
      BY <1>1, <2>0, <2>1, <2>2, <3>1 DEF ReadyIsLast
    <3> QED
      BY <1>1, <2>0, <2>2, <3>1, <3>2
  <2>3. CASE j \in 1..n
    BY <1>1, <2>0, <2>1, <2>3 DEF RawRespected
  <2> QED
    BY <1>1, <2>2, <2>3
<1> QED
  BY <1>2, <1>3

LEMMA AddsBanksApart ==
  ASSUME Bounds, BanksApart, NEW op, NEW c, Adds(op, c),
         \A i \in At(c) : WriteBanks(placed[i].op) \cap WriteBanks(op) = {}
  PROVE  BanksApart'
<1> SUFFICES ASSUME NEW i \in 1..(Len(placed) + 1), NEW j \in 1..(Len(placed) + 1),
                    i # j, placed'[i].cycle = placed'[j].cycle
             PROVE  (WriteBanks(placed[i].op) \cap WriteBanks(placed[j].op) = {})'
  BY Grown DEF BanksApart
<1>0. ASSUME NEW k, NEW other, placed'[k].op = other
      PROVE  WriteBanks(placed[k].op)' = WriteBanks(other)
  BY <1>0 DEF WriteBanks, Dests
<1>1. CASE i = Len(placed) + 1
  BY <1>0, <1>1, Grown DEF At
<1>2. CASE j = Len(placed) + 1
  BY <1>0, <1>2, Grown DEF At
<1>3. CASE i \in 1..Len(placed) /\ j \in 1..Len(placed)
  BY <1>0, <1>3, Grown DEF BanksApart
<1> QED
  BY <1>1, <1>2, <1>3, Grown

(* VLen registers from any base on reach every bank when there are as many *)
(* banks as lanes.                                                         *)
LEMMA LanesReachAll ==
  ASSUME NEW d \in Nat, NEW r \in Nat, VLen = Banks
  PROVE  \E k \in 1..VLen : Bank(Lanes(d)[k]) = Bank(r)
<1>1. Banks \in Nat \ {0}
  BY TimingAssumption
<1>2. \A n \in Nat : n \div Banks \in Nat /\ n % Banks \in 0..(Banks - 1)
                   /\ n = Banks * (n \div Banks) + (n % Banks)
  BY <1>1
<1>3. \A q \in Nat, b \in 0..(Banks - 1) : (Banks * q + b) % Banks = b
  <2> SUFFICES ASSUME NEW q \in Nat, NEW b \in 0..(Banks - 1)
               PROVE  (Banks * q + b) % Banks = b
    OBVIOUS
  <2>1. PICK n, e, a : /\ n = Banks * q + b /\ e = n \div Banks /\ a = n % Banks
    OBVIOUS
  <2>2. n \in Nat
    BY <1>1, <2>1
  <2>3. e \in Nat /\ a \in 0..(Banks - 1) /\ n = Banks * e + a
    BY <1>2, <2>1, <2>2
  <2>4. Banks * (q - e) = a - b
    BY <1>1, <2>1, <2>3
  <2>5. -Banks < a - b /\ a - b < Banks
    BY <1>1, <2>3
  <2>6. q - e < 1 /\ q - e > -1
    <3>1. PICK x \in Int : x = q - e
      BY <2>3
    <3>2. Banks * x < Banks /\ -Banks < Banks * x
      BY <2>4, <2>5, <3>1
    <3>3. ~(x >= 1)
      BY <1>1, <3>1, <3>2
    <3>4. ~(x <= -1)
      BY <1>1, <3>1, <3>2
    <3> QED
      BY <3>1, <3>3, <3>4
  <2>7. a = b
    BY <1>1, <2>3, <2>4, <2>6
  <2> QED
    BY <2>1, <2>7
<1>4. PICK q, a, b : /\ q = d \div Banks /\ a = d % Banks /\ b = r % Banks
  OBVIOUS
<1>5. q \in Nat /\ a \in 0..(Banks - 1) /\ b \in 0..(Banks - 1) /\ d = Banks * q + a
  BY <1>2, <1>4
<1>6. \A k \in 1..VLen : Lanes(d)[k] = d + k - 1
  BY DEF Lanes
<1>7. CASE a <= b
  <2>1. b - a + 1 \in 1..VLen
    BY <1>1, <1>5, <1>7
  <2>2. Lanes(d)[b - a + 1] = Banks * q + b
    BY <1>1, <1>5, <1>6, <2>1
  <2>3. Bank(Lanes(d)[b - a + 1]) = b
    BY <1>3, <1>5, <2>2 DEF Bank
  <2> QED
    BY <1>4, <2>1, <2>3 DEF Bank
<1>8. CASE a > b
  <2>1. Banks + b - a + 1 \in 1..VLen
    BY <1>1, <1>5, <1>8
  <2>2. Lanes(d)[Banks + b - a + 1] = Banks * (q + 1) + b
    BY <1>1, <1>5, <1>6, <2>1
  <2>3. Bank(Lanes(d)[Banks + b - a + 1]) = b
    <3>1. q + 1 \in Nat
      BY <1>5
    <3> QED
      BY <1>3, <1>5, <2>2, <3>1 DEF Bank
  <2> QED
    BY <1>4, <2>1, <2>3 DEF Bank
<1> QED
  BY <1>5, <1>7, <1>8

(* A bundle that already holds a reader the search has not moved on from   *)
(* holds a write, and a vector operation writes every bank; a bundle with  *)
(* a vector operation takes nothing later.                                 *)
LEMMA AddsVectorsReadAlone ==
  ASSUME Bounds, Behind, VectorsReadAlone, NEW op, NEW c, Adds(op, c),
         \A i \in At(c) : WriteBanks(placed[i].op) \cap WriteBanks(op) = {}
  PROVE  VectorsReadAlone'
<1>0. PICK n : n = Len(placed)
  OBVIOUS
<1>1. /\ n \in Nat /\ DOMAIN placed = 1..n /\ DOMAIN placed' = 1..(n + 1)
      /\ \A i \in 1..n : placed'[i] = placed[i] /\ placed[i] \in Entry
      /\ placed'[n + 1].op = op /\ placed'[n + 1].cycle = c
  BY <1>0, Grown
<1>2. ASSUME NEW i \in 1..n, placed[i].cycle = c
      PROVE  ~MovesOn(placed[i].op)
  <2>1. placed[i].cycle <= current_cycle /\ (MovesOn(placed[i].op) => placed[i].cycle < current_cycle)
    BY <1>1 DEF Behind
  <2>2. c >= current_cycle /\ c \in Nat /\ current_cycle \in Nat
    BY DEF Adds, Bounds
  <2> QED
    BY <1>2, <2>1, <2>2
<1> SUFFICES ASSUME VLen = Banks, NEW i \in 1..(n + 1), NEW j \in 1..(n + 1),
                    placed'[i].op.engine = "valu", placed'[j].op.engine # "valu",
                    placed'[i].cycle = placed'[j].cycle,
                    ReadBanks(placed[j].op)' # {}
             PROVE  FALSE
  BY <1>1 DEF VectorsReadAlone
<1>3. CASE i \in 1..n /\ j \in 1..n
  <2>1. PICK old : old = placed[j].op
    OBVIOUS
  <2>2. placed'[j].op = old
    BY <1>1, <1>3, <2>1
  <2>3. ReadBanks(old) # {}
    BY <2>2 DEF ReadBanks, ReadPorts, IsRealMemoryOp, IsScopy, IsJump
  <2> QED
    BY <1>1, <1>3, <2>1, <2>2, <2>3 DEF VectorsReadAlone
<1>4. CASE i \in 1..n /\ j = n + 1
  BY <1>1, <1>2, <1>4 DEF MovesOn
<1>5. CASE i = n + 1 /\ j \in 1..n
  <2>1. PICK old : old = placed[j].op
    OBVIOUS
  <2>2. /\ placed'[j].op = old /\ placed[j].cycle = c /\ old \in Ops \cup Waits
        /\ old.engine # "valu" /\ ~MovesOn(old) /\ j \in At(c)
    BY <1>1, <1>2, <1>5, <2>1 DEF At, Entry
  <2>3. ReadBanks(old) # {}
    BY <2>2 DEF ReadBanks, ReadPorts, IsRealMemoryOp, IsScopy, IsJump
  <2>4. ReadPorts(old) # <<>>
    BY <2>3 DEF ReadBanks
  <2>5. old.engine \in {"alu", "flow"} /\ ~IsJump(old) /\ old \in Ops
    <3>1. old.engine \in Engines
      BY <2>2, OpFacts
    <3>2. old.engine # "load"
      <4>1. SUFFICES ASSUME old.engine = "load" PROVE FALSE
        OBVIOUS
      <4>2. old.name = "const"
        BY <2>2, <4>1 DEF MovesOn
      <4>3. ReadPorts(old) = <<>>
        BY <4>1, <4>2 DEF ReadPorts, IsRealMemoryOp, IsJump
      <4> QED
        BY <2>4, <4>3
    <3>3. old \notin Waits
      BY <3>2, WaitFacts DEF Waits
    <3>4. old \in Ops /\ (old.name = "const" => old.engine = "load")
      BY <2>2, <3>3, ResultsAssumption
    <3> QED
      BY <2>2, <3>1, <3>2, <3>4 DEF MovesOn, Engines
  <2>6. old.dests # <<>> /\ old.dests \in Seq(Regs)
    BY <2>4, <2>5, ResultsAssumption, OpsAssumption
  <2>7. PICK r \in Regs : r \in Dests(old) /\ r \in Nat
    <3>1. 1 \in DOMAIN old.dests /\ old.dests[1] \in Regs
      BY <2>6
    <3> QED
      BY <3>1, RegsAssumption DEF Dests
  <2>8. op.engine = "valu" /\ op \in Ops
    BY <1>1, <1>5, WaitFacts DEF Adds, Waits
  <2>9. PICK d \in Regs : op.dests = Lanes(d)
    BY <2>8, ResultsAssumption
  <2>10. PICK k \in 1..VLen : Bank(Lanes(d)[k]) = Bank(r)
    BY <2>7, RegsAssumption, LanesReachAll
  <2>11. Lanes(d)[k] \in Dests(op)
    BY <2>9, <2>10 DEF Dests, Lanes
  <2>12. Bank(r) \in WriteBanks(old) \cap WriteBanks(op)
    BY <2>7, <2>10, <2>11 DEF WriteBanks
  <2> QED
    BY <2>1, <2>2, <2>12
<1>6. CASE i = n + 1 /\ j = n + 1
  BY <1>6
<1> QED
  BY <1>1, <1>3, <1>4, <1>5, <1>6

(* A reader of a loaded register comes after the wait for the load.        *)
LEMMA AddsWaitsBetween ==
  ASSUME Bounds, LoadsAwaited, WaitsBetween, ~scheduled, NEW op, NEW c, Adds(op, c),
         label_at' = label_at,
         \A r \in Srcs(op) : pending[r] = None
  PROVE  WaitsBetween'
<1>0. PICK n : n = Len(placed)
  OBVIOUS
<1>1. /\ n = Len(placed) /\ n \in Nat /\ DOMAIN placed = 1..n /\ DOMAIN placed' = 1..(n + 1)
      /\ Len(placed') = n + 1
      /\ \A i \in 1..n : placed'[i] = placed[i] /\ placed[i] \in Entry
      /\ placed'[n + 1].op = op /\ placed'[n + 1].cycle = c
  BY <1>0, Grown
<1> SUFFICES ASSUME NEW j \in 1..(n + 1), NEW r \in Srcs(placed'[j].op),
                    NEW i \in 1..(j - 1), LastLoad(i, j, r)', SameBlock(i, j)'
             PROVE  \E k \in (i + 1)..(j - 1) :
                      /\ placed'[k].op = WaitForLoad(placed'[i].op.dests[1])
                      /\ placed'[i].cycle < placed'[k].cycle
                      /\ placed'[k].cycle < placed'[j].cycle
  BY <1>1 DEF WaitsBetween, Srcs
<1>2. i \in 1..n /\ placed'[i] = placed[i]
  BY <1>1
<1>3. LastLoad(i, j, r) /\ SameBlock(i, j)
  BY <1>1, <1>2, OldPairs
<1>4. CASE j = n + 1
  <2>1. r \in Srcs(op) /\ r \in Regs
    BY <1>1, <1>4, OpFacts DEF Adds
  <2>2. pending[r] # placed[i].op.dests[1]
    <3>1. placed[i].op.dests[1] \in Regs
      BY <1>1, <1>2, <1>3, OpFacts DEF LastLoad, Entry
    <3> QED
      BY <2>1, <3>1, RegsAssumption
  <2>3. PICK k \in (i + 1)..n :
           /\ placed[k].op = WaitForLoad(placed[i].op.dests[1])
           /\ placed[i].cycle < placed[k].cycle
           /\ placed[k].cycle < current_cycle
    BY <1>1, <1>2, <1>3, <1>4, <2>1, <2>2 DEF LoadsAwaited
  <2>4. k \in 1..n /\ placed'[k] = placed[k] /\ placed[k].cycle \in Nat
    BY <1>1, <1>2, <2>3 DEF Entry
  <2>5. placed[k].cycle < c
    BY <2>3, <2>4 DEF Adds, Bounds
  <2> QED
    BY <1>1, <1>2, <1>4, <2>3, <2>4, <2>5
<1>5. CASE j \in 1..n
  <2>1. \E k \in (i + 1)..(j - 1) :
           /\ placed[k].op = WaitForLoad(placed[i].op.dests[1])
           /\ placed[i].cycle < placed[k].cycle
           /\ placed[k].cycle < placed[j].cycle
    BY <1>1, <1>3, <1>5 DEF WaitsBetween
  <2> QED
    BY <1>1, <1>2, <1>5, <2>1
<1> QED
  BY <1>1, <1>4, <1>5

(* The loads of the block stay accounted for: a new load is pending, and   *)
(* a load that is no longer pending has its wait.                          *)
LEMMA AddsLoadsAwaited ==
  ASSUME Bounds, Behind, LoadsAwaited, NEW op, NEW c, Adds(op, c),
         ~scheduled, label_at' = label_at,
         ~IsJump(op) => \A r \in Regs :
           IF IsPendingLoad(op) /\ r \in Dests(op)
           THEN pending'[r] = op.dests[1]
           ELSE pending'[r] = pending[r] \/ (op = WaitForLoad(pending[r]) /\ current_cycle' > c)
  PROVE  LoadsAwaited'
<1>0. PICK n, m, l : n = Len(placed) /\ m = n + 1 /\ l = m + 1
  OBVIOUS
<1>1. /\ n = Len(placed) /\ m = n + 1 /\ l = m + 1 /\ n \in Nat
      /\ DOMAIN placed = 1..n /\ DOMAIN placed' = 1..m /\ Len(placed') = m
      /\ \A i \in 1..n : placed'[i] = placed[i] /\ placed[i] \in Entry
      /\ placed'[m].op = op /\ placed'[m].cycle = c
  BY <1>0, Grown
<1>2. Len(placed') + 1 = l
  BY <1>1
<1> SUFFICES ASSUME NEW r \in Regs, NEW i \in 1..m, LastLoad(i, l, r)', SameBlock(i, l)'
             PROVE  \/ pending'[r] = placed'[i].op.dests[1]
                    \/ \E k \in (i + 1)..m :
                         /\ placed'[k].op = WaitForLoad(placed'[i].op.dests[1])
                         /\ placed'[i].cycle < placed'[k].cycle
                         /\ placed'[k].cycle < current_cycle'
  BY <1>1, <1>2 DEF LoadsAwaited, LastLoad, SameBlock, Writer
<1>3. ~IsJump(op)
  <2>1. m \in i..(l - 1)
    BY <1>1
  <2>2. \A k \in i..(l - 1) : ~IsJump(placed'[k].op)
    BY DEF SameBlock, IsJump
  <2> QED
    BY <1>1, <2>1, <2>2
<1>4. CASE i = m
  <2>1. Writer(m, r)' /\ IsPendingLoad(placed'[m].op)
    BY <1>4 DEF LastLoad, IsPendingLoad
  <2>2. r \in Dests(op) /\ IsPendingLoad(op)
    BY <1>1, <2>1 DEF Writer
  <2> QED
    BY <1>1, <1>3, <1>4, <2>2
<1>5. CASE i \in 1..n
  <2>1. m \in (i + 1)..(l - 1)
    BY <1>1, <1>5
  <2>2. ~(IsPendingLoad(op) /\ r \in Dests(op))
    <3>1. ~(Writer(m, r)' /\ IsPendingLoad(placed'[m].op))
      BY <2>1 DEF LastLoad, IsPendingLoad
    <3> QED
      BY <1>1, <3>1 DEF Writer
  <2>3. LastLoad(i, m, r)' /\ SameBlock(i, m)'
    <3>1. /\ \A k \in (i + 1)..(m - 1) : k \in (i + 1)..(l - 1)
          /\ \A k \in i..(m - 1) : k \in i..(l - 1)
          /\ i < m
      BY <1>1, <1>5
    <3>2. LastLoad(i, m, r)'
      BY <3>1 DEF LastLoad
    <3>3. SameBlock(i, m)'
      <4>1. \A k \in i..(m - 1) : ~IsJump(placed[k].op)'
        BY <3>1 DEF SameBlock
      <4>2. ASSUME NEW x \in Labels, label_at'[x] # None, i <= label_at'[x], label_at'[x] < m
            PROVE  FALSE
        <5>1. label_at'[x] \in Nat /\ label_at'[x] < l
          BY <1>1, <4>2 DEF Bounds
        <5> QED
          BY <4>2, <5>1 DEF SameBlock
      <4> QED
        BY <4>1, <4>2 DEF SameBlock
    <3> QED
      BY <3>2, <3>3
  <2>4. LastLoad(i, m, r) /\ SameBlock(i, m)
    <3>1. m \in 1..(Len(placed) + 1)
      BY <1>1
    <3> QED
      BY <1>1, <1>5, <2>3, <3>1, OldPairs
  <2>5. \/ pending[r] = placed[i].op.dests[1]
        \/ \E k \in (i + 1)..n :
             /\ placed[k].op = WaitForLoad(placed[i].op.dests[1])
             /\ placed[i].cycle < placed[k].cycle
             /\ placed[k].cycle < current_cycle
    BY <1>1, <1>5, <2>4 DEF LoadsAwaited
  <2>6. c \in Nat /\ current_cycle \in Nat /\ current_cycle' \in Nat
        /\ current_cycle <= c /\ c <= current_cycle'
    BY DEF Adds, Bounds
  <2>7. CASE \E k \in (i + 1)..n :
               /\ placed[k].op = WaitForLoad(placed[i].op.dests[1])
               /\ placed[i].cycle < placed[k].cycle
               /\ placed[k].cycle < current_cycle
    <3>1. PICK k \in (i + 1)..n :
               /\ placed[k].op = WaitForLoad(placed[i].op.dests[1])
               /\ placed[i].cycle < placed[k].cycle
               /\ placed[k].cycle < current_cycle
      BY <2>7
    <3>2. k \in 1..n /\ k \in (i + 1)..m /\ placed[k].cycle \in Nat
      BY <1>1, <1>5, <3>1 DEF Entry
    <3>3. placed[k].cycle < current_cycle'
      BY <2>6, <3>1, <3>2
    <3> QED
      BY <1>1, <1>5, <3>1, <3>2, <3>3
  <2>8. CASE pending[r] = placed[i].op.dests[1] /\ pending'[r] = pending[r]
    BY <1>1, <1>5, <2>8
  <2>9. CASE /\ pending[r] = placed[i].op.dests[1]
             /\ op = WaitForLoad(pending[r]) /\ current_cycle' > c
    <3>0. MovesOn(placed[i].op)
      BY <1>1, <1>5, <2>4, OpFacts DEF MovesOn, LastLoad, Entry
    <3>1. placed[i].cycle < current_cycle /\ placed[i].cycle \in Nat
      BY <1>1, <1>5, <3>0 DEF Behind, Entry
    <3>2. placed'[i].cycle < placed'[m].cycle /\ placed'[m].cycle < current_cycle'
      BY <1>1, <1>5, <2>6, <2>9, <3>1
    <3>3. placed'[m].op = WaitForLoad(placed'[i].op.dests[1])
      BY <1>1, <1>5, <2>9
    <3>4. m \in (i + 1)..m
      BY <1>1, <1>5
    <3> QED
      BY <3>2, <3>3, <3>4
  <2> QED
    BY <1>3, <2>2, <2>5, <2>7, <2>8, <2>9
<1> QED
  BY <1>1, <1>4, <1>5

(* The labels waiting for an address get the cycle of the operation, and   *)
(* those that have one are at or before it.                                *)
LEMMA AddsLabels ==
  ASSUME Bounds, Behind, LabelsKnown, LabelsSplit, NEW op, NEW c, Adds(op, c),
         label_at' = label_at,
         label_pcs' = [l \in Labels |-> IF l \in pending_labels THEN c ELSE label_pcs[l]],
         pending_labels' = {},
         start_cycle' \in Nat, start_cycle' >= start_cycle
  PROVE  LabelsKnown' /\ LabelsSplit'
<1>0. PICK n, m : n = Len(placed) /\ m = n + 1
  OBVIOUS
<1>1. /\ n = Len(placed) /\ m = n + 1 /\ n \in Nat
      /\ DOMAIN placed = 1..n /\ DOMAIN placed' = 1..m /\ Len(placed') = m
      /\ \A i \in 1..n : placed'[i] = placed[i] /\ placed[i] \in Entry
      /\ placed'[m].op = op /\ placed'[m].cycle = c
  BY <1>0, Grown
<1>2. /\ c \in Nat /\ current_cycle \in Nat /\ start_cycle \in Nat
      /\ start_cycle <= current_cycle /\ current_cycle <= c
  BY DEF Adds, Bounds
<1>3. \A l \in Labels :
        /\ label_pcs'[l] = IF l \in pending_labels THEN c ELSE label_pcs[l]
        /\ label_pcs[l] \in Nat \cup {None} /\ label_at[l] \in Nat \cup {None}
        /\ label_at'[l] = label_at[l]
  BY DEF Bounds
<1>4. c # None
  BY <1>2, NoneAssumption
<1>5. LabelsKnown'
  <2>1. \A l \in Labels : (label_at'[l] = None) <=> (label_pcs'[l] = None /\ l \notin pending_labels')
    BY <1>3, <1>4 DEF LabelsKnown
  <2>2. \A l \in Labels : label_at'[l] # None => label_at'[l] <= Len(placed')
    BY <1>1, <1>3 DEF LabelsKnown
  <2>3. ASSUME NEW l \in Labels, label_pcs'[l] # None
        PROVE  \/ label_pcs'[l] <= start_cycle'
               \/ \E i \in DOMAIN placed' : label_pcs'[l] <= placed'[i].cycle
    <3>1. CASE l \in pending_labels
      <4>1. m \in DOMAIN placed' /\ label_pcs'[l] <= placed'[m].cycle
        BY <1>1, <1>2, <1>3, <3>1
      <4> QED
        BY <4>1
    <3>2. CASE l \notin pending_labels /\ label_pcs[l] <= start_cycle
      BY <1>2, <1>3, <2>3, <3>2
    <3>3. CASE /\ l \notin pending_labels
               /\ \E i \in DOMAIN placed : label_pcs[l] <= placed[i].cycle
      BY <1>1, <1>3, <2>3, <3>3
    <3> QED
      BY <1>3, <2>3, <3>1, <3>2, <3>3 DEF LabelsKnown
  <2> QED
    BY <2>1, <2>2, <2>3 DEF LabelsKnown
<1>6. LabelsSplit'
  <2> SUFFICES ASSUME NEW l \in Labels, label_pcs'[l] # None, NEW i \in 1..m
               PROVE  IF i <= label_at'[l] THEN placed'[i].cycle < label_pcs'[l]
                                           ELSE placed'[i].cycle >= label_pcs'[l]
    BY <1>1 DEF LabelsSplit
  <2>1. CASE l \in pending_labels
    <3>1. label_at'[l] = n /\ label_pcs'[l] = c
      BY <1>1, <1>3, <2>1 DEF LabelsKnown
    <3>2. CASE i = m
      BY <1>1, <1>2, <3>1, <3>2
    <3>3. CASE i \in 1..n
      <4>1. placed[i].cycle < start_cycle /\ placed[i].cycle \in Nat
        BY <1>1, <2>1, <3>3 DEF LabelsKnown, Entry
      <4> QED
        BY <1>1, <1>2, <3>1, <3>3, <4>1
    <3> QED
      BY <1>1, <3>2, <3>3
  <2>2. CASE l \notin pending_labels
    <3>1. label_pcs'[l] = label_pcs[l] /\ label_pcs[l] # None /\ label_pcs[l] \in Nat
      BY <1>3, <2>2
    <3>2. label_at[l] # None /\ label_at[l] <= n /\ label_at[l] \in Nat
      BY <1>1, <1>3, <3>1 DEF LabelsKnown
    <3>3. CASE i = m
      <4>1. \A k \in 1..n : placed[k].cycle <= current_cycle /\ placed[k].cycle \in Nat
        BY <1>1 DEF Behind, Entry
      <4>2. label_pcs[l] <= c
        <5>1. CASE label_pcs[l] <= start_cycle
          BY <1>2, <3>1, <5>1
        <5>2. CASE \E k \in DOMAIN placed : label_pcs[l] <= placed[k].cycle
          BY <1>1, <1>2, <3>1, <4>1, <5>2
        <5> QED
          BY <3>1, <5>1, <5>2 DEF LabelsKnown
      <4>3. ~(i <= label_at'[l])
        BY <1>1, <1>3, <3>2, <3>3
      <4> QED
        BY <1>1, <1>2, <3>1, <3>3, <4>2, <4>3
    <3>4. CASE i \in 1..n
      BY <1>1, <1>3, <3>1, <3>4 DEF LabelsSplit
    <3> QED
      BY <1>1, <3>3, <3>4
  <2> QED
    BY <2>1, <2>2
<1> QED
  BY <1>5, <1>6

----------------------------------------------------------------------------
(* The actions *)

LEMMA PlaceWaitIInv ==
  ASSUME IInv, ~scheduled, NEW op \in Ops, PlaceWait(op), label_at' = label_at
  PROVE  IInv'
<1>1. PICK base \in Needed(op), c \in Cycles :
        /\ SlotFree(WaitForLoad(base), c)
        /\ placed' = Append(placed, [op |-> WaitForLoad(base), cycle |-> c,
                                     slot |-> Used(c, "load")])
        /\ current_cycle' = c + 1
        /\ pending' = [r \in Regs |-> IF pending[r] = base THEN None ELSE pending[r]]
        /\ item' = op
        /\ UNCHANGED <<reg_ready, div_busy, start_cycle, label_pcs,
                       pending_labels, items, scheduled>>
  BY DEF PlaceWait
<1>2. PICK wait : wait = WaitForLoad(base)
  OBVIOUS
<1>3. PICK source \in Regs : base = pending[source] /\ base # None /\ base \in Regs
  BY OpFacts DEF Needed, IInv, Bounds
<1>4. c \in Nat /\ c >= current_cycle
  BY CyclesAreNat DEF IInv, Bounds
<1>5. /\ wait.engine = "load" /\ wait.latency = 0 /\ wait.busy = 0
      /\ Dests(wait) = {} /\ Srcs(wait) = {} /\ WriteBanks(wait) = {}
      /\ ~IsPendingLoad(wait) /\ ~IsJump(wait) /\ wait \in Waits
  BY <1>2, <1>3, WaitFacts, WaitIsSilent DEF Waits
<1>6. Adds(wait, c)
  BY <1>1, <1>2, <1>4, <1>5 DEF Adds
<1>7. pending' \in [Regs -> Regs \cup {None}]
      /\ \A r \in Regs : pending'[r] = pending[r] \/ wait = WaitForLoad(pending[r])
  BY <1>1, <1>2 DEF IInv, Bounds
<1>8. pending_labels = {}
  <2>1. pending[source] # NoPending[source]
    BY <1>3 DEF NoPending
  <2> QED
    BY <2>1 DEF IInv, LabelsKnown
<1>9. Bounds'
  <2>1. placed' \in Seq(Entry)
    BY <1>6, Grown DEF IInv
  <2> QED
    BY <1>1, <1>4, <1>7, <2>1 DEF IInv, Bounds
<1>10. InOrder' /\ Behind'
  BY <1>6, AddsInOrder DEF IInv
<1>11. ReadyIsLast' /\ RawRespected'
  <2>1. reg_ready' = [r \in Regs |-> IF r \in Dests(wait) THEN c + wait.latency
                                                          ELSE reg_ready[r]]
    BY <1>1, <1>5 DEF IInv, Bounds
  <2> QED
    BY <1>5, <1>6, <2>1, AddsRaw DEF IInv
<1>12. SlotsFilled'
  BY <1>6, AddsSlotsFilled DEF IInv
<1>13. SlotsExclusive'
  BY <1>5, <1>6, AddsSlotsExclusive DEF IInv
<1>14. BusyKept'
  BY <1>1, <1>5, <1>6, AddsBusyKept DEF IInv
<1>15. BanksApart'
  BY <1>5, <1>6, AddsBanksApart DEF IInv
<1>16. LabelsKnown' /\ LabelsSplit'
  <2>1. label_pcs' = [l \in Labels |-> IF l \in pending_labels THEN c ELSE label_pcs[l]]
    BY <1>1, <1>8 DEF IInv, Bounds
  <2>2. start_cycle' \in Nat /\ start_cycle' >= start_cycle
    BY <1>1 DEF IInv, Bounds
  <2> QED
    BY <1>1, <1>6, <1>8, <2>1, <2>2, AddsLabels DEF IInv
<1>17. WaitsBetween'
  BY <1>5, <1>6, AddsWaitsBetween DEF IInv
<1>18. LoadsAwaited'
  <2>1. current_cycle' > c
    BY <1>1, <1>4
  <2> QED
    BY <1>5, <1>6, <1>7, <2>1, AddsLoadsAwaited DEF IInv
<1>19. VectorsReadAlone'
  BY <1>5, <1>6, AddsVectorsReadAlone DEF IInv
<1> QED
  BY <1>9, <1>10, <1>11, <1>12, <1>13, <1>14, <1>15, <1>16, <1>17,
     <1>18, <1>19 DEF IInv

LEMMA PlaceIInv ==
  ASSUME IInv, ~scheduled, NEW op \in Ops, Needed(op) = {}, Place(op), label_at' = label_at
  PROVE  IInv'
<1>1. PICK c \in Cycles :
        /\ FirstFit(op, c)
        /\ placed' = Append(placed, [op |-> op, cycle |-> c, slot |-> Used(c, op.engine)])
        /\ label_pcs' = [l \in Labels |-> IF l \in pending_labels THEN c ELSE label_pcs[l]]
        /\ pending_labels' = {}
        /\ reg_ready' = [r \in Regs |-> IF r \in Dests(op) THEN c + op.latency
                                                           ELSE reg_ready[r]]
        /\ div_busy' = IF op.busy > 0 /\ op.engine \in {"alu", "valu"}
                       THEN [div_busy EXCEPT ![<<op.engine, Used(c, op.engine)>>] = c + op.busy]
                       ELSE div_busy
        /\ IF IsJump(op)
           THEN Close(c + 1 + JumpBubble)
           ELSE /\ current_cycle' = Advance(op, c)
                /\ pending' = IF IsPendingLoad(op)
                              THEN [r \in Regs |-> IF r \in Dests(op)
                                      THEN op.dests[1] ELSE pending[r]]
                              ELSE pending
                /\ UNCHANGED start_cycle
        /\ item' = None
        /\ UNCHANGED scheduled
  BY DEF Place
<1>2. c \in Nat /\ c >= current_cycle
  BY CyclesAreNat DEF IInv, Bounds
<1>3. EarlyEnough(op, c) /\ Fits(op, c)
  BY <1>1 DEF FirstFit
<1>4. /\ current_cycle' \in Nat /\ current_cycle' >= c
      /\ MovesOn(op) => current_cycle' > c
      /\ start_cycle' \in Nat /\ start_cycle' >= start_cycle /\ start_cycle' <= current_cycle'
  <2>1. CASE IsJump(op)
    <3>1. JumpBubble \in Nat
      BY TimingAssumption
    <3> QED
      BY <1>1, <1>2, <2>1, <3>1 DEF Close, IInv, Bounds
  <2>2. CASE ~IsJump(op)
    <3>1. current_cycle' = Advance(op, c) /\ start_cycle' = start_cycle
      BY <1>1, <2>2
    <3>2. Advance(op, c) \in Nat /\ Advance(op, c) >= c /\ (MovesOn(op) => Advance(op, c) > c)
      BY <1>2, AdvanceReaches
    <3>3. start_cycle \in Nat /\ current_cycle \in Nat /\ start_cycle <= current_cycle
      BY DEF IInv, Bounds
    <3> QED
      BY <1>2, <3>1, <3>2, <3>3
  <2> QED
    BY <2>1, <2>2
<1>5. Adds(op, c)
  BY <1>1, <1>2, <1>3, <1>4 DEF Adds, Fits
<1>6. pending' \in [Regs -> Regs \cup {None}]
  <2>1. IsPendingLoad(op) => op.dests[1] \in Regs
    BY OpFacts
  <2>2. NoPending \in [Regs -> Regs \cup {None}]
    BY DEF NoPending
  <2> QED
    BY <1>1, <2>1, <2>2 DEF Close, IInv, Bounds
<1>7. \A r \in Srcs(op) : pending[r] = None /\ c >= reg_ready[r]
  BY <1>3 DEF Needed, EarlyEnough
<1>8. op.engine \in {"alu", "valu"} => SlotIdle(op, c)
  BY <1>3 DEF Fits
<1>9. \A i \in At(c) : WriteBanks(placed[i].op) \cap WriteBanks(op) = {}
  BY <1>3 DEF Fits, WritesFit, WrittenBank
<1>10. BusyKept' /\ div_busy' \in [Units -> Int]
  BY <1>1, <1>5, <1>8, AddsBusyKept DEF IInv
<1>11. Bounds'
  <2>1. placed' \in Seq(Entry)
    BY <1>5, Grown DEF IInv
  <2>2. reg_ready' \in [Regs -> Nat]
    <3>1. c + op.latency \in Nat
      BY <1>2, OpFacts
    <3> QED
      BY <1>1, <3>1 DEF IInv, Bounds
  <2>3. label_pcs' \in [Labels -> Nat \cup {None}]
    BY <1>1, <1>2 DEF IInv, Bounds
  <2>4. label_at' \in [Labels -> Nat \cup {None}] /\ pending_labels' \subseteq Labels
        /\ item' \in Ops \cup {None}
    BY <1>1 DEF IInv, Bounds
  <2> QED
    BY <1>4, <1>6, <1>10, <2>1, <2>2, <2>3, <2>4 DEF Bounds
<1>12. InOrder' /\ Behind'
  BY <1>5, AddsInOrder DEF IInv
<1>13. ReadyIsLast' /\ RawRespected'
  BY <1>1, <1>5, <1>7, AddsRaw DEF IInv
<1>14. SlotsFilled'
  BY <1>5, AddsSlotsFilled DEF IInv
<1>15. SlotsExclusive'
  BY <1>5, <1>8, AddsSlotsExclusive DEF IInv
<1>16. BanksApart'
  BY <1>5, <1>9, AddsBanksApart DEF IInv
<1>17. LabelsKnown' /\ LabelsSplit'
  BY <1>1, <1>4, <1>5, AddsLabels DEF IInv
<1>18. WaitsBetween'
  BY <1>5, <1>7, AddsWaitsBetween DEF IInv
<1>19. LoadsAwaited'
  <2>1. ~IsJump(op) => \A r \in Regs :
          IF IsPendingLoad(op) /\ r \in Dests(op)
          THEN pending'[r] = op.dests[1]
          ELSE pending'[r] = pending[r] \/ (op = WaitForLoad(pending[r]) /\ current_cycle' > c)
    BY <1>1
  <2> QED
    BY <1>5, <2>1, AddsLoadsAwaited DEF IInv
<1>20. VectorsReadAlone'
  BY <1>5, <1>9, AddsVectorsReadAlone DEF IInv
<1> QED
  BY <1>10, <1>11, <1>12, <1>13, <1>14, <1>15, <1>16, <1>17, <1>18,
     <1>19, <1>20 DEF IInv

(* The last cycle of the block is not before any operation.                *)
LEMMA LastCycleIsLast ==
  ASSUME Bounds, Behind, InOrder
  PROVE  /\ LastCycle \in Int /\ LastCycle + 1 \in Nat /\ LastCycle + 1 >= start_cycle
         /\ \A i \in DOMAIN placed : placed[i].cycle < LastCycle + 1
         /\ (\A i \in DOMAIN placed : placed[i].cycle < start_cycle)
              => LastCycle + 1 = start_cycle
<1> DEFINE n == Len(placed)
           cycles == {placed[i].cycle : i \in DOMAIN placed}
           block == {c \in cycles : c >= start_cycle}
<1>1. /\ start_cycle \in Nat /\ n \in Nat /\ DOMAIN placed = 1..n
      /\ \A i \in 1..n : placed[i].cycle \in Nat
  <2>1. placed \in Seq(Entry) /\ start_cycle \in Nat
    BY DEF Bounds
  <2>2. n \in Nat /\ DOMAIN placed = 1..n /\ \A i \in 1..n : placed[i] \in Entry
    BY <2>1
  <2> QED
    BY <2>1, <2>2 DEF Entry
<1>2. LastCycle = IF block = {} THEN start_cycle - 1
                  ELSE CHOOSE c \in block : \A d \in block : d <= c
  BY DEF LastCycle
<1>3. CASE block = {}
  <2>1. ASSUME NEW i \in 1..n PROVE placed[i].cycle < start_cycle
    <3>1. placed[i].cycle \in cycles /\ placed[i].cycle \notin block
      BY <1>1, <1>3
    <3>2. ~(placed[i].cycle >= start_cycle)
      BY <3>1
    <3> QED
      BY <1>1, <3>2
  <2> QED
    BY <1>1, <1>2, <1>3, <2>1
<1>4. CASE block # {}
  <2>1. PICK i \in 1..n : placed[i].cycle >= start_cycle
    BY <1>1, <1>4
  <2>2. \A j \in 1..n : placed[j].cycle <= placed[n].cycle
    BY <1>1 DEF InOrder
  <2>3. placed[n].cycle \in block /\ \A d \in block : d <= placed[n].cycle
    BY <1>1, <2>1, <2>2
  <2>4. PICK last : last = LastCycle
    OBVIOUS
  <2>5. last \in block /\ \A d \in block : d <= last
    BY <1>2, <1>4, <2>3, <2>4
  <2>6. last \in Nat /\ last >= start_cycle
    BY <1>1, <2>5
  <2>7. \A j \in 1..n : placed[j].cycle <= last
    BY <1>1, <2>2, <2>3, <2>5, <2>6
  <2> QED
    BY <1>1, <2>1, <2>4, <2>6, <2>7
<1> QED
  BY <1>3, <1>4

(* The end of a block, at a label (fresh is that label) or at the end of   *)
(* the program (fresh is empty).                                           *)
LEMMA CloseBlockIInv ==
  ASSUME IInv, NEW fresh \in SUBSET Labels,
         \A l \in fresh : label_pcs[l] = None /\ l \notin pending_labels,
         UNCHANGED <<placed, reg_ready, div_busy, item>>,
         Close(LastCycle + 1),
         label_pcs' = TrailingLabels,
         pending_labels' = fresh,
         label_at' = [l \in Labels |-> IF l \in fresh THEN Len(placed) ELSE label_at[l]],
         fresh # {} \/ scheduled'
  PROVE  IInv'
<1>0. PICK n, last : n = Len(placed) /\ last = LastCycle + 1
  OBVIOUS
<1>1. /\ n = Len(placed) /\ n \in Nat /\ DOMAIN placed = 1..n
      /\ placed' = placed /\ Len(placed') = n
      /\ \A i \in 1..n : placed[i] \in Entry
  <2>1. placed \in Seq(Entry)
    BY DEF IInv, Bounds
  <2>2. Len(placed) \in Nat /\ DOMAIN placed = 1..Len(placed)
        /\ \A i \in 1..Len(placed) : placed[i] \in Entry
    BY <2>1
  <2> QED
    BY <1>0, <2>2
<1>2. /\ last \in Nat /\ last >= start_cycle /\ start_cycle \in Nat
      /\ \A i \in 1..n : placed[i].cycle < last /\ placed[i].cycle \in Nat
      /\ start_cycle' = last /\ current_cycle' = last /\ pending' = NoPending
      /\ (\A i \in DOMAIN placed : placed[i].cycle < start_cycle) => last = start_cycle
  BY <1>0, <1>1, LastCycleIsLast DEF IInv, Bounds, Close, Entry
<1>3. \A l \in Labels :
        /\ label_pcs'[l] = IF l \in pending_labels THEN current_cycle ELSE label_pcs[l]
        /\ label_at'[l] = IF l \in fresh THEN n ELSE label_at[l]
        /\ label_pcs[l] \in Nat \cup {None} /\ label_at[l] \in Nat \cup {None}
  BY <1>1 DEF TrailingLabels, IInv, Bounds
<1>4. current_cycle \in Nat /\ current_cycle # None /\ n # None
  BY <1>1, NoneAssumption DEF IInv, Bounds
<1>5. Bounds'
  <2>1. NoPending \in [Regs -> Regs \cup {None}]
    BY DEF NoPending
  <2>2. label_pcs' \in [Labels -> Nat \cup {None}]
    BY <1>4 DEF TrailingLabels, IInv, Bounds
  <2>3. label_at' \in [Labels -> Nat \cup {None}]
    BY <1>1 DEF IInv, Bounds
  <2> QED
    BY <1>2, <2>1, <2>2, <2>3 DEF IInv, Bounds
<1>6. Behind'
  BY <1>1, <1>2 DEF Behind
<1>7. /\ ReadyIsLast' /\ SlotsFilled' /\ BusyKept'
      /\ InOrder' /\ RawRespected' /\ SlotsExclusive' /\ BanksApart' /\ VectorsReadAlone'
  <2>1. placed' = placed /\ reg_ready' = reg_ready /\ div_busy' = div_busy
    OBVIOUS
  <2>2. ReadyIsLast'
    BY <2>1 DEF IInv, ReadyIsLast, LastWriter, Writer
  <2>3. SlotsFilled'
    BY <2>1 DEF IInv, SlotsFilled, Used, At
  <2>4. BusyKept'
    BY <2>1 DEF IInv, BusyKept
  <2>5. InOrder' /\ BanksApart' /\ SlotsExclusive' /\ VectorsReadAlone'
    BY <2>1 DEF IInv, InOrder, BanksApart, SlotsExclusive, SameSlot, VectorsReadAlone
  <2>6. RawRespected'
    BY <2>1 DEF IInv, RawRespected, LastWriter, Writer
  <2> QED
    BY <2>2, <2>3, <2>4, <2>5, <2>6
<1>8. pending_labels # {} =>
        current_cycle = start_cycle /\ last = start_cycle
        /\ \A i \in 1..n : placed[i].cycle < start_cycle
  BY <1>1, <1>2 DEF IInv, LabelsKnown
<1>9. LabelsKnown'
  <2>1. \A l \in Labels : (label_at'[l] = None) <=> (label_pcs'[l] = None /\ l \notin fresh)
    BY <1>3, <1>4 DEF IInv, LabelsKnown
  <2>2. \A l \in Labels : label_at'[l] # None => label_at'[l] <= n
    BY <1>1, <1>3 DEF IInv, LabelsKnown
  <2>3. \A l \in fresh : label_pcs'[l] = None /\ label_at'[l] = n
    BY <1>3
  <2>4. ASSUME NEW l \in Labels, label_pcs'[l] # None
        PROVE  label_pcs'[l] <= last \/ \E i \in 1..n : label_pcs'[l] <= placed[i].cycle
    <3>1. CASE l \in pending_labels
      BY <1>2, <1>3, <1>8, <3>1
    <3>2. CASE l \notin pending_labels
      <4>1. label_pcs'[l] = label_pcs[l] /\ label_pcs[l] # None /\ label_pcs[l] \in Nat
        BY <1>3, <2>4, <3>2
      <4>2. label_pcs[l] <= start_cycle \/ \E i \in 1..n : label_pcs[l] <= placed[i].cycle
        BY <1>1, <4>1 DEF IInv, LabelsKnown
      <4> QED
        BY <1>2, <4>1, <4>2
    <3> QED
      BY <3>1, <3>2
  <2> QED
    BY <1>1, <1>2, <2>1, <2>2, <2>3, <2>4 DEF LabelsKnown, NoPending
<1>10. LabelsSplit'
  <2> SUFFICES ASSUME NEW l \in Labels, label_pcs'[l] # None, NEW i \in 1..n
               PROVE  IF i <= label_at'[l] THEN placed[i].cycle < label_pcs'[l]
                                           ELSE placed[i].cycle >= label_pcs'[l]
    BY <1>1 DEF LabelsSplit
  <2>1. CASE l \in pending_labels
    <3>1. label_at'[l] = n /\ label_pcs'[l] = start_cycle
      BY <1>1, <1>3, <1>8, <2>1 DEF IInv, LabelsKnown
    <3> QED
      BY <1>1, <1>2, <1>8, <2>1, <3>1
  <2>2. CASE l \notin pending_labels
    <3>1. label_pcs'[l] = label_pcs[l] /\ label_pcs[l] # None
      BY <1>3, <2>2
    <3>2. label_at'[l] = label_at[l]
      BY <1>3, <3>1
    <3> QED
      BY <1>1, <3>1, <3>2 DEF IInv, LabelsSplit
  <2> QED
    BY <2>1, <2>2
<1>11. LoadsAwaited'
  <2> SUFFICES ASSUME NEW l \in fresh, NEW i \in 1..n, NEW m, m = n + 1, SameBlock(i, m)'
               PROVE  FALSE
    BY <1>1 DEF LoadsAwaited
  <2>1. label_at'[l] = n /\ n # None /\ l \in Labels
    BY <1>3, <1>4
  <2>2. i <= n /\ n < m
    BY <1>1
  <2> QED
    BY <2>1, <2>2 DEF SameBlock
<1>12. WaitsBetween'
  <2>0. DOMAIN placed' = 1..n
    BY <1>1
  <2> SUFFICES ASSUME NEW j \in 1..n, NEW r \in Srcs(placed'[j].op), NEW i \in 1..(j - 1),
                      LastLoad(i, j, r)', SameBlock(i, j)'
               PROVE  \E k \in (i + 1)..(j - 1) :
                        /\ placed'[k].op = WaitForLoad(placed'[i].op.dests[1])
                        /\ placed'[i].cycle < placed'[k].cycle
                        /\ placed'[k].cycle < placed'[j].cycle
    BY <2>0 DEF WaitsBetween, Srcs
  <2>1. LastLoad(i, j, r)
    BY <1>1 DEF LastLoad, Writer
  <2>2. SameBlock(i, j)
    <3>1. ASSUME NEW l \in Labels, label_at[l] # None
          PROVE  ~(i <= label_at[l] /\ label_at[l] < j)
      <4>1. label_at'[l] = label_at[l]
        BY <1>3, <3>1 DEF IInv, LabelsKnown
      <4> QED
        BY <3>1, <4>1 DEF SameBlock
    <3>2. \A k \in i..(j - 1) : ~IsJump(placed[k].op)
      BY <1>1 DEF SameBlock
    <3> QED
      BY <3>1, <3>2 DEF SameBlock
  <2> QED
    BY <1>1, <2>1, <2>2 DEF IInv, WaitsBetween
<1> QED
  BY <1>5, <1>6, <1>7, <1>9, <1>10, <1>11, <1>12 DEF IInv

LEMMA InitIInv == ContractInit => IInv
<1> SUFFICES ASSUME ContractInit PROVE IInv
  OBVIOUS
<1>1. placed = <<>> /\ Len(placed) = 0 /\ DOMAIN placed = {} /\ placed \in Seq(Entry)
  BY DEF ContractInit, Init
<1>2. Bounds
  <2>1. /\ reg_ready \in [Regs -> Nat] /\ div_busy \in [Units -> Int]
        /\ pending \in [Regs -> Regs \cup {None}]
        /\ label_pcs \in [Labels -> Nat \cup {None}] /\ label_at \in [Labels -> Nat \cup {None}]
    BY DEF ContractInit, Init, NoPending
  <2> QED
    BY <1>1, <2>1 DEF ContractInit, Init, Bounds
<1>3. Behind /\ ReadyIsLast /\ SlotsFilled /\ BusyKept /\ LoadsAwaited
  BY <1>1 DEF Behind, ReadyIsLast, SlotsFilled, BusyKept, LoadsAwaited
<1>4. /\ InOrder /\ RawRespected /\ SlotsExclusive /\ BanksApart
      /\ VectorsReadAlone /\ WaitsBetween
  BY <1>1 DEF InOrder, RawRespected, SlotsExclusive, BanksApart, VectorsReadAlone,
              WaitsBetween
<1>5. \A l \in Labels : label_pcs[l] = None /\ label_at[l] = None
  BY DEF ContractInit, Init
<1>6. LabelsKnown /\ LabelsSplit
  BY <1>1, <1>5 DEF ContractInit, Init, LabelsKnown, LabelsSplit
<1> QED
  BY <1>2, <1>3, <1>4, <1>6 DEF IInv

LEMMA NextIInv == IInv /\ [ContractNext]_contractVars => IInv'
<1> SUFFICES ASSUME IInv, [ContractNext]_contractVars
             PROVE  IInv'
  OBVIOUS
<1>1. ASSUME NEW op \in Ops, ScheduleOp(op), UNCHANGED label_at PROVE IInv'
  <2>1. CASE Needed(op) # {}
    BY <1>1, <2>1, PlaceWaitIInv DEF ScheduleOp
  <2>2. CASE Needed(op) = {}
    BY <1>1, <2>2, PlaceIInv DEF ScheduleOp
  <2> QED
    BY <2>1, <2>2
<1>2. ASSUME NEW l \in Labels, TakeLabel(l),
             label_at' = [label_at EXCEPT ![l] = Len(placed)]
      PROVE  IInv'
  <2>1. label_at' = [x \in Labels |-> IF x \in {l} THEN Len(placed) ELSE label_at[x]]
    BY <1>2 DEF IInv, Bounds
  <2>2. item' = item
    BY <1>2 DEF TakeLabel
  <2>3. /\ UNCHANGED <<placed, reg_ready, div_busy, item>> /\ Close(LastCycle + 1)
        /\ label_pcs' = TrailingLabels /\ pending_labels' = {l}
        /\ label_pcs[l] = None /\ l \notin pending_labels
    BY <1>2, <2>2 DEF TakeLabel
  <2> QED
    BY <2>1, <2>3, CloseBlockIInv
<1>3. ASSUME Finish, UNCHANGED label_at PROVE IInv'
  <2>0. PICK fresh \in SUBSET Labels : fresh = {}
    OBVIOUS
  <2>1. label_at' = [x \in Labels |-> IF x \in fresh THEN Len(placed) ELSE label_at[x]]
    BY <1>3, <2>0 DEF IInv, Bounds
  <2>2. /\ UNCHANGED <<placed, reg_ready, div_busy, item>> /\ Close(LastCycle + 1)
        /\ label_pcs' = TrailingLabels /\ pending_labels' = fresh
    BY <1>3, <2>0 DEF Finish
  <2>3. scheduled'
    BY <1>3, Zenon DEF Finish
  <2> QED
    BY <2>0, <2>1, <2>2, <2>3, CloseBlockIInv
<1>4. CASE UNCHANGED contractVars
  <2>1. /\ placed' = placed /\ reg_ready' = reg_ready /\ div_busy' = div_busy
        /\ pending' = pending /\ start_cycle' = start_cycle
        /\ current_cycle' = current_cycle /\ label_pcs' = label_pcs
        /\ pending_labels' = pending_labels /\ item' = item
        /\ scheduled' = scheduled /\ label_at' = label_at
    BY <1>4 DEF contractVars, schedVars
  <2>2. Bounds' /\ Behind' /\ BusyKept' /\ LabelsKnown'
    BY <2>1 DEF IInv, Bounds, Behind, BusyKept, LabelsKnown
  <2>3. SlotsFilled' /\ ReadyIsLast' /\ RawRespected'
    BY <2>1 DEF IInv, SlotsFilled, Used, At, ReadyIsLast, RawRespected, LastWriter, Writer
  <2>4. LoadsAwaited' /\ WaitsBetween'
    BY <2>1 DEF IInv, LoadsAwaited, WaitsBetween, LastLoad, SameBlock, Writer
  <2>5. InOrder' /\ SlotsExclusive' /\ BanksApart' /\ VectorsReadAlone' /\ LabelsSplit'
    BY <2>1 DEF IInv, InOrder, SlotsExclusive, SameSlot, BanksApart, VectorsReadAlone,
                LabelsSplit
  <2> QED
    BY <2>2, <2>3, <2>4, <2>5 DEF IInv
<1> QED
  BY <1>1, <1>2, <1>3, <1>4 DEF ContractNext

LEMMA SpecIInv == ContractSpec => []IInv
BY InitIInv, NextIInv, PTL DEF ContractSpec

----------------------------------------------------------------------------
(* schedule() keeps every reader the latency of its last writer away from  *)
(* it, across block boundaries too: the results of multi-cycle operations  *)
(* are not read early, for every program and every timing of the units.    *)
THEOREM SpecRawRespected == ContractSpec => []RawRespected
<1>1. IInv => RawRespected
  BY DEF IInv
<1> QED
  BY <1>1, SpecIInv, PTL

(* schedule() never asks more of an engine than it has slots, and leaves a *)
(* divider or a floating point unit alone until it is done.                *)
THEOREM SpecSlotsExclusive == ContractSpec => []SlotsExclusive
<1>1. IInv => SlotsExclusive
  BY DEF IInv
<1> QED
  BY <1>1, SpecIInv, PTL

(* No scalar operand is read in the bundle of a vector operation, whose    *)
(* reads take both ports of every bank (BankedScratchMemory.scala:72).     *)
THEOREM SpecVectorsReadAlone == ContractSpec => []VectorsReadAlone
<1>1. IInv => VectorsReadAlone
  BY DEF IInv
<1> QED
  BY <1>1, SpecIInv, PTL

(* Every label resolves to an address that separates the operations before *)
(* it from those after it, so a jump there runs exactly the latter.        *)
THEOREM SpecLabelsSplit == ContractSpec => []LabelsSplit
<1>1. IInv => LabelsSplit
  BY DEF IInv
<1> QED
  BY <1>1, SpecIInv, PTL

(* _schedule_block puts a wait_for_load between a load and the first       *)
(* operation of its block that reads what it loads.                        *)
THEOREM SpecWaitsBetween == ContractSpec => []WaitsBetween
<1>1. IInv => WaitsBetween
  BY DEF IInv
<1> QED
  BY <1>1, SpecIInv, PTL


----------------------------------------------------------------------------
(* The placements, besides what IInv says *)

\* Two operations that move the search on never share a bundle.
MovesApart ==
  \A i, j \in DOMAIN placed :
    i < j /\ MovesOn(placed[i].op) => placed[i].cycle < placed[j].cycle

\* A register is ready after everything placed so far that writes it.
ReadyAfter ==
  \A i \in DOMAIN placed : \A r \in Dests(placed[i].op) : placed[i].cycle < reg_ready[r]

\* A reader comes after everything before it that writes its source.
ReadersAfter ==
  \A i, j \in DOMAIN placed : \A r \in Dests(placed[i].op) :
    i < j /\ r \in Srcs(placed[j].op) => placed[i].cycle < placed[j].cycle

\* The scalar reads of bank b in cycle c of a list of placements.
InCycle(list, c) == {i \in DOMAIN list : list[i].cycle = c}
ReadOfBank(list, b, read) ==
  /\ read[2] \in DOMAIN ReadPorts(list[read[1]].op)
  /\ Bank(ReadPorts(list[read[1]].op)[read[2]]) = b
ReadsIn(list, c, b) ==
  Cardinality({read \in InCycle(list, c) \X (1..3) : ReadOfBank(list, b, read)})

\* No bank gets a third read in a cycle, unless from one operation alone.
FewReads(list) ==
  \A c \in Nat, b \in Nat :
    (\A i \in InCycle(list, c) : ReadsOf(list[i].op, b) <= 2) => ReadsIn(list, c, b) <= 2

LabelsSettled == scheduled => pending_labels = {}

Placements ==
  /\ IInv
  /\ MovesApart /\ ReadyAfter /\ ReadersAfter /\ FewReads(placed) /\ LabelsSettled

(* The ports of an operation are numbered from one.                        *)
LEMMA PortsFinite ==
  ASSUME NEW op \in Ops \cup Waits
  PROVE  IsFiniteSet(DOMAIN ReadPorts(op))
<1>1. op.srcs \in Seq(Regs)
  <2>1. CASE op \in Ops
    BY <2>1, OpsAssumption
  <2>2. CASE op \in Waits
    <3>1. op.srcs = <<>>
      BY <2>2, WaitFacts DEF Waits
    <3> QED
      BY <3>1
  <2> QED
    BY <2>1, <2>2
<1>2. PICK n \in Nat : DOMAIN op.srcs = 1..n
  BY <1>1
<1>3. \/ ReadPorts(op) = op.srcs \/ ReadPorts(op) = <<>>
      \/ ReadPorts(op) = SubSeq(op.srcs, 1, 2) \/ ReadPorts(op) = SubSeq(op.srcs, 1, 1)
  BY DEF ReadPorts
<1>4. \E m \in Int : DOMAIN ReadPorts(op) = 1..m
  <2>1. DOMAIN SubSeq(op.srcs, 1, 2) = 1..2 /\ DOMAIN SubSeq(op.srcs, 1, 1) = 1..1
    OBVIOUS
  <2>2. CASE ReadPorts(op) = op.srcs
    BY <1>2, <2>2
  <2>3. CASE ReadPorts(op) = <<>>
    <3>1. DOMAIN ReadPorts(op) = 1..0
      BY <2>3
    <3> QED
      BY <3>1
  <2>4. CASE ReadPorts(op) = SubSeq(op.srcs, 1, 2)
    BY <2>1, <2>4
  <2>5. CASE ReadPorts(op) = SubSeq(op.srcs, 1, 1)
    BY <2>1, <2>5
  <2> QED
    BY <1>3, <2>2, <2>3, <2>4, <2>5
<1> QED
  BY <1>4, FS_Interval

(* A bank's reads of an operation are a number.                            *)
LEMMA ReadsOfIsNat ==
  ASSUME NEW op \in Ops \cup Waits, NEW b
  PROVE  /\ IsFiniteSet({k \in DOMAIN ReadPorts(op) : Bank(ReadPorts(op)[k]) = b})
         /\ ReadsOf(op, b) \in Nat
         /\ b \notin ReadBanks(op) => ReadsOf(op, b) = 0
<1>1. PICK S : S = {k \in DOMAIN ReadPorts(op) : Bank(ReadPorts(op)[k]) = b}
  OBVIOUS
<1>2. IsFiniteSet(S)
  <2>1. S \in SUBSET DOMAIN ReadPorts(op)
    BY <1>1
  <2> QED
    BY <2>1, PortsFinite, FS_Subset, Zenon
<1>3. Cardinality(S) \in Nat /\ (S = {} => Cardinality(S) = 0)
  BY <1>2, FS_CardinalityType, FS_EmptySet, Zenon
<1>4. ReadsOf(op, b) = Cardinality(S)
  BY <1>1 DEF ReadsOf
<1>5. b \notin ReadBanks(op) => S = {}
  BY <1>1 DEF ReadBanks
<1> QED
  BY <1>1, <1>2, <1>3, <1>4, <1>5

(* One more operation adds no more than its own reads to its cycle.        *)
LEMMA ReadsGrow ==
  ASSUME NEW n \in Nat, NEW list, NEW grown, NEW op \in Ops \cup Waits, NEW c, NEW b,
         DOMAIN list = 1..n, DOMAIN grown = 1..(n + 1),
         \A i \in 1..n : grown[i] = list[i],
         grown[n + 1].op = op, grown[n + 1].cycle = c
  PROVE  /\ ReadsIn(list, c, b) \in Nat
         /\ ReadsIn(grown, c, b) \in Nat
         /\ ReadsIn(grown, c, b) <= ReadsIn(list, c, b) + ReadsOf(op, b)
<1>1. PICK S, N, K :
        /\ S = {read \in InCycle(list, c) \X (1..3) : ReadOfBank(list, b, read)}
        /\ K = {k \in DOMAIN ReadPorts(op) : Bank(ReadPorts(op)[k]) = b}
        /\ N = {<<n + 1, k>> : k \in K \cap (1..3)}
  OBVIOUS
<1>2. IsFiniteSet(S) /\ Cardinality(S) \in Nat
  <2>1. IsFiniteSet(1..n) /\ IsFiniteSet(1..3)
    <3>1. 1 \in Int /\ 3 \in Int /\ n \in Int
      OBVIOUS
    <3> QED
      BY <3>1, FS_Interval
  <2>2. IsFiniteSet((1..n) \X (1..3))
    BY <2>1, FS_Product
  <2>3. S \in SUBSET ((1..n) \X (1..3))
    BY <1>1 DEF InCycle
  <2> QED
    BY <2>2, <2>3, FS_Subset, FS_CardinalityType
<1>3. IsFiniteSet(N) /\ Cardinality(N) \in Nat /\ Cardinality(N) <= ReadsOf(op, b)
  <2>1. IsFiniteSet(K) /\ Cardinality(K) = ReadsOf(op, b)
    BY <1>1, ReadsOfIsNat DEF ReadsOf
  <2>2. K \cap (1..3) \in SUBSET K
    OBVIOUS
  <2>3. /\ IsFiniteSet(K \cap (1..3)) /\ Cardinality(K \cap (1..3)) <= Cardinality(K)
    BY <2>1, <2>2, FS_Subset
  <2>4. PICK f : f = [k \in K \cap (1..3) |-> <<n + 1, k>>]
    OBVIOUS
  <2>5. f \in Surjection(K \cap (1..3), N)
    BY <1>1, <2>4 DEF Surjection
  <2>6. IsFiniteSet(N) /\ Cardinality(N) <= Cardinality(K \cap (1..3))
    BY <2>3, <2>5, FS_Surjection
  <2>7. Cardinality(N) \in Nat /\ Cardinality(K) \in Nat /\ Cardinality(K \cap (1..3)) \in Nat
    BY <2>1, <2>3, <2>6, FS_CardinalityType
  <2> QED
    BY <2>1, <2>3, <2>6, <2>7
<1>4. {read \in InCycle(grown, c) \X (1..3) : ReadOfBank(grown, b, read)} = S \cup N
  <2>1. InCycle(grown, c) = InCycle(list, c) \cup {n + 1}
    BY DEF InCycle
  <2>2. ASSUME NEW i \in 1..n, NEW k \in 1..3
        PROVE  ReadOfBank(grown, b, <<i, k>>) <=> ReadOfBank(list, b, <<i, k>>)
    <3>1. grown[i] = list[i]
      OBVIOUS
    <3> QED
      BY <3>1 DEF ReadOfBank
  <2>3. ASSUME NEW k \in 1..3
        PROVE  ReadOfBank(grown, b, <<n + 1, k>>) <=> k \in K
    BY <1>1 DEF ReadOfBank
  <2>4. InCycle(list, c) \subseteq 1..n /\ n + 1 \notin 1..n
    BY DEF InCycle
  <2>5. PICK T : T = {read \in InCycle(grown, c) \X (1..3) : ReadOfBank(grown, b, read)}
    OBVIOUS
  <2>6. ASSUME NEW read \in T PROVE read \in S \cup N
    <3>1. PICK i \in InCycle(grown, c), k \in 1..3 : read = <<i, k>> /\ ReadOfBank(grown, b, <<i, k>>)
      BY <2>5, <2>6
    <3>2. CASE i = n + 1
      BY <1>1, <2>3, <3>1, <3>2
    <3>3. CASE i \in InCycle(list, c)
      BY <1>1, <2>2, <2>4, <3>1, <3>3
    <3> QED
      BY <2>1, <3>2, <3>3
  <2>7. ASSUME NEW read \in S PROVE read \in T
    <3>1. PICK i \in InCycle(list, c), k \in 1..3 : read = <<i, k>> /\ ReadOfBank(list, b, <<i, k>>)
      BY <1>1, <2>7
    <3> QED
      BY <2>1, <2>2, <2>4, <2>5, <3>1
  <2>8. ASSUME NEW read \in N PROVE read \in T
    <3>1. PICK k \in K \cap (1..3) : read = <<n + 1, k>>
      BY <1>1, <2>8
    <3> QED
      BY <2>1, <2>3, <2>5, <3>1
  <2> QED
    BY <2>5, <2>6, <2>7, <2>8
<1>5. /\ Cardinality(S \cup N) = Cardinality(S) + Cardinality(N) - Cardinality(S \cap N)
      /\ IsFiniteSet(S \cup N)
  BY <1>2, <1>3, FS_Union
<1>6. Cardinality(S \cap N) \in Nat
  <2>1. S \cap N \in SUBSET S
    OBVIOUS
  <2> QED
    BY <1>2, <2>1, FS_Subset, FS_CardinalityType
<1>7. ReadsOf(op, b) \in Nat /\ Cardinality(S \cup N) \in Nat
  BY <1>5, ReadsOfIsNat, FS_CardinalityType
<1>8. ReadsIn(list, c, b) = Cardinality(S) /\ ReadsIn(grown, c, b) = Cardinality(S \cup N)
  BY <1>1, <1>4 DEF ReadsIn
<1> QED
  BY <1>2, <1>3, <1>5, <1>6, <1>7, <1>8

(* An operation that fits what a cycle already reads keeps the reads few.  *)
LEMMA FewReadsGrow ==
  ASSUME NEW n \in Nat, NEW list, NEW grown, NEW op \in Ops \cup Waits, NEW c \in Nat,
         DOMAIN list = 1..n, DOMAIN grown = 1..(n + 1),
         \A i \in 1..n : grown[i] = list[i] /\ list[i].op \in Ops \cup Waits,
         grown[n + 1].op = op, grown[n + 1].cycle = c,
         InCycle(list, c) # {} => \A b \in ReadBanks(op) : ReadsIn(list, c, b) + ReadsOf(op, b) <= 2,
         FewReads(list)
  PROVE  FewReads(grown)
<1> SUFFICES ASSUME NEW d \in Nat, NEW b \in Nat,
                    \A i \in InCycle(grown, d) : ReadsOf(grown[i].op, b) <= 2
             PROVE  ReadsIn(grown, d, b) <= 2
  BY DEF FewReads
<1>1. \A i \in InCycle(list, d) : i \in InCycle(grown, d) /\ grown[i] = list[i]
  BY DEF InCycle
<1>2. \A i \in InCycle(list, d) : ReadsOf(list[i].op, b) <= 2
  <2> SUFFICES ASSUME NEW i \in InCycle(list, d) PROVE ReadsOf(list[i].op, b) <= 2
    OBVIOUS
  <2>1. grown[i].op = list[i].op
    BY <1>1
  <2> QED
    BY <1>1, <2>1
<1>3. ReadsIn(list, d, b) <= 2
  BY <1>2 DEF FewReads
<1>4. CASE d # c
  <2>1. InCycle(grown, d) = InCycle(list, d)
    BY <1>4 DEF InCycle
  <2>2. ASSUME NEW read \in InCycle(list, d) \X (1..3)
        PROVE  ReadOfBank(grown, b, read) <=> ReadOfBank(list, b, read)
    <3>1. grown[read[1]] = list[read[1]]
      BY DEF InCycle
    <3> QED
      BY <3>1 DEF ReadOfBank
  <2>3. {read \in InCycle(grown, d) \X (1..3) : ReadOfBank(grown, b, read)}
          = {read \in InCycle(list, d) \X (1..3) : ReadOfBank(list, b, read)}
    BY <2>1, <2>2
  <2> QED
    BY <1>3, <2>3 DEF ReadsIn
<1>5. CASE d = c
  <2>1. /\ ReadsIn(list, c, b) \in Nat /\ ReadsIn(grown, c, b) \in Nat
        /\ ReadsIn(grown, c, b) <= ReadsIn(list, c, b) + ReadsOf(op, b)
    BY ReadsGrow
  <2>2. ReadsOf(op, b) \in Nat /\ (b \notin ReadBanks(op) => ReadsOf(op, b) = 0)
    BY ReadsOfIsNat
  <2>3. CASE InCycle(list, c) = {}
    <3>1. ReadsIn(list, c, b) = 0
      <4>1. {read \in InCycle(list, c) \X (1..3) : ReadOfBank(list, b, read)} = {}
        BY <2>3
      <4> QED
        BY <4>1, FS_EmptySet DEF ReadsIn
    <3>2. ReadsOf(op, b) <= 2
      <4>1. n + 1 \in InCycle(grown, d) /\ grown[n + 1].op = op
        BY <1>5 DEF InCycle
      <4> QED
        BY <4>1
    <3> QED
      BY <1>5, <2>1, <2>2, <3>1, <3>2
  <2>4. CASE InCycle(list, c) # {} /\ b \in ReadBanks(op)
    BY <1>5, <2>1, <2>2, <2>4
  <2>5. CASE b \notin ReadBanks(op)
    BY <1>3, <1>5, <2>1, <2>2, <2>5
  <2> QED
    BY <2>3, <2>4, <2>5
<1> QED
  BY <1>4, <1>5

(* The tables of the search in these terms.                                *)
LEMMA ReadsAre ==
  ASSUME NEW c, NEW b
  PROVE  Reads(c, b) = ReadsIn(placed, c, b) /\ At(c) = InCycle(placed, c)
<1>1. At(c) = InCycle(placed, c)
  BY DEF At, InCycle
<1>2. {read \in At(c) \X (1..3) :
         LET ports == ReadPorts(placed[read[1]].op)
         IN  read[2] \in DOMAIN ports /\ Bank(ports[read[2]]) = b}
        = {read \in InCycle(placed, c) \X (1..3) : ReadOfBank(placed, b, read)}
  BY <1>1 DEF ReadOfBank
<1> QED
  BY <1>1, <1>2 DEF Reads, ReadsIn

----------------------------------------------------------------------------
(* A step of the scheduler *)

\* What a placement does that these invariants are about.
Chosen(op, c) ==
  /\ Adds(op, c)
  /\ \A r \in Srcs(op) : c >= reg_ready[r]
  /\ At(c) # {} => \A b \in ReadBanks(op) : Reads(c, b) + ReadsOf(op, b) <= 2
  /\ reg_ready' = [r \in Regs |-> IF r \in Dests(op) THEN c + op.latency ELSE reg_ready[r]]

(* Every step leaves the placements alone or adds one, of an operation or  *)
(* of a barrier.                                                           *)
LEMMA StepChooses ==
  ASSUME IInv, [ContractNext]_contractVars
  PROVE  UNCHANGED <<placed, reg_ready>> \/ \E op \in Ops \cup Waits, c \in Nat : Chosen(op, c)
<1>1. ASSUME NEW op \in Ops, PlaceWait(op)
      PROVE  \E other \in Ops \cup Waits, c \in Nat : Chosen(other, c)
  <2>1. PICK base \in Needed(op), c \in Cycles :
          /\ SlotFree(WaitForLoad(base), c)
          /\ placed' = Append(placed, [op |-> WaitForLoad(base), cycle |-> c,
                                       slot |-> Used(c, "load")])
          /\ current_cycle' = c + 1
          /\ reg_ready' = reg_ready
    BY <1>1 DEF PlaceWait
  <2>2. PICK wait : wait = WaitForLoad(base)
    OBVIOUS
  <2>3. base \in Regs
    BY OpFacts DEF Needed, IInv, Bounds
  <2>4. /\ wait.engine = "load" /\ wait.name = "wait_for_load" /\ wait \in Waits
        /\ Dests(wait) = {} /\ Srcs(wait) = {} /\ ~IsJump(wait)
    BY <2>2, <2>3, WaitFacts, WaitIsSilent DEF Waits
  <2>5. c \in Nat /\ c >= current_cycle
    BY CyclesAreNat DEF IInv, Bounds
  <2>6. Adds(wait, c)
    BY <2>1, <2>2, <2>4, <2>5 DEF Adds
  <2>7. ReadBanks(wait) = {}
    <3>1. ReadPorts(wait) = <<>>
      BY <2>4 DEF ReadPorts, IsRealMemoryOp
    <3> QED
      BY <3>1 DEF ReadBanks
  <2>8. reg_ready' = [r \in Regs |-> IF r \in Dests(wait) THEN c + wait.latency ELSE reg_ready[r]]
    BY <2>1, <2>4 DEF IInv, Bounds
  <2>9. Chosen(wait, c)
    BY <2>4, <2>6, <2>7, <2>8 DEF Chosen
  <2> QED
    BY <2>4, <2>5, <2>9
<1>2. ASSUME NEW op \in Ops, Place(op)
      PROVE  \E other \in Ops \cup Waits, c \in Nat : Chosen(other, c)
  <2>1. PICK c \in Cycles :
          /\ FirstFit(op, c)
          /\ placed' = Append(placed, [op |-> op, cycle |-> c, slot |-> Used(c, op.engine)])
          /\ reg_ready' = [r \in Regs |-> IF r \in Dests(op) THEN c + op.latency
                                                             ELSE reg_ready[r]]
          /\ IF IsJump(op) THEN Close(c + 1 + JumpBubble)
                           ELSE current_cycle' = Advance(op, c)
    BY <1>2 DEF Place
  <2>2. c \in Nat /\ c >= current_cycle
    BY CyclesAreNat DEF IInv, Bounds
  <2>3. EarlyEnough(op, c) /\ SlotFree(op, c) /\ ReadsFit(op, c)
    BY <2>1 DEF FirstFit, Fits
  <2>4. /\ current_cycle' \in Nat /\ current_cycle' >= c
        /\ MovesOn(op) => current_cycle' > c
    <3>1. CASE IsJump(op)
      <4>1. current_cycle' = c + 1 + JumpBubble /\ JumpBubble \in Nat
        BY <2>1, <3>1, TimingAssumption DEF Close
      <4> QED
        BY <2>2, <4>1
    <3>2. CASE ~IsJump(op)
      BY <2>1, <2>2, <3>2, AdvanceReaches
    <3> QED
      BY <3>1, <3>2
  <2>5. Adds(op, c)
    BY <2>1, <2>2, <2>3, <2>4 DEF Adds
  <2>6. Chosen(op, c)
    BY <2>1, <2>3, <2>5 DEF Chosen, EarlyEnough, ReadsFit
  <2> QED
    BY <2>2, <2>6
<1>3. ASSUME NEW l \in Labels, TakeLabel(l) PROVE UNCHANGED <<placed, reg_ready>>
  BY <1>3 DEF TakeLabel
<1>4. ASSUME Finish PROVE UNCHANGED <<placed, reg_ready>>
  BY <1>4 DEF Finish
<1>5. ASSUME UNCHANGED contractVars PROVE UNCHANGED <<placed, reg_ready>>
  BY <1>5 DEF contractVars, schedVars
<1>6. ASSUME NEW op \in Ops, ScheduleOp(op) PROVE PlaceWait(op) \/ Place(op)
  BY <1>6 DEF ScheduleOp
<1> QED
  BY <1>1, <1>2, <1>3, <1>4, <1>5, <1>6 DEF ContractNext

(* A placement preserves them.                                             *)
LEMMA ChosenPlacements ==
  ASSUME Placements, NEW op \in Ops \cup Waits, NEW c \in Nat, Chosen(op, c)
  PROVE  MovesApart' /\ ReadyAfter' /\ ReadersAfter' /\ FewReads(placed')
<1>0. PICK n : n = Len(placed)
  OBVIOUS
<1>1. /\ n \in Nat /\ DOMAIN placed = 1..n /\ DOMAIN placed' = 1..(n + 1)
      /\ \A i \in 1..n : placed'[i] = placed[i] /\ placed[i] \in Entry
      /\ placed'[n + 1].op = op /\ placed'[n + 1].cycle = c
  BY <1>0, Grown DEF Chosen, Placements, IInv
<1>2. \A i \in 1..n : /\ placed[i].cycle \in Nat /\ placed[i].cycle <= c
                      /\ MovesOn(placed[i].op) => placed[i].cycle < c
  <2>1. c >= current_cycle /\ current_cycle \in Nat
    BY DEF Chosen, Adds, Placements, IInv, Bounds
  <2> QED
    BY <1>1, <2>1 DEF Placements, IInv, Behind, Entry
<1>3. /\ \A r \in Srcs(op) : c >= reg_ready[r]
      /\ reg_ready' = [r \in Regs |-> IF r \in Dests(op) THEN c + op.latency ELSE reg_ready[r]]
      /\ reg_ready \in [Regs -> Nat]
  BY DEF Chosen, Placements, IInv, Bounds
<1>4. /\ Dests(op) \subseteq Regs /\ Srcs(op) \subseteq Regs /\ op.latency \in Nat
      /\ Dests(op) # {} => op.latency >= 1
  <2>1. CASE op \in Waits
    BY <2>1, OpFacts, WaitIsSilent DEF Waits
  <2>2. CASE op \in Ops
    <3>1. Dests(op) # {} => op.dests # <<>>
      BY DEF Dests
    <3> QED
      BY <2>2, <3>1, OpFacts, OpsAssumption DEF NormalLatency
  <2> QED
    BY <2>1, <2>2
<1>5. \A i \in 1..n : Dests(placed[i].op) \subseteq Regs /\ placed[i].op \in Ops \cup Waits
  BY <1>1, OpFacts DEF Entry
<1>6. MovesApart'
  <2> SUFFICES ASSUME NEW i \in 1..(n + 1), NEW j \in 1..(n + 1), i < j, MovesOn(placed'[i].op)
               PROVE  placed'[i].cycle < placed'[j].cycle
    BY <1>1 DEF MovesApart, MovesOn, IsJump
  <2>1. i \in 1..n /\ MovesOn(placed[i].op)
    BY <1>1
  <2>2. CASE j = n + 1
    BY <1>1, <1>2, <2>1, <2>2
  <2>3. CASE j \in 1..n
    BY <1>1, <2>1, <2>3 DEF Placements, MovesApart
  <2> QED
    BY <1>1, <2>2, <2>3
<1>7. ReadyAfter'
  <2> SUFFICES ASSUME NEW i \in 1..(n + 1), NEW r \in Dests(placed'[i].op)
               PROVE  placed'[i].cycle < reg_ready'[r]
    BY <1>1 DEF ReadyAfter, Dests
  <2>1. r \in Regs /\ reg_ready'[r] = IF r \in Dests(op) THEN c + op.latency ELSE reg_ready[r]
    BY <1>1, <1>3, <1>4, <1>5
  <2>2. CASE i = n + 1
    BY <1>1, <1>4, <2>1, <2>2
  <2>3. CASE i \in 1..n
    <3>1. placed[i].cycle < reg_ready[r]
      BY <1>1, <2>3 DEF Placements, ReadyAfter
    <3> QED
      BY <1>1, <1>2, <1>4, <2>1, <2>3, <3>1
  <2> QED
    BY <1>1, <2>2, <2>3
<1>8. ReadersAfter'
  <2> SUFFICES ASSUME NEW i \in 1..(n + 1), NEW j \in 1..(n + 1), NEW r \in Dests(placed'[i].op),
                      i < j, r \in Srcs(placed'[j].op)
               PROVE  placed'[i].cycle < placed'[j].cycle
    BY <1>1 DEF ReadersAfter, Dests, Srcs
  <2>1. i \in 1..n /\ r \in Dests(placed[i].op) /\ r \in Regs
    BY <1>1, <1>5
  <2>2. CASE j = n + 1
    <3>1. placed[i].cycle < reg_ready[r]
      BY <1>1, <2>1 DEF Placements, ReadyAfter
    <3>2. r \in Srcs(op) /\ reg_ready[r] <= c /\ reg_ready[r] \in Nat
      BY <1>1, <1>3, <2>1, <2>2
    <3> QED
      BY <1>1, <1>2, <2>1, <2>2, <3>1, <3>2
  <2>3. CASE j \in 1..n
    BY <1>1, <2>1, <2>3 DEF Placements, ReadersAfter
  <2> QED
    BY <1>1, <2>2, <2>3
<1>9. FewReads(placed')
  <2>1. InCycle(placed, c) # {} =>
          \A b \in ReadBanks(op) : ReadsIn(placed, c, b) + ReadsOf(op, b) <= 2
    BY ReadsAre DEF Chosen
  <2>2. FewReads(placed)
    BY DEF Placements
  <2> QED
    <3>1. PICK list, grown : list = placed /\ grown = placed'
      OBVIOUS
    <3>2. /\ DOMAIN list = 1..n /\ DOMAIN grown = 1..(n + 1)
          /\ \A i \in 1..n : grown[i] = list[i] /\ list[i].op \in Ops \cup Waits
          /\ grown[n + 1].op = op /\ grown[n + 1].cycle = c
      BY <1>1, <1>5, <3>1
    <3>3. /\ InCycle(list, c) # {} => \A b \in ReadBanks(op) : ReadsIn(list, c, b) + ReadsOf(op, b) <= 2
          /\ FewReads(list)
      BY <2>1, <2>2, <3>1
    <3>4. FewReads(grown)
      <4>1. n \in Nat
        BY <1>1
      <4> QED
        BY <4>1, <3>2, <3>3, FewReadsGrow, SMTT(30)
    <3> QED
      BY <3>1, <3>4
<1> QED
  BY <1>6, <1>7, <1>8, <1>9

LEMMA PlacementsStep ==
  ASSUME Placements, [ContractNext]_contractVars
  PROVE  Placements'
<1>1. IInv'
  BY NextIInv DEF Placements
<1>2. LabelsSettled'
  <2>1. ASSUME NEW op \in Ops, ScheduleOp(op) PROVE ~scheduled'
    <3>1. ~scheduled /\ scheduled' = scheduled
      BY <2>1 DEF ScheduleOp, PlaceWait, Place
    <3> QED
      BY <3>1
  <2>2. ASSUME NEW l \in Labels, TakeLabel(l) PROVE ~scheduled'
    BY <2>2 DEF TakeLabel
  <2>3. ASSUME Finish PROVE pending_labels' = {}
    BY <2>3 DEF Finish
  <2>4. ASSUME UNCHANGED contractVars PROVE scheduled' = scheduled /\ pending_labels' = pending_labels
    BY <2>4 DEF contractVars, schedVars
  <2> QED
    BY <2>1, <2>2, <2>3, <2>4 DEF ContractNext, LabelsSettled, Placements
<1>3. MovesApart' /\ ReadyAfter' /\ ReadersAfter' /\ FewReads(placed')
  <2>1. CASE UNCHANGED <<placed, reg_ready>>
    <3>1. placed' = placed /\ reg_ready' = reg_ready
      BY <2>1
    <3> QED
      BY <3>1 DEF Placements, MovesApart, ReadyAfter, ReadersAfter
  <2>2. CASE \E op \in Ops \cup Waits, c \in Nat : Chosen(op, c)
    BY <2>2, ChosenPlacements
  <2> QED
    BY <2>1, <2>2, StepChooses DEF Placements
<1> QED
  BY <1>1, <1>2, <1>3 DEF Placements

LEMMA PlacementsInit == ContractInit => Placements
<1> SUFFICES ASSUME ContractInit PROVE Placements
  OBVIOUS
<1>1. placed = <<>> /\ DOMAIN placed = {} /\ ~scheduled
  BY DEF ContractInit, Init
<1>2. FewReads(placed)
  <2> SUFFICES ASSUME NEW c \in Nat, NEW b \in Nat PROVE ReadsIn(placed, c, b) <= 2
    BY DEF FewReads
  <2>1. {read \in InCycle(placed, c) \X (1..3) : ReadOfBank(placed, b, read)} = {}
    BY <1>1 DEF InCycle
  <2> QED
    BY <2>1, FS_EmptySet DEF ReadsIn
<1> QED
  BY <1>1, <1>2, InitIInv DEF Placements, MovesApart, ReadyAfter, ReadersAfter, LabelsSettled

----------------------------------------------------------------------------
(* The run *)

InUnit == [op: Ops, slot: Nat, tag: Nat, left: Nat]
OnTheBus == [op: Ops, tag: Nat]

RunTypes ==
  /\ pc \in Nat /\ clock \in Nat
  /\ seq \in [Regs -> Nat] /\ mach \in [Regs -> Nat]
  /\ fly \subseteq InUnit
  /\ loads \in Seq(OnTheBus)
  /\ racing \subseteq Regs

\* Nothing runs before the program is compiled.
NotYet ==
  ~scheduled => fly = {} /\ loads = <<>> /\ racing = {} /\ mach = seq /\ pc = 0 /\ ~halted

\* A unit has worked on a result since its operation issued.
Working ==
  \A f \in fly : /\ UnitCycles(f.op) > 0 /\ f.tag < clock
                 /\ f.left = UnitCycles(f.op) - (clock - f.tag)

\* Only loads are on the bus.
Waiting ==
  \A k \in DOMAIN loads : IsPendingLoad(loads[k].op) /\ loads[k].tag < clock

\* What is still to be written to a register is what program order wants
\* there, unless two writes compete for it.
UnderWayNewest ==
  \A r \in Regs \ racing :
    /\ \A f \in fly : r \in Dests(f.op) => f.tag = seq[r]
    /\ \A k \in DOMAIN loads : r \in Dests(loads[k].op) => loads[k].tag = seq[r]

\* A program of single-cycle operations leaves nothing under way.
Single ==
  AllSingleCycle => fly = {} /\ loads = <<>> /\ racing = {} /\ mach = seq

\* Operation i issued at tag, in this pass of a straight program, and where
\* it is the newest writer no bundle since then writes.
Issued(i, op, tag) ==
  /\ placed[i].op = op
  /\ placed[i].cycle < pc
  /\ pc - placed[i].cycle <= clock - tag
  /\ \A r \in Dests(op) : seq[r] = tag =>
       \A k \in DOMAIN placed :
         placed[i].cycle < placed[k].cycle /\ placed[k].cycle < pc
           => r \notin Dests(placed[k].op)

\* No wait for the load of i issued since.
NotAwaited(i) ==
  \A k \in DOMAIN placed :
    placed[i].cycle < placed[k].cycle /\ placed[k].cycle < pc
      => placed[k].op # WaitForLoad(placed[i].op.dests[1])

FlyOrigin ==
  \A f \in fly : \E i \in DOMAIN placed :
    Issued(i, f.op, f.tag) /\ placed[i].slot = f.slot

LoadOrigin ==
  \A k \in DOMAIN loads : \E i \in DOMAIN placed :
    Issued(i, loads[k].op, loads[k].tag) /\ NotAwaited(i)

\* A bank holds what program order wants, or it is under way.
Coherent ==
  \A r \in Regs \ racing :
    \/ mach[r] = seq[r]
    \/ \E f \in fly : r \in Dests(f.op) /\ f.tag = seq[r]
    \/ \E k \in DOMAIN loads : r \in Dests(loads[k].op) /\ loads[k].tag = seq[r]

Straight == OneBlock => FlyOrigin /\ LoadOrigin /\ Coherent

RunInv ==
  /\ Placements
  /\ RunTypes /\ NotYet /\ Working /\ Waiting /\ UnderWayNewest /\ Single /\ Straight

----------------------------------------------------------------------------
(* The data of a cycle *)

LEMMA UnitCyclesAreNat ==
  ASSUME NEW op
  PROVE  UnitCycles(op) \in Nat
BY TimingAssumption DEF UnitCycles

(* What a bundle holds.                                                    *)
LEMMA BundleFacts ==
  ASSUME Placements
  PROVE  /\ Bundle \subseteq Entry
         /\ \A p \in Bundle :
              /\ \E i \in DOMAIN placed : p = placed[i] /\ placed[i].cycle = pc
              /\ p.op \in Ops \cup Waits /\ p.slot \in Nat
              /\ Dests(p.op) \subseteq Regs
<1>1. placed \in Seq(Entry)
  BY DEF Placements, IInv, Bounds
<1>2. \A i \in DOMAIN placed : placed[i] \in Entry
  BY <1>1
<1>3. \A p \in Bundle : \E i \in DOMAIN placed : p = placed[i] /\ placed[i].cycle = pc
  BY DEF Bundle, At
<1> QED
  BY <1>2, <1>3, OpFacts DEF Entry

(* A register after a set of writes that agree about it.                   *)
LEMMA WrittenAt ==
  ASSUME NEW old \in [Regs -> Nat], NEW w \in SUBSET (Regs \X Nat)
  PROVE  /\ Written(old, w) \in [Regs -> Nat]
         /\ \A r \in Regs : (\A x \in w : x[1] # r) => Written(old, w)[r] = old[r]
         /\ \A r \in Regs, t \in Nat :
              <<r, t>> \in w /\ (\A x \in w : x[1] = r => x[2] = t) => Written(old, w)[r] = t
<1>1. \A r \in Regs : (\E x \in w : x[1] = r)
        => /\ (CHOOSE x \in w : x[1] = r) \in w
           /\ (CHOOSE x \in w : x[1] = r)[1] = r
  OBVIOUS
<1>2. \A x \in w : x[2] \in Nat
  OBVIOUS
<1>3. \A r \in Regs : Written(old, w)[r] =
        IF \E x \in w : x[1] = r THEN (CHOOSE x \in w : x[1] = r)[2] ELSE old[r]
  BY DEF Written
<1>4. Written(old, w) \in [Regs -> Nat]
  <2>1. \A r \in Regs : Written(old, w)[r] \in Nat
    BY <1>1, <1>2, <1>3
  <2>2. Written(old, w) = [r \in Regs |-> Written(old, w)[r]]
    BY DEF Written
  <2> QED
    BY <2>1, <2>2
<1>5. ASSUME NEW r \in Regs, NEW t \in Nat, <<r, t>> \in w, \A x \in w : x[1] = r => x[2] = t
      PROVE  Written(old, w)[r] = t
  <2>1. \E x \in w : x[1] = r
    BY <1>5
  <2> QED
    BY <1>1, <1>3, <1>5, <2>1
<1> QED
  BY <1>3, <1>4, <1>5

(* A write that competes with no other one is stored.                      *)
LEMMA StoredFacts ==
  ASSUME NEW landing, NEW w \in Stored(landing)
  PROVE  /\ w \subseteq landing
         /\ \A x \in landing : x[1] \notin Colliding(landing) => x \in w
         /\ \A x, y \in landing : x[1] \notin Colliding(landing) /\ x[1] = y[1] => x = y
<1>1. w \subseteq landing
  BY DEF Stored
<1>2. ASSUME NEW x \in landing, NEW y \in landing, Bank(x[1]) = Bank(y[1]),
             x[1] \notin Colliding(landing)
      PROVE  x = y
  BY <1>2 DEF Colliding
<1>3. ASSUME NEW x \in landing, x[1] \notin Colliding(landing)
      PROVE  x \in w
  <2>1. PICK y \in w : Bank(y[1]) = Bank(x[1])
    BY DEF Stored
  <2> QED
    BY <1>1, <1>2, <1>3, <2>1
<1> QED
  BY <1>1, <1>2, <1>3

LEMMA LandingFacts ==
  ASSUME RunTypes, NEW issued \in SUBSET Entry
  PROVE  /\ Landing(issued) \subseteq Regs \X Nat
         /\ \A f \in fly : \A r \in Dests(f.op) :
              f.left = 0 => <<r, f.tag>> \in Landing(issued)
         /\ \A p \in issued : \A r \in Dests(p.op) :
              Direct(p) => <<r, clock>> \in Landing(issued)
         /\ \A x \in Landing(issued) :
              \/ \E f \in fly : f.left = 0 /\ x[1] \in Dests(f.op) /\ x[2] = f.tag
              \/ \E p \in issued : Direct(p) /\ x[1] \in Dests(p.op) /\ x[2] = clock
<1>1. \A f \in fly : Dests(f.op) \subseteq Regs /\ f.tag \in Nat
  BY OpFacts DEF RunTypes, InUnit
<1>2. \A p \in issued : Dests(p.op) \subseteq Regs
  BY OpFacts DEF Entry
<1>3. clock \in Nat
  BY DEF RunTypes
<1>4. \A x : x \in Landing(issued) <=>
        \/ \E f \in fly : f.left = 0 /\ x \in Dests(f.op) \X {f.tag}
        \/ \E p \in issued : Direct(p) /\ x \in Dests(p.op) \X {clock}
  BY DEF Landing
<1>5. \A f \in fly : \A r \in Dests(f.op) : f.left = 0 => <<r, f.tag>> \in Landing(issued)
  BY <1>4
<1>6. \A p \in issued : \A r \in Dests(p.op) : Direct(p) => <<r, clock>> \in Landing(issued)
  BY <1>4
<1>7. \A x \in Landing(issued) :
        \/ \E f \in fly : f.left = 0 /\ x[1] \in Dests(f.op) /\ x[2] = f.tag
        \/ \E p \in issued : Direct(p) /\ x[1] \in Dests(p.op) /\ x[2] = clock
  BY <1>4
<1>8. Landing(issued) \subseteq Regs \X Nat
  BY <1>1, <1>2, <1>3, <1>4
<1> QED
  BY <1>5, <1>6, <1>7, <1>8

(* The banks after a cycle: a register nobody competes for holds what      *)
(* lands there, or what it held.                                           *)
LEMMA MachGoes ==
  ASSUME RunTypes, NEW issued \in SUBSET Entry, Execute(issued)
  PROVE  /\ mach' \in [Regs -> Nat]
         /\ \A r \in Regs \ Colliding(Landing(issued)) :
              /\ \A t \in Nat : <<r, t>> \in Landing(issued) => mach'[r] = t
              /\ (\A t \in Nat : <<r, t>> \notin Landing(issued)) => mach'[r] = mach[r]
<1>1. PICK w \in Stored(Landing(issued)) : mach' = Written(mach, w)
  BY DEF Execute
<1>2. PICK landing : landing = Landing(issued)
  OBVIOUS
<1>3. landing \subseteq Regs \X Nat
  BY <1>2, LandingFacts
<1>4. /\ w \subseteq landing
      /\ \A x \in landing : x[1] \notin Colliding(landing) => x \in w
      /\ \A x, y \in landing : x[1] \notin Colliding(landing) /\ x[1] = y[1] => x = y
  BY <1>1, <1>2, StoredFacts
<1>5. w \in SUBSET (Regs \X Nat) /\ mach \in [Regs -> Nat]
  BY <1>3, <1>4 DEF RunTypes
<1>6. ASSUME NEW r \in Regs \ Colliding(landing), NEW t \in Nat, <<r, t>> \in landing
      PROVE  mach'[r] = t
  <2>1. <<r, t>> \in w
    BY <1>4, <1>6
  <2>2. ASSUME NEW x \in w, x[1] = r PROVE x[2] = t
    <3>1. x = <<r, t>>
      BY <1>4, <1>6, <2>2
    <3> QED
      BY <3>1
  <2> QED
    BY <1>1, <1>5, <2>1, <2>2, WrittenAt
<1>7. ASSUME NEW r \in Regs \ Colliding(landing), \A t \in Nat : <<r, t>> \notin landing
      PROVE  mach'[r] = mach[r]
  <2>1. ASSUME NEW x \in w, x[1] = r PROVE FALSE
    <3>1. x = <<r, x[2]>> /\ x[2] \in Nat /\ x \in landing
      BY <1>3, <1>4, <2>1
    <3> QED
      BY <1>7, <3>1
  <2> QED
    BY <1>1, <1>5, <2>1, WrittenAt
<1>8. mach' \in [Regs -> Nat]
  BY <1>1, <1>5, WrittenAt
<1> QED
  BY <1>2, <1>6, <1>7, <1>8

(* The registers of program order after a cycle.                           *)
LEMMA SeqGoes ==
  ASSUME RunTypes, NEW issued \in SUBSET Entry, Execute(issued)
  PROVE  /\ clock' = clock + 1
         /\ seq' \in [Regs -> Nat]
         /\ AllDests(issued) \subseteq Regs
         /\ \A r \in Regs : seq'[r] = IF r \in AllDests(issued) THEN clock ELSE seq[r]
<1>1. PICK w : w = UNION {Dests(p.op) \X {clock} : p \in issued}
  OBVIOUS
<1>2. clock \in Nat /\ seq \in [Regs -> Nat]
  BY DEF RunTypes
<1>3. \A p \in issued : Dests(p.op) \subseteq Regs
  BY OpFacts DEF Entry
<1>4. AllDests(issued) \subseteq Regs
  BY <1>3 DEF AllDests
<1>5. /\ \A x \in w : x[1] \in AllDests(issued) /\ x[2] = clock /\ x = <<x[1], clock>>
      /\ \A r \in AllDests(issued) : <<r, clock>> \in w
  BY <1>1 DEF AllDests
<1>6. w \in SUBSET (Regs \X Nat)
  BY <1>2, <1>4, <1>5
<1>7. seq' = Written(seq, w) /\ clock' = clock + 1
  BY <1>1 DEF Execute
<1>8. seq' \in [Regs -> Nat]
  BY <1>2, <1>6, <1>7, WrittenAt
<1>9. ASSUME NEW r \in AllDests(issued) PROVE seq'[r] = clock
  <2>1. r \in Regs /\ <<r, clock>> \in w /\ \A x \in w : x[1] = r => x[2] = clock
    BY <1>4, <1>5
  <2> QED
    BY <1>2, <1>6, <1>7, <2>1, WrittenAt
<1>10. ASSUME NEW r \in Regs \ AllDests(issued) PROVE seq'[r] = seq[r]
  <2>1. \A x \in w : x[1] # r
    BY <1>5
  <2> QED
    BY <1>2, <1>6, <1>7, <2>1, WrittenAt
<1> QED
  BY <1>4, <1>7, <1>8, <1>9, <1>10

(* The units after a cycle.                                                *)
LEMMA FlyGoes ==
  ASSUME RunTypes, NEW issued \in SUBSET Entry, Execute(issued)
  PROVE  /\ fly' \subseteq InUnit
         /\ \A f \in fly' :
              \/ \E g \in fly : /\ g.left > 0 /\ f.op = g.op /\ f.slot = g.slot
                              /\ f.tag = g.tag /\ f.left = g.left - 1
              \/ \E p \in issued : /\ Starts(p) /\ f.op = p.op /\ f.slot = p.slot
                                  /\ f.tag = clock /\ f.left = UnitCycles(p.op) - 1
         /\ \A g \in fly : g.left > 0 => \E f \in fly' : f.op = g.op /\ f.tag = g.tag
         /\ \A p \in issued : Starts(p) => \E f \in fly' : f.op = p.op /\ f.tag = clock
<1>1. fly' = {[f EXCEPT !.left = @ - 1] : f \in {g \in fly : g.left > 0}}
               \cup {Flies(p) : p \in {q \in issued : Starts(q)}}
  BY DEF Execute
<1>2. ASSUME NEW g \in fly, NEW f, g.left > 0, f = [g EXCEPT !.left = @ - 1]
      PROVE  /\ f \in InUnit /\ f.op = g.op /\ f.slot = g.slot
             /\ f.tag = g.tag /\ f.left = g.left - 1
  <2>1. g \in InUnit
    BY DEF RunTypes
  <2> QED
    BY <1>2, <2>1 DEF InUnit
<1>3. ASSUME NEW p \in issued, NEW f, Starts(p), f = Flies(p)
      PROVE  /\ f \in InUnit /\ f.op = p.op /\ f.slot = p.slot
             /\ f.tag = clock /\ f.left = UnitCycles(p.op) - 1
  <2>1. UnitCycles(p.op) > 0 /\ UnitCycles(p.op) \in Nat /\ clock \in Nat
    BY <1>3, UnitCyclesAreNat DEF Starts, RunTypes
  <2>2. p.op \in Ops /\ p.slot \in Nat
    <3>1. p.op \in Ops \cup Waits /\ p.slot \in Nat
      BY DEF Entry
    <3>2. p.op \notin Waits
      BY <2>1, WaitFacts DEF Waits, UnitCycles
    <3> QED
      BY <3>1, <3>2
  <2> QED
    BY <1>3, <2>1, <2>2 DEF Flies, InUnit
<1>4. \A f \in fly' :
        \/ \E g \in fly : g.left > 0 /\ f = [g EXCEPT !.left = @ - 1]
        \/ \E p \in issued : Starts(p) /\ f = Flies(p)
  BY <1>1
<1>5. ASSUME NEW g \in fly, g.left > 0
      PROVE  \E f \in fly' : f.op = g.op /\ f.tag = g.tag
  <2>1. PICK f : f = [g EXCEPT !.left = @ - 1]
    OBVIOUS
  <2>2. f \in fly'
    BY <1>1, <1>5, <2>1
  <2> QED
    BY <1>2, <1>5, <2>1, <2>2
<1>6. ASSUME NEW p \in issued, Starts(p)
      PROVE  \E f \in fly' : f.op = p.op /\ f.tag = clock
  <2>1. PICK f : f = Flies(p)
    OBVIOUS
  <2>2. f \in fly'
    BY <1>1, <1>6, <2>1
  <2> QED
    BY <1>3, <1>6, <2>1, <2>2
<1> QED
  BY <1>2, <1>3, <1>4, <1>5, <1>6

(* The loads after a cycle.                                                *)
LEMMA LoadsGo ==
  ASSUME RunTypes, NEW issued \in SUBSET Entry, Execute(issued)
  PROVE  /\ loads' \in Seq(OnTheBus)
         /\ \/ loads' = loads /\ \A p \in issued : ~IsPendingLoad(p.op)
            \/ \E p \in issued : /\ IsPendingLoad(p.op)
                                /\ loads' = Append(loads, [op |-> p.op, tag |-> clock])
<1>1. PICK new : new = {p \in issued : IsPendingLoad(p.op)}
  OBVIOUS
<1>2. loads' = loads \o IF new = {} THEN <<>>
                       ELSE <<[op |-> (CHOOSE p \in new : TRUE).op, tag |-> clock]>>
  BY <1>1 DEF Execute
<1>3. loads \in Seq(OnTheBus) /\ clock \in Nat
  BY DEF RunTypes
<1>4. CASE new = {}
  <2>1. loads' = loads
    BY <1>2, <1>3, <1>4
  <2> QED
    BY <1>1, <1>3, <1>4, <2>1
<1>5. CASE new # {}
  <2>1. PICK p : p = CHOOSE q \in new : TRUE
    OBVIOUS
  <2>2. p \in issued /\ IsPendingLoad(p.op)
    BY <1>1, <1>5, <2>1
  <2>3. PICK e : e = [op |-> p.op, tag |-> clock]
    OBVIOUS
  <2>4. e \in OnTheBus
    BY <1>3, <2>2, <2>3, OpFacts DEF Entry, OnTheBus
  <2>5. loads' = Append(loads, e)
    BY <1>2, <1>3, <1>5, <2>1, <2>3, <2>4
  <2> QED
    BY <1>3, <2>2, <2>3, <2>4, <2>5
<1> QED
  BY <1>4, <1>5

----------------------------------------------------------------------------
(* Types, units and loads from cycle to cycle *)

LEMMA UnderWayIs ==
  ASSUME NEW r
  PROVE  r \in UnderWay <=> \/ \E f \in fly : r \in Dests(f.op)
                           \/ \E k \in DOMAIN loads : r \in Dests(loads[k].op)
BY DEF UnderWay

LEMMA LoadTypes ==
  ASSUME RunTypes
  PROVE  \A k \in DOMAIN loads : /\ loads[k] \in OnTheBus /\ loads[k].op \in Ops
                                /\ loads[k].tag \in Nat /\ Dests(loads[k].op) \subseteq Regs
<1>1. loads \in Seq(OnTheBus)
  BY DEF RunTypes
<1>2. \A k \in DOMAIN loads : loads[k] \in OnTheBus
  BY <1>1
<1> QED
  BY <1>2, OpFacts DEF OnTheBus

LEMMA ExecuteTypes ==
  ASSUME Placements, RunTypes, NEW issued \in SUBSET Entry, Execute(issued), pc' \in Nat
  PROVE  RunTypes'
<1>1. clock \in Nat /\ clock' = clock + 1
  BY SeqGoes DEF RunTypes
<1>2. racing' \subseteq Regs
  <2>1. racing' = (racing \ AllDests(issued)) \cup (AllDests(issued) \cap UnderWay)
                     \cup Colliding(Landing(issued))
    BY DEF Execute
  <2>2. Colliding(Landing(issued)) \subseteq Regs
    BY LandingFacts DEF Colliding
  <2>3. AllDests(issued) \subseteq Regs /\ racing \subseteq Regs
    BY SeqGoes DEF RunTypes
  <2> QED
    BY <2>1, <2>2, <2>3
<1>3. seq' \in [Regs -> Nat] /\ mach' \in [Regs -> Nat] /\ fly' \subseteq InUnit
      /\ loads' \in Seq(OnTheBus)
  BY SeqGoes, MachGoes, FlyGoes, LoadsGo
<1> QED
  BY <1>1, <1>2, <1>3 DEF RunTypes

LEMMA ExecuteWorking ==
  ASSUME RunTypes, Working, Waiting, NEW issued \in SUBSET Entry, Execute(issued)
  PROVE  Working' /\ Waiting'
<1>1. clock \in Nat /\ clock' = clock + 1
  BY SeqGoes DEF RunTypes
<1>2. Working'
  <2> SUFFICES ASSUME NEW f \in fly'
               PROVE  /\ UnitCycles(f.op) > 0 /\ f.tag < clock'
                      /\ f.left = UnitCycles(f.op) - (clock' - f.tag)
    BY DEF Working
  <2>1. UnitCycles(f.op) \in Nat
    BY UnitCyclesAreNat
  <2>2. CASE \E g \in fly : /\ g.left > 0 /\ f.op = g.op /\ f.slot = g.slot
                           /\ f.tag = g.tag /\ f.left = g.left - 1
    <3>1. PICK g \in fly : f.op = g.op /\ f.tag = g.tag /\ f.left = g.left - 1
      BY <2>2
    <3>2. /\ g.tag \in Nat /\ UnitCycles(g.op) > 0 /\ g.tag < clock
          /\ g.left = UnitCycles(g.op) - (clock - g.tag)
      BY DEF RunTypes, InUnit, Working
    <3> QED
      BY <1>1, <2>1, <3>1, <3>2
  <2>3. CASE \E p \in issued : /\ Starts(p) /\ f.op = p.op /\ f.slot = p.slot
                              /\ f.tag = clock /\ f.left = UnitCycles(p.op) - 1
    BY <1>1, <2>1, <2>3 DEF Starts
  <2> QED
    BY <2>2, <2>3, FlyGoes
<1>3. Waiting'
  <2> SUFFICES ASSUME NEW k \in DOMAIN loads'
               PROVE  IsPendingLoad(loads'[k].op) /\ loads'[k].tag < clock'
    BY DEF Waiting, IsPendingLoad
  <2>1. loads \in Seq(OnTheBus)
    BY DEF RunTypes
  <2>2. \A j \in DOMAIN loads : /\ IsPendingLoad(loads[j].op) /\ loads[j].tag < clock
                               /\ loads[j].tag \in Nat
    BY LoadTypes DEF Waiting
  <2>3. CASE loads' = loads
    BY <1>1, <2>2, <2>3
  <2>4. CASE \E p \in issued : /\ IsPendingLoad(p.op)
                              /\ loads' = Append(loads, [op |-> p.op, tag |-> clock])
    <3>1. PICK p \in issued : /\ IsPendingLoad(p.op)
                             /\ loads' = Append(loads, [op |-> p.op, tag |-> clock])
      BY <2>4
    <3>2. PICK e : e = [op |-> p.op, tag |-> clock] /\ loads' = Append(loads, e)
      BY <3>1
    <3>3. loads'[k] = e \/ (k \in DOMAIN loads /\ loads'[k] = loads[k])
      BY <2>1, <3>2
    <3> QED
      BY <1>1, <2>2, <3>1, <3>2, <3>3
  <2> QED
    BY <2>3, <2>4, LoadsGo
<1> QED
  BY <1>2, <1>3

(* Nothing that is under way is overtaken unless racing says so.           *)
LEMMA ExecuteNewest ==
  ASSUME RunTypes, UnderWayNewest, NEW issued \in SUBSET Entry, Execute(issued)
  PROVE  UnderWayNewest'
<1> SUFFICES ASSUME NEW r \in Regs \ racing'
             PROVE  /\ \A f \in fly' : r \in Dests(f.op) => f.tag = seq'[r]
                    /\ \A k \in DOMAIN loads' : r \in Dests(loads'[k].op) => loads'[k].tag = seq'[r]
  BY DEF UnderWayNewest, Dests
<1>1. racing' = (racing \ AllDests(issued)) \cup (AllDests(issued) \cap UnderWay)
                   \cup Colliding(Landing(issued))
  BY DEF Execute
<1>2. seq'[r] = IF r \in AllDests(issued) THEN clock ELSE seq[r]
  BY SeqGoes
<1>3. ASSUME NEW f \in fly, r \in Dests(f.op) PROVE f.tag = seq'[r]
  <2>1. r \in UnderWay
    BY <1>3, UnderWayIs
  <2>2. r \notin AllDests(issued) /\ r \notin racing
    BY <1>1, <2>1
  <2> QED
    BY <1>2, <1>3, <2>2 DEF UnderWayNewest
<1>4. ASSUME NEW k \in DOMAIN loads, r \in Dests(loads[k].op) PROVE loads[k].tag = seq'[r]
  <2>1. r \in UnderWay
    BY <1>4, UnderWayIs
  <2>2. r \notin AllDests(issued) /\ r \notin racing
    BY <1>1, <2>1
  <2> QED
    BY <1>2, <1>4, <2>2 DEF UnderWayNewest
<1>5. ASSUME NEW p \in issued, r \in Dests(p.op) PROVE seq'[r] = clock
  BY <1>2, <1>5 DEF AllDests
<1>6. ASSUME NEW f \in fly', r \in Dests(f.op) PROVE f.tag = seq'[r]
  BY <1>3, <1>5, <1>6, FlyGoes
<1>7. ASSUME NEW k \in DOMAIN loads', r \in Dests(loads'[k].op) PROVE loads'[k].tag = seq'[r]
  <2>1. loads \in Seq(OnTheBus)
    BY DEF RunTypes
  <2>2. CASE loads' = loads
    BY <1>4, <1>7, <2>2
  <2>3. CASE \E p \in issued : /\ IsPendingLoad(p.op)
                              /\ loads' = Append(loads, [op |-> p.op, tag |-> clock])
    <3>1. PICK p \in issued : loads' = Append(loads, [op |-> p.op, tag |-> clock])
      BY <2>3
    <3>2. PICK e : e = [op |-> p.op, tag |-> clock] /\ loads' = Append(loads, e)
      BY <3>1
    <3>3. loads'[k] = e \/ (k \in DOMAIN loads /\ loads'[k] = loads[k])
      BY <2>1, <3>2
    <3> QED
      BY <1>4, <1>5, <1>7, <3>2, <3>3
  <2> QED
    BY <2>2, <2>3, LoadsGo
<1> QED
  BY <1>6, <1>7

(* The answer to the oldest load.                                          *)
LEMMA LandsFacts ==
  ASSUME RunTypes, LoadLands
  PROVE  /\ loads # <<>> /\ 1 \in DOMAIN loads
         /\ loads' \in Seq(OnTheBus)
         /\ \A k \in DOMAIN loads' : k + 1 \in DOMAIN loads /\ loads'[k] = loads[k + 1]
         /\ \A k \in DOMAIN loads : k # 1 => k - 1 \in DOMAIN loads' /\ loads'[k - 1] = loads[k]
         /\ mach' \in [Regs -> Nat]
         /\ \A r \in Regs : mach'[r] = IF r \in Dests(loads[1].op) THEN loads[1].tag ELSE mach[r]
         /\ pc' = pc /\ clock' = clock /\ seq' = seq /\ fly' = fly
         /\ racing' = racing /\ halted' = halted
<1>1. /\ loads # <<>> /\ loads' = Tail(loads) /\ loads \in Seq(OnTheBus)
      /\ pc' = pc /\ clock' = clock /\ seq' = seq /\ fly' = fly
      /\ racing' = racing /\ halted' = halted
  BY DEF LoadLands, RunTypes
<1>2. /\ 1 \in DOMAIN loads /\ loads' \in Seq(OnTheBus) /\ Head(loads) = loads[1]
      /\ \A k \in DOMAIN loads' : k + 1 \in DOMAIN loads /\ loads'[k] = loads[k + 1]
      /\ \A k \in DOMAIN loads : k # 1 => k - 1 \in DOMAIN loads' /\ loads'[k - 1] = loads[k]
  BY <1>1
<1>3. PICK D, t, w : D = Dests(loads[1].op) /\ t = loads[1].tag /\ w = D \X {t}
  OBVIOUS
<1>4. D \subseteq Regs /\ t \in Nat
  BY <1>2, <1>3, LoadTypes
<1>5. mach' = Written(mach, w) /\ mach \in [Regs -> Nat]
  BY <1>2, <1>3 DEF LoadLands, RunTypes
<1>6. w \in SUBSET (Regs \X Nat) /\ \A x \in w : x[2] = t /\ x[1] \in D
  BY <1>3, <1>4
<1>7. mach' \in [Regs -> Nat]
  BY <1>5, <1>6, WrittenAt
<1>8. ASSUME NEW r \in D PROVE mach'[r] = t
  <2>1. <<r, t>> \in w /\ r \in Regs
    BY <1>3, <1>4
  <2> QED
    BY <1>4, <1>5, <1>6, <2>1, WrittenAt
<1>9. ASSUME NEW r \in Regs \ D PROVE mach'[r] = mach[r]
  <2>1. \A x \in w : x[1] # r
    BY <1>6
  <2> QED
    BY <1>5, <1>6, <2>1, WrittenAt
<1> QED
  BY <1>1, <1>2, <1>3, <1>7, <1>8, <1>9

LEMMA LandsKeeps ==
  ASSUME RunTypes, Working, Waiting, UnderWayNewest, LoadLands
  PROVE  RunTypes' /\ Working' /\ Waiting' /\ UnderWayNewest'
<1>1. RunTypes'
  BY LandsFacts DEF RunTypes
<1>2. Working'
  BY LandsFacts DEF Working
<1>3. Waiting'
  BY LandsFacts DEF Waiting, IsPendingLoad
<1>4. UnderWayNewest'
  <2>1. \A r \in Regs \ racing, f \in fly : r \in Dests(f.op) => f.tag = seq[r]
    BY DEF UnderWayNewest
  <2>2. \A r \in Regs \ racing, k \in DOMAIN loads' :
          r \in Dests(loads'[k].op) => loads'[k].tag = seq[r]
    BY LandsFacts DEF UnderWayNewest
  <2> QED
    BY <2>1, <2>2, LandsFacts DEF UnderWayNewest, Dests
<1> QED
  BY <1>1, <1>2, <1>3, <1>4

----------------------------------------------------------------------------
(* What a bundle writes, it writes to different banks *)

LEMMA SameBank ==
  ASSUME NEW x \in Nat, NEW y \in Nat, x <= y, y - x < Banks, Bank(x) = Bank(y)
  PROVE  x = y
<1>1. Banks \in Nat \ {0}
  BY TimingAssumption
<1>2. PICK q, e, a, b : /\ q = x \div Banks /\ a = x % Banks
                        /\ e = y \div Banks /\ b = y % Banks
  OBVIOUS
<1>3. /\ q \in Nat /\ a \in 0..(Banks - 1) /\ x = Banks * q + a
      /\ e \in Nat /\ b \in 0..(Banks - 1) /\ y = Banks * e + b
  BY <1>1, <1>2
<1>4. a = b
  BY <1>2 DEF Bank
<1>5. PICK d \in Int : d = e - q
  BY <1>3
<1>6. Banks * d = y - x
  BY <1>1, <1>3, <1>4, <1>5
<1>7. ~(d >= 1)
  BY <1>1, <1>5, <1>6
<1>8. ~(d <= -1)
  BY <1>1, <1>5, <1>6
<1>9. d = 0
  BY <1>5, <1>7, <1>8
<1> QED
  BY <1>1, <1>6, <1>9

(* An operation writes every bank once: RunAssumption.                     *)
LEMMA DestsApart ==
  ASSUME NEW op \in Ops \cup Waits, NEW r \in Dests(op), NEW s \in Dests(op), Bank(r) = Bank(s)
  PROVE  r = s
<1>1. op \in Ops
  BY WaitIsSilent DEF Waits
<1>2. r \in Nat /\ s \in Nat
  BY OpFacts, RegsAssumption
<1>3. PICK k \in DOMAIN op.dests, l \in DOMAIN op.dests : r = op.dests[k] /\ s = op.dests[l]
  BY DEF Dests
<1>4. CASE Len(op.dests) <= 1
  <2>1. op.dests \in Seq(Regs)
    BY <1>1, OpsAssumption
  <2>2. k = 1 /\ l = 1
    BY <1>3, <1>4, <2>1
  <2> QED
    BY <1>3, <2>2
<1>5. CASE \E d \in Regs : op.dests = Lanes(d)
  <2>1. PICK d \in Regs : op.dests = Lanes(d)
    BY <1>5
  <2>2. d \in Nat /\ VLen \in Nat /\ Banks \in Nat /\ VLen <= Banks
    BY RegsAssumption, TimingAssumption, RunAssumption
  <2>3. /\ k \in 1..VLen /\ l \in 1..VLen
        /\ r = d + k - 1 /\ s = d + l - 1
    BY <1>3, <2>1 DEF Lanes
  <2>4. r - s < Banks /\ s - r < Banks
    BY <2>2, <2>3
  <2> QED
    BY <1>2, <2>4, SameBank
<1> QED
  BY <1>1, <1>4, <1>5, RunAssumption

(* Two writes of a bundle to one bank are one write.                       *)
LEMMA BundleApart ==
  ASSUME Placements, NEW p \in Bundle, NEW q \in Bundle,
         NEW r \in Dests(p.op), NEW s \in Dests(q.op), Bank(r) = Bank(s)
  PROVE  p = q /\ r = s
<1>1. PICK i \in DOMAIN placed, j \in DOMAIN placed :
        p = placed[i] /\ placed[i].cycle = pc /\ q = placed[j] /\ placed[j].cycle = pc
  BY BundleFacts
<1>2. Bank(r) \in WriteBanks(placed[i].op) /\ Bank(s) \in WriteBanks(placed[j].op)
  BY <1>1 DEF WriteBanks
<1>3. i = j
  BY <1>1, <1>2 DEF Placements, IInv, BanksApart
<1> QED
  BY <1>1, <1>3, BundleFacts, DestsApart

----------------------------------------------------------------------------
(* A program of single-cycle operations *)

LEMMA SingleStep ==
  ASSUME Placements, RunTypes, Single, AllSingleCycle,
         NEW issued \in SUBSET Bundle, Execute(issued)
  PROVE  fly' = {} /\ loads' = <<>> /\ racing' = {} /\ mach' = seq'
<1>1. fly = {} /\ loads = <<>> /\ racing = {} /\ mach = seq
  BY DEF Single
<1>2. issued \in SUBSET Entry
  BY BundleFacts
<1>3. \A p \in issued : UnitCycles(p.op) = 0 /\ ~IsPendingLoad(p.op)
  BY BundleFacts DEF AllSingleCycle, SingleCycle
<1>4. \A p \in issued : ~Starts(p) /\ Direct(p)
  BY <1>1, <1>3, UnitCyclesAreNat DEF Starts, Direct, PortTaken
<1>5. fly' = {}
  BY <1>1, <1>2, <1>4, FlyGoes
<1>6. loads' = <<>>
  BY <1>1, <1>2, <1>3, LoadsGo
<1>7. \A x \in Landing(issued) :
        x[2] = clock /\ x \in Regs \X Nat /\ \E p \in issued : x[1] \in Dests(p.op)
  BY <1>1, <1>2, LandingFacts
<1>8. Colliding(Landing(issued)) = {}
  <2> SUFFICES ASSUME NEW x \in Landing(issued), NEW y \in Landing(issued),
                      Bank(x[1]) = Bank(y[1])
               PROVE  x = y
    BY DEF Colliding
  <2>1. PICK p \in issued, q \in issued : x[1] \in Dests(p.op) /\ y[1] \in Dests(q.op)
    BY <1>7
  <2>2. x[1] = y[1]
    BY <2>1, BundleApart
  <2> QED
    BY <1>7, <2>2
<1>9. racing' = {}
  <2>1. UnderWay = {}
    BY <1>1, UnderWayIs
  <2> QED
    BY <1>1, <1>8, <2>1 DEF Execute
<1>10. mach' = seq'
  <2>1. mach' \in [Regs -> Nat] /\ seq' \in [Regs -> Nat] /\ clock \in Nat
    BY <1>2, MachGoes, SeqGoes DEF RunTypes
  <2>2. ASSUME NEW r \in Regs PROVE mach'[r] = seq'[r]
    <3>1. r \notin Colliding(Landing(issued))
      BY <1>8
    <3>2. CASE r \in AllDests(issued)
      <4>1. <<r, clock>> \in Landing(issued)
        BY <1>2, <1>4, <3>2, LandingFacts DEF AllDests
      <4> QED
        BY <1>2, <2>1, <3>1, <3>2, <4>1, MachGoes, SeqGoes
    <3>3. CASE r \notin AllDests(issued)
      <4>1. \A t \in Nat : <<r, t>> \notin Landing(issued)
        BY <1>7, <3>3 DEF AllDests
      <4> QED
        BY <1>1, <1>2, <3>1, <3>3, <4>1, MachGoes, SeqGoes
    <3> QED
      BY <3>2, <3>3
  <2> QED
    BY <2>1, <2>2
<1> QED
  BY <1>5, <1>6, <1>9, <1>10

----------------------------------------------------------------------------
(* A straight program *)

LEMMA PlacedTypes ==
  ASSUME Placements
  PROVE  /\ DOMAIN placed = 1..Len(placed) /\ Len(placed) \in Nat
         /\ \A i \in DOMAIN placed : placed[i] \in Entry /\ placed[i].cycle \in Nat
<1>1. placed \in Seq(Entry)
  BY DEF Placements, IInv, Bounds
<1>2. \A i \in DOMAIN placed : placed[i] \in Entry
  BY <1>1
<1> QED
  BY <1>1, <1>2 DEF Entry

(* The slots an operation is placed in are idle when it issues.            *)
LEMMA UnitsFree ==
  ASSUME UnitsKnown, Placements, RunTypes, Working, FlyOrigin,
         NEW p \in Bundle, NEW f \in fly
  PROVE  ~OneUnit(f, p)
<1> SUFFICES ASSUME OneUnit(f, p) PROVE FALSE
  OBVIOUS
<1>1. PICK j \in DOMAIN placed : p = placed[j] /\ placed[j].cycle = pc
  BY BundleFacts
<1>2. PICK i \in DOMAIN placed : Issued(i, f.op, f.tag) /\ placed[i].slot = f.slot
  BY DEF FlyOrigin
<1>3. /\ placed[i].op = f.op /\ placed[i].cycle < pc
      /\ pc - placed[i].cycle <= clock - f.tag
  BY <1>2 DEF Issued
<1>4. /\ f.op \in Ops /\ f.tag \in Nat /\ f.left \in Nat /\ clock \in Nat /\ pc \in Nat
      /\ UnitCycles(f.op) > 0 /\ f.left = UnitCycles(f.op) - (clock - f.tag)
  BY DEF RunTypes, InUnit, Working
<1>5. /\ f.op.engine \in {"alu", "valu"} /\ f.op.busy >= UnitCycles(f.op)
      /\ f.op.busy \in Nat /\ UnitCycles(f.op) \in Nat
  BY <1>4, OpsAssumption, UnitCyclesAreNat DEF UnitsKnown
<1>7. DOMAIN placed = 1..Len(placed) /\ Len(placed) \in Nat /\ placed[i].cycle \in Nat
  BY PlacedTypes
<1>8. i \in 1..(j - 1)
  <2>1. i < j
    BY <1>1, <1>3, <1>4, <1>7 DEF Placements, IInv, InOrder
  <2> QED
    BY <1>7, <2>1
<1>9. SameSlot(i, j)
  BY <1>1, <1>2, <1>3 DEF OneUnit, SameSlot
<1>10. placed[i].cycle + placed[i].op.busy < placed[j].cycle
  BY <1>3, <1>5, <1>8, <1>9 DEF Placements, IInv, SlotsExclusive
<1> QED
  BY <1>1, <1>3, <1>4, <1>5, <1>7, <1>10

(* A bundle has one load that the bus answers later.                       *)
LEMMA OneLoad ==
  ASSUME Placements, NEW p \in Bundle, NEW q \in Bundle,
         IsPendingLoad(p.op), IsPendingLoad(q.op)
  PROVE  p = q
<1>1. PICK i \in DOMAIN placed, j \in DOMAIN placed :
        p = placed[i] /\ placed[i].cycle = pc /\ q = placed[j] /\ placed[j].cycle = pc
  BY BundleFacts
<1>2. MovesOn(p.op) /\ MovesOn(q.op)
  BY BundleFacts, OpFacts DEF MovesOn
<1>4. i \in Nat /\ j \in Nat /\ placed[i].cycle \in Nat
  BY PlacedTypes
<1>5. i = j
  BY <1>1, <1>2, <1>4 DEF Placements, MovesApart
<1> QED
  BY <1>1, <1>5

(* After a cycle every register holds, or waits for, what program order    *)
(* wants there.                                                            *)
LEMMA CoherentStep ==
  ASSUME UnitsKnown, Placements, RunTypes, Working, UnderWayNewest, FlyOrigin, Coherent,
         NEW issued \in SUBSET Bundle, Execute(issued)
  PROVE  Coherent'
<1>1. issued \in SUBSET Entry
  BY BundleFacts
<1> SUFFICES ASSUME NEW r \in Regs \ racing'
             PROVE  \/ mach'[r] = seq'[r]
                    \/ \E f \in fly' : r \in Dests(f.op) /\ f.tag = seq'[r]
                    \/ \E k \in DOMAIN loads' : r \in Dests(loads'[k].op) /\ loads'[k].tag = seq'[r]
  BY DEF Coherent, Dests
<1>2. racing' = (racing \ AllDests(issued)) \cup (AllDests(issued) \cap UnderWay)
                   \cup Colliding(Landing(issued))
  BY DEF Execute
<1>3. r \notin Colliding(Landing(issued)) /\ clock \in Nat /\ loads \in Seq(OnTheBus)
  BY <1>2 DEF RunTypes
<1>4. seq'[r] = IF r \in AllDests(issued) THEN clock ELSE seq[r]
  BY <1>1, SeqGoes
<1>5. \A t \in Nat : <<r, t>> \in Landing(issued) => mach'[r] = t
  BY <1>1, <1>3, MachGoes
<1>6. CASE r \in AllDests(issued)
  <2>1. PICK p \in issued : r \in Dests(p.op)
    BY <1>6 DEF AllDests
  <2>2. \A f \in fly : ~OneUnit(f, p)
    BY UnitsFree
  <2>3. ~UnitBusy(p) /\ ~PortTaken(p)
    BY <2>2 DEF UnitBusy, PortTaken
  <2>4. CASE UnitCycles(p.op) > 0
    BY <1>1, <1>4, <1>6, <2>1, <2>3, <2>4, FlyGoes DEF Starts
  <2>5. CASE IsPendingLoad(p.op)
    <3>1. PICK q \in issued : /\ IsPendingLoad(q.op)
                             /\ loads' = Append(loads, [op |-> q.op, tag |-> clock])
      BY <1>1, <2>5, LoadsGo
    <3>2. q = p
      BY <2>5, <3>1, OneLoad
    <3>3. PICK e : e = [op |-> p.op, tag |-> clock]
      OBVIOUS
    <3>4. loads' = Append(loads, e)
      BY <3>1, <3>2, <3>3
    <3>5. Len(loads) + 1 \in DOMAIN loads' /\ loads'[Len(loads) + 1] = e
      BY <1>3, <3>4
    <3>6. e.op = p.op /\ e.tag = seq'[r]
      BY <1>4, <1>6, <3>3
    <3> QED
      BY <2>1, <3>5, <3>6
  <2>6. CASE UnitCycles(p.op) = 0 /\ ~IsPendingLoad(p.op)
    <3>1. Direct(p)
      BY <2>3, <2>6 DEF Direct
    <3>2. <<r, clock>> \in Landing(issued)
      BY <1>1, <2>1, <3>1, LandingFacts
    <3> QED
      BY <1>3, <1>4, <1>5, <1>6, <3>2
  <2> QED
    BY <2>4, <2>5, <2>6, UnitCyclesAreNat
<1>7. CASE r \notin AllDests(issued)
  <2>1. r \notin racing /\ seq'[r] = seq[r]
    BY <1>2, <1>4, <1>7
  <2>2. ASSUME NEW f \in fly, r \in Dests(f.op)
        PROVE  f.tag = seq[r] /\ f.tag \in Nat /\ f.left \in Nat
               /\ (f.left = 0 => <<r, f.tag>> \in Landing(issued))
    BY <1>1, <2>1, <2>2, LandingFacts DEF UnderWayNewest, RunTypes, InUnit
  <2>3. CASE mach[r] = seq[r]
    <3>1. CASE \E t \in Nat : <<r, t>> \in Landing(issued)
      <4>1. PICK t \in Nat : <<r, t>> \in Landing(issued)
        BY <3>1
      <4>2. \/ \E f \in fly : f.left = 0 /\ r \in Dests(f.op) /\ t = f.tag
            \/ \E p \in issued : Direct(p) /\ r \in Dests(p.op) /\ t = clock
        BY <1>1, <4>1, LandingFacts
      <4>3. t = seq[r]
        BY <1>7, <2>2, <4>2 DEF AllDests
      <4> QED
        BY <1>5, <2>1, <4>1, <4>3
    <3>2. CASE \A t \in Nat : <<r, t>> \notin Landing(issued)
      BY <1>1, <1>3, <2>1, <2>3, <3>2, MachGoes
    <3> QED
      BY <3>1, <3>2
  <2>4. CASE \E f \in fly : r \in Dests(f.op) /\ f.tag = seq[r]
    <3>1. PICK f \in fly : r \in Dests(f.op) /\ f.tag = seq[r]
      BY <2>4
    <3>0. f.left = 0 \/ f.left > 0
      BY <3>1 DEF RunTypes, InUnit
    <3>2. CASE f.left = 0
      BY <1>5, <2>1, <2>2, <3>1, <3>2
    <3>3. CASE f.left > 0
      BY <1>1, <2>1, <3>1, <3>3, FlyGoes
    <3> QED
      BY <3>0, <3>2, <3>3
  <2>5. CASE \E k \in DOMAIN loads : r \in Dests(loads[k].op) /\ loads[k].tag = seq[r]
    <3>1. PICK k \in DOMAIN loads : r \in Dests(loads[k].op) /\ loads[k].tag = seq[r]
      BY <2>5
    <3>2. k \in DOMAIN loads' /\ loads'[k] = loads[k]
      <4>1. CASE loads' = loads
        BY <4>1
      <4>2. CASE \E p \in issued : loads' = Append(loads, [op |-> p.op, tag |-> clock])
        <5>1. PICK e : loads' = Append(loads, e)
          BY <4>2
        <5> QED
          BY <1>3, <5>1
      <4> QED
        BY <1>1, <4>1, <4>2, LoadsGo
    <3> QED
      BY <2>1, <3>1, <3>2
  <2> QED
    BY <2>1, <2>3, <2>4, <2>5 DEF Coherent
<1> QED
  BY <1>6, <1>7

----------------------------------------------------------------------------
(* Where a straight program goes on, and what is known of what issued *)

LEMMA GoesOn ==
  ASSUME Placements, pc \in Nat, Continue(Bundle)
  PROVE  pc' \in Nat /\ (OneBlock => pc' = pc + 1)
<1>1. CASE pc' = pc + 1
  BY <1>1
<1>2. CASE \E p \in {q \in Bundle : q.op.target # None} : pc' = Target(p.op)
  <2>1. PICK p \in Bundle : p.op.target # None /\ pc' = Target(p.op)
    BY <1>2
  <2>2. p.op \in Ops
    <3>1. p.op \in Ops \cup Waits
      BY BundleFacts
    <3>2. \A b : WaitForLoad(b).target = None
      BY DEF WaitForLoad, Op
    <3> QED
      BY <2>1, <3>1, <3>2 DEF Waits
  <2>3. p.op.target \in Labels /\ IsJump(p.op)
    BY <2>1, <2>2, RunAssumption
  <2>4. label_pcs \in [Labels -> Nat \cup {None}]
    BY DEF Placements, IInv, Bounds
  <2>5. pc' \in Nat
    BY <2>1, <2>3, <2>4 DEF Target
  <2>6. ~OneBlock
    BY <2>3, BundleFacts DEF OneBlock
  <2> QED
    BY <2>5, <2>6
<1> QED
  BY <1>1, <1>2 DEF Continue

(* What issued before still counts as issued.                              *)
LEMMA IssuedStays ==
  ASSUME Placements, RunTypes, UNCHANGED placed,
         NEW issued \in SUBSET Bundle, Execute(issued),
         \/ pc' = pc + 1 /\ issued = Bundle
         \/ pc' = pc,
         NEW i \in DOMAIN placed, NEW op \in Ops, NEW tag \in Nat, tag < clock, Issued(i, op, tag)
  PROVE  Issued(i, op, tag)'
<1>1. issued \in SUBSET Entry /\ clock \in Nat /\ clock' = clock + 1 /\ pc \in Nat
  BY BundleFacts, SeqGoes DEF RunTypes
<1>2. /\ placed[i].op = op /\ placed[i].cycle < pc /\ placed[i].cycle \in Nat
      /\ pc - placed[i].cycle <= clock - tag
  BY PlacedTypes DEF Issued
<1>3. pc' - placed[i].cycle <= clock' - tag /\ placed[i].cycle < pc' /\ pc' \in Nat
  BY <1>1, <1>2
<1>4. ASSUME NEW r \in Dests(op), seq'[r] = tag, NEW k \in DOMAIN placed,
             placed[i].cycle < placed[k].cycle, placed[k].cycle < pc',
             r \in Dests(placed[k].op)
      PROVE  FALSE
  <2>1. r \in Regs
    BY OpFacts
  <2>2. seq'[r] = IF r \in AllDests(issued) THEN clock ELSE seq[r]
    BY <1>1, <2>1, SeqGoes
  <2>3. r \notin AllDests(issued) /\ seq[r] = tag
    BY <1>1, <1>4, <2>2
  <2>4. CASE placed[k].cycle < pc
    BY <1>4, <2>3, <2>4 DEF Issued
  <2>5. CASE placed[k].cycle = pc /\ issued = Bundle
    <3>1. placed[k] \in issued
      BY <2>5 DEF Bundle, At
    <3> QED
      BY <1>4, <2>3, <3>1 DEF AllDests
  <2>6. placed[k].cycle \in Nat
    BY PlacedTypes
  <2> QED
    BY <1>1, <1>4, <2>4, <2>5, <2>6
<1> QED
  BY <1>2, <1>3, <1>4 DEF Issued, Dests

LEMMA IssuedNow ==
  ASSUME Placements, RunTypes, UNCHANGED placed, Execute(Bundle), pc' = pc + 1,
         NEW p \in Bundle, NEW tag, tag = clock
  PROVE  \E i \in DOMAIN placed : /\ p = placed[i] /\ placed[i].cycle = pc
                                 /\ Issued(i, p.op, tag)'
<1>1. PICK i \in DOMAIN placed : p = placed[i] /\ placed[i].cycle = pc
  BY BundleFacts
<1>2. clock \in Nat /\ clock' = clock + 1 /\ pc \in Nat
  BY BundleFacts, SeqGoes DEF RunTypes
<1>3. \A k \in DOMAIN placed : ~(placed[i].cycle < placed[k].cycle /\ placed[k].cycle < pc')
  BY <1>1, <1>2, PlacedTypes
<1>4. pc' - placed[i].cycle <= clock' - tag /\ placed[i].cycle < pc'
  BY <1>1, <1>2
<1> QED
  BY <1>1, <1>3, <1>4 DEF Issued

LEMMA FlyOriginStep ==
  ASSUME Placements, RunTypes, Working, FlyOrigin, UNCHANGED placed,
         NEW issued \in SUBSET Bundle, Execute(issued),
         \/ pc' = pc + 1 /\ issued = Bundle
         \/ pc' = pc /\ issued = {}
  PROVE  FlyOrigin'
<1> SUFFICES ASSUME NEW f \in fly'
             PROVE  \E i \in DOMAIN placed : Issued(i, f.op, f.tag)' /\ placed[i].slot = f.slot
  BY DEF FlyOrigin, Issued
<1>1. CASE \E g \in fly : f.op = g.op /\ f.slot = g.slot /\ f.tag = g.tag
  <2>1. PICK g \in fly : f.op = g.op /\ f.slot = g.slot /\ f.tag = g.tag
    BY <1>1
  <2>2. PICK i \in DOMAIN placed : Issued(i, g.op, g.tag) /\ placed[i].slot = g.slot
    BY DEF FlyOrigin
  <2>3. g.op \in Ops /\ g.tag \in Nat /\ g.tag < clock
    BY DEF RunTypes, InUnit, Working
  <2>4. PICK op \in Ops, tag \in Nat : op = g.op /\ tag = g.tag
    BY <2>3
  <2>5. Issued(i, op, tag)'
    BY <2>2, <2>3, <2>4, IssuedStays
  <2> QED
    BY <2>1, <2>2, <2>4, <2>5
<1>2. CASE \E p \in issued : f.op = p.op /\ f.slot = p.slot /\ f.tag = clock
  <2>1. PICK p \in issued : f.op = p.op /\ f.slot = p.slot /\ f.tag = clock
    BY <1>2
  <2>2. pc' = pc + 1 /\ issued = Bundle
    BY <2>1
  <2>3. PICK i \in DOMAIN placed : p = placed[i] /\ Issued(i, p.op, f.tag)'
    BY <2>1, <2>2, IssuedNow
  <2> QED
    BY <2>1, <2>3
<1>3. issued \in SUBSET Entry
  BY BundleFacts
<1> QED
  BY <1>1, <1>2, <1>3, FlyGoes

LEMMA LoadOriginStep ==
  ASSUME Placements, RunTypes, Waiting, LoadOrigin, UNCHANGED placed,
         NEW issued \in SUBSET Bundle, Execute(issued),
         \/ pc' = pc + 1 /\ issued = Bundle /\ ~Blocked
         \/ pc' = pc /\ issued = {}
  PROVE  LoadOrigin'
<1>1. issued \in SUBSET Entry /\ loads \in Seq(OnTheBus) /\ clock \in Nat /\ pc \in Nat
  BY BundleFacts DEF RunTypes
<1> SUFFICES ASSUME NEW k \in DOMAIN loads', NEW l, l = loads'[k]
             PROVE  \E i \in DOMAIN placed : Issued(i, l.op, l.tag)' /\ NotAwaited(i)'
  BY DEF LoadOrigin, Issued
<1>2. CASE k \in DOMAIN loads /\ l = loads[k]
  <2>1. PICK i \in DOMAIN placed : Issued(i, l.op, l.tag) /\ NotAwaited(i)
    BY <1>2 DEF LoadOrigin
  <2>2. l.op \in Ops /\ l.tag \in Nat /\ l.tag < clock
    BY <1>2, LoadTypes DEF Waiting
  <2>3. Issued(i, l.op, l.tag)'
    <3>1. PICK op \in Ops, tag \in Nat : op = l.op /\ tag = l.tag
      BY <2>2
    <3>2. Issued(i, op, tag)'
      BY <2>1, <2>2, <3>1, IssuedStays
    <3> QED
      BY <3>1, <3>2
  <2>4. NotAwaited(i)'
    <3> SUFFICES ASSUME NEW m \in DOMAIN placed, placed[i].cycle < placed[m].cycle,
                        placed[m].cycle < pc', placed[m].op = WaitForLoad(placed[i].op.dests[1])
                 PROVE  FALSE
      BY DEF NotAwaited
    <3>1. placed[m].cycle < pc \/ placed[m].cycle = pc
      BY <1>1, PlacedTypes
    <3>2. CASE placed[m].cycle < pc
      BY <2>1, <3>2 DEF NotAwaited
    <3>3. CASE placed[m].cycle = pc /\ ~Blocked
      <4>1. placed[m] \in Bundle
        BY <3>3 DEF Bundle, At
      <4>2. placed[m].op.name = "wait_for_load" /\ placed[m].op.wait = placed[i].op.dests[1]
        BY DEF WaitForLoad, Op
      <4>3. placed[i].op = l.op
        BY <2>1 DEF Issued
      <4> QED
        BY <1>2, <3>3, <4>1, <4>2, <4>3 DEF Blocked
    <3> QED
      BY <1>1, <3>1, <3>2, <3>3
  <2> QED
    BY <2>3, <2>4
<1>3. CASE \E p \in issued : l = [op |-> p.op, tag |-> clock]
  <2>1. PICK p \in issued : l.op = p.op /\ l.tag = clock
    BY <1>3
  <2>2. pc' = pc + 1 /\ issued = Bundle
    BY <2>1
  <2>3. PICK i \in DOMAIN placed : /\ p = placed[i] /\ placed[i].cycle = pc
                                  /\ Issued(i, p.op, l.tag)'
    BY <2>1, <2>2, IssuedNow
  <2>4. NotAwaited(i)'
    BY <1>1, <2>2, <2>3, PlacedTypes DEF NotAwaited
  <2> QED
    BY <2>1, <2>3, <2>4
<1>4. CASE loads' = loads
  BY <1>2, <1>4
<1>5. CASE \E p \in issued : loads' = Append(loads, [op |-> p.op, tag |-> clock])
  <2>1. PICK p \in issued : loads' = Append(loads, [op |-> p.op, tag |-> clock])
    BY <1>5
  <2>2. PICK e : e = [op |-> p.op, tag |-> clock] /\ loads' = Append(loads, e)
    BY <2>1
  <2>3. l = e \/ (k \in DOMAIN loads /\ l = loads[k])
    BY <1>1, <2>2
  <2> QED
    BY <1>2, <1>3, <2>2, <2>3
<1> QED
  BY <1>1, <1>4, <1>5, LoadsGo

(* A cycle, whether it issues the bundle or waits.                         *)
LEMMA StraightStep ==
  ASSUME UnitsKnown, Placements, RunTypes, Working, Waiting, UnderWayNewest,
         FlyOrigin, LoadOrigin, Coherent, UNCHANGED placed,
         NEW issued \in SUBSET Bundle, Execute(issued),
         \/ pc' = pc + 1 /\ issued = Bundle /\ ~Blocked
         \/ pc' = pc /\ issued = {}
  PROVE  FlyOrigin' /\ LoadOrigin' /\ Coherent'
BY FlyOriginStep, LoadOriginStep, CoherentStep

(* The answer to the oldest load.                                          *)
LEMMA StraightLands ==
  ASSUME RunTypes, UnderWayNewest, FlyOrigin, LoadOrigin, Coherent, UNCHANGED placed, LoadLands
  PROVE  FlyOrigin' /\ LoadOrigin' /\ Coherent'
<1>1. FlyOrigin'
  BY LandsFacts DEF FlyOrigin, Issued
<1>2. LoadOrigin'
  <2> SUFFICES ASSUME NEW k \in DOMAIN loads', NEW l, l = loads'[k]
               PROVE  \E i \in DOMAIN placed : Issued(i, l.op, l.tag)' /\ NotAwaited(i)'
    BY DEF LoadOrigin, Issued
  <2>1. PICK m \in DOMAIN loads : l = loads[m]
    BY LandsFacts
  <2>2. PICK i \in DOMAIN placed : Issued(i, l.op, l.tag) /\ NotAwaited(i)
    BY <2>1 DEF LoadOrigin
  <2> QED
    BY <2>2, LandsFacts DEF Issued, NotAwaited
<1>3. Coherent'
  <2> SUFFICES ASSUME NEW r \in Regs \ racing
               PROVE  \/ mach'[r] = seq[r]
                      \/ \E f \in fly : r \in Dests(f.op) /\ f.tag = seq[r]
                      \/ \E k \in DOMAIN loads' : r \in Dests(loads'[k].op) /\ loads'[k].tag = seq[r]
    BY LandsFacts DEF Coherent, Dests
  <2>1. mach'[r] = IF r \in Dests(loads[1].op) THEN loads[1].tag ELSE mach[r]
    BY LandsFacts
  <2>2. r \in Dests(loads[1].op) => mach'[r] = seq[r]
    BY <2>1, LandsFacts DEF UnderWayNewest
  <2>3. CASE \E k \in DOMAIN loads : k # 1 /\ r \in Dests(loads[k].op) /\ loads[k].tag = seq[r]
    BY <2>3, LandsFacts
  <2> QED
    BY <2>1, <2>2, <2>3 DEF Coherent
<1> QED
  BY <1>1, <1>2, <1>3

----------------------------------------------------------------------------
(* The inductive invariant *)

LEMMA InitRunInv == RunInit => RunInv
<1> SUFFICES ASSUME RunInit PROVE RunInv
  OBVIOUS
<1>1. /\ pc = 0 /\ clock = 1 /\ fly = {} /\ loads = <<>> /\ racing = {} /\ halted = FALSE
      /\ seq = [r \in Regs |-> 0] /\ mach = seq /\ DOMAIN loads = {}
  BY DEF RunInit
<1>2. Placements
  BY PlacementsInit DEF RunInit
<1>3. RunTypes
  BY <1>1 DEF RunTypes
<1>4. NotYet /\ Working /\ Waiting /\ UnderWayNewest /\ Single
  BY <1>1 DEF NotYet, Working, Waiting, UnderWayNewest, Single
<1>5. FlyOrigin /\ LoadOrigin /\ Coherent
  BY <1>1 DEF FlyOrigin, LoadOrigin, Coherent
<1> QED
  BY <1>2, <1>3, <1>4, <1>5 DEF RunInv, Straight

(* While the program is compiled nothing runs.                             *)
LEMMA CompileStep ==
  ASSUME RunInv, ContractNext, UNCHANGED runVars
  PROVE  RunInv'
<1>1. ~scheduled
  BY DEF ContractNext, ScheduleOp, TakeLabel, Finish
<1>2. /\ fly = {} /\ loads = <<>> /\ racing = {} /\ mach = seq /\ pc = 0 /\ ~halted
      /\ DOMAIN loads = {}
  BY <1>1 DEF RunInv, NotYet
<1>3. /\ pc' = pc /\ clock' = clock /\ seq' = seq /\ mach' = mach /\ fly' = fly
      /\ loads' = loads /\ racing' = racing /\ halted' = halted
  BY DEF runVars
<1>4. Placements'
  BY PlacementsStep DEF RunInv
<1>5. RunTypes'
  BY <1>3 DEF RunInv, RunTypes
<1>6. NotYet' /\ Working' /\ Waiting' /\ UnderWayNewest' /\ Single'
  BY <1>2, <1>3 DEF NotYet, Working, Waiting, UnderWayNewest, Single
<1>7. FlyOrigin' /\ LoadOrigin' /\ Coherent'
  BY <1>2, <1>3 DEF FlyOrigin, LoadOrigin, Coherent
<1> QED
  BY <1>4, <1>5, <1>6, <1>7 DEF RunInv, Straight

(* A cycle of the core.                                                    *)
LEMMA CycleStep ==
  ASSUME UnitsKnown, RunInv, scheduled, UNCHANGED contractVars,
         NEW issued \in SUBSET Bundle, Execute(issued), pc' \in Nat,
         \/ (OneBlock => pc' = pc + 1) /\ issued = Bundle /\ ~Blocked
         \/ pc' = pc /\ issued = {}
  PROVE  RunInv'
<1>1. /\ Placements /\ RunTypes /\ Working /\ Waiting /\ UnderWayNewest /\ Single /\ Straight
  BY DEF RunInv
<1>2. issued \in SUBSET Entry
  BY <1>1, BundleFacts
<1>3. placed' = placed /\ label_pcs' = label_pcs /\ scheduled' = scheduled
  BY DEF contractVars, schedVars
<1>4. Placements'
  BY <1>1, PlacementsStep
<1>5. RunTypes' /\ Working' /\ Waiting' /\ UnderWayNewest'
  BY <1>1, <1>2, ExecuteTypes, ExecuteWorking, ExecuteNewest
<1>6. NotYet'
  BY <1>3 DEF NotYet
<1>7. Single'
  <2> SUFFICES ASSUME AllSingleCycle
               PROVE  fly' = {} /\ loads' = <<>> /\ racing' = {} /\ mach' = seq'
    BY <1>3 DEF Single, AllSingleCycle, SingleCycle, UnitCycles, IsPendingLoad
  <2> QED
    BY <1>1, SingleStep
<1>8. Straight'
  <2> SUFFICES ASSUME OneBlock PROVE FlyOrigin' /\ LoadOrigin' /\ Coherent'
    BY <1>3 DEF Straight, OneBlock, IsJump
  <2>1. \/ pc' = pc + 1 /\ issued = Bundle /\ ~Blocked
        \/ pc' = pc /\ issued = {}
    OBVIOUS
  <2>2. FlyOrigin /\ LoadOrigin /\ Coherent
    BY <1>1 DEF Straight
  <2> QED
    BY <1>1, <1>3, <2>1, <2>2, StraightStep
<1> QED
  BY <1>4, <1>5, <1>6, <1>7, <1>8 DEF RunInv

LEMMA LandsStep ==
  ASSUME RunInv, UNCHANGED contractVars, LoadLands
  PROVE  RunInv'
<1>1. /\ Placements /\ RunTypes /\ NotYet /\ Working /\ Waiting /\ UnderWayNewest
      /\ Single /\ Straight
  BY DEF RunInv
<1>2. placed' = placed /\ label_pcs' = label_pcs /\ scheduled' = scheduled
  BY DEF contractVars, schedVars
<1>3. loads # <<>>
  BY DEF LoadLands
<1>4. Placements'
  BY <1>1, PlacementsStep
<1>5. RunTypes' /\ Working' /\ Waiting' /\ UnderWayNewest'
  BY <1>1, LandsKeeps
<1>6. NotYet'
  BY <1>1, <1>2, <1>3 DEF NotYet
<1>7. Single'
  <2>1. ~AllSingleCycle
    BY <1>1, <1>3 DEF Single
  <2> QED
    BY <1>2, <2>1 DEF Single, AllSingleCycle, SingleCycle, UnitCycles, IsPendingLoad
<1>8. Straight'
  <2> SUFFICES ASSUME OneBlock PROVE FlyOrigin' /\ LoadOrigin' /\ Coherent'
    BY <1>2 DEF Straight, OneBlock, IsJump
  <2> QED
    BY <1>1, <1>2, StraightLands DEF Straight
<1> QED
  BY <1>4, <1>5, <1>6, <1>7, <1>8 DEF RunInv

LEMMA NextRunInv ==
  ASSUME UnitsKnown, RunInv, [Next]_vars
  PROVE  RunInv'
<1>1. ASSUME ContractNext, UNCHANGED runVars PROVE RunInv'
  BY <1>1, CompileStep
<1>2. ASSUME Issue, UNCHANGED contractVars PROVE RunInv'
  <2>1. scheduled /\ ~Blocked /\ Execute(Bundle) /\ Continue(Bundle)
    BY <1>2 DEF Issue, Issuing, Running
  <2>2. pc' \in Nat /\ (OneBlock => pc' = pc + 1)
    BY <2>1, GoesOn DEF RunInv, RunTypes
  <2>3. PICK issued \in SUBSET Bundle : issued = Bundle
    OBVIOUS
  <2> QED
    BY <1>2, <2>1, <2>2, <2>3, CycleStep
<1>3. ASSUME Bubble, UNCHANGED contractVars PROVE RunInv'
  <2>1. scheduled /\ Execute({}) /\ pc' = pc
    BY <1>3 DEF Bubble
  <2>2. pc' \in Nat
    BY <2>1 DEF RunInv, RunTypes
  <2>3. PICK issued \in SUBSET Bundle : issued = {}
    OBVIOUS
  <2> QED
    BY <1>3, <2>1, <2>2, <2>3, CycleStep
<1>4. ASSUME LoadLands, UNCHANGED contractVars PROVE RunInv'
  BY <1>4, LandsStep
<1>5. ASSUME UNCHANGED vars PROVE RunInv'
  <2>1. UNCHANGED contractVars /\ UNCHANGED runVars
    BY <1>5 DEF vars
  <2>2. Placements'
    BY <2>1, PlacementsStep DEF RunInv
  <2>3. placed' = placed /\ label_pcs' = label_pcs /\ scheduled' = scheduled
    BY <2>1 DEF contractVars, schedVars
  <2>4. /\ pc' = pc /\ clock' = clock /\ seq' = seq /\ mach' = mach /\ fly' = fly
        /\ loads' = loads /\ racing' = racing /\ halted' = halted
    BY <2>1 DEF runVars
  <2>5. RunTypes' /\ NotYet' /\ Working' /\ Waiting' /\ UnderWayNewest'
    BY <2>3, <2>4 DEF RunInv, RunTypes, NotYet, Working, Waiting, UnderWayNewest
  <2>6. Single'
    BY <2>3, <2>4 DEF RunInv, Single, AllSingleCycle, SingleCycle, UnitCycles, IsPendingLoad
  <2>7. Straight'
    BY <2>3, <2>4 DEF RunInv, Straight, OneBlock, IsJump, FlyOrigin, LoadOrigin, Coherent,
                      Issued, NotAwaited
  <2> QED
    BY <2>2, <2>5, <2>6, <2>7 DEF RunInv
<1> QED
  BY <1>1, <1>2, <1>3, <1>4, <1>5 DEF Next, Run

LEMMA SpecRunInv ==
  ASSUME UnitsKnown
  PROVE  RunSpec => []RunInv
<1>1. RunInit => RunInv
  BY InitRunInv
<1>2. RunInv /\ [Next]_vars => RunInv'
  BY NextRunInv
<1> QED
  BY <1>1, <1>2, PTL DEF RunSpec

----------------------------------------------------------------------------
(* What an operation finds when it issues *)

(* The placements between a writer that is not landed and its reader leave *)
(* the register alone.                                                     *)
LEMMA NoneBetween ==
  ASSUME Placements, pc \in Nat, NEW i \in DOMAIN placed, NEW j \in At(pc),
         NEW tag, NEW r \in Dests(placed[i].op),
         Issued(i, placed[i].op, tag), seq[r] = tag, r \in Srcs(placed[j].op)
  PROVE  i \in 1..(j - 1) /\ j \in DOMAIN placed /\ LastWriter(i, j, r)
<1>1. j \in DOMAIN placed /\ placed[j].cycle = pc
  BY DEF At
<1>2. /\ DOMAIN placed = 1..Len(placed) /\ Len(placed) \in Nat
      /\ \A k \in DOMAIN placed : placed[k].cycle \in Nat
  BY PlacedTypes
<1>3. placed[i].cycle < pc
  BY DEF Issued
<1>4. i < j
  BY <1>1, <1>2, <1>3 DEF Placements, IInv, InOrder
<1>5. ASSUME NEW k \in (i + 1)..(j - 1), r \in Dests(placed[k].op) PROVE FALSE
  <2>1. k \in DOMAIN placed /\ i < k /\ k < j
    BY <1>1, <1>2
  <2>2. placed[i].cycle <= placed[k].cycle
    BY <2>1 DEF Placements, IInv, InOrder
  <2>3. placed[k].cycle < pc
    BY <1>1, <1>5, <2>1 DEF Placements, ReadersAfter
  <2>4. placed[i].cycle # placed[k].cycle
    <3>1. Bank(r) \in WriteBanks(placed[i].op) /\ Bank(r) \in WriteBanks(placed[k].op)
      BY <1>5 DEF WriteBanks
    <3> QED
      BY <2>1, <3>1 DEF Placements, IInv, BanksApart
  <2>5. placed[i].cycle < placed[k].cycle
    BY <1>2, <2>1, <2>2, <2>4
  <2> QED
    BY <1>5, <2>1, <2>3, <2>5 DEF Issued
<1> QED
  BY <1>1, <1>2, <1>4, <1>5 DEF LastWriter, Writer

(* A source is not in a unit any more: the latency counted on.             *)
LEMMA NotInUnit ==
  ASSUME UnitsKnown, Placements, RunTypes, Working, FlyOrigin,
         NEW j \in At(pc), NEW r \in Srcs(placed[j].op), NEW f \in fly,
         r \in Dests(f.op)
  PROVE  f.tag # seq[r]
<1> SUFFICES ASSUME f.tag = seq[r] PROVE FALSE
  OBVIOUS
<1>1. PICK i \in DOMAIN placed : Issued(i, f.op, f.tag)
  BY DEF FlyOrigin
<1>2. /\ placed[i].op = f.op /\ pc - placed[i].cycle <= clock - f.tag
      /\ placed[i].cycle \in Nat
  BY <1>1, PlacedTypes DEF Issued
<1>3. /\ f.op \in Ops /\ f.tag \in Nat /\ f.left \in Nat /\ clock \in Nat /\ pc \in Nat
      /\ UnitCycles(f.op) > 0 /\ f.left = UnitCycles(f.op) - (clock - f.tag)
  BY DEF RunTypes, InUnit, Working
<1>4. i \in 1..(j - 1) /\ j \in DOMAIN placed /\ LastWriter(i, j, r)
  BY <1>1, <1>2, <1>3, NoneBetween
<1>5. placed[j].cycle >= placed[i].cycle + placed[i].op.latency /\ placed[j].cycle = pc
  BY <1>4 DEF Placements, IInv, RawRespected, At
<1>6. f.op.latency > UnitCycles(f.op) /\ f.op.latency \in Nat /\ UnitCycles(f.op) \in Nat
  BY <1>3, OpsAssumption, UnitCyclesAreNat DEF UnitsKnown
<1> QED
  BY <1>2, <1>3, <1>5, <1>6

(* Nor on the bus: a wait for it issued.                                   *)
LEMMA NotOnTheBus ==
  ASSUME Placements, RunTypes, Waiting, LoadOrigin, scheduled, OneBlock,
         NEW j \in At(pc), NEW r \in Srcs(placed[j].op), NEW k \in DOMAIN loads,
         r \in Dests(loads[k].op)
  PROVE  loads[k].tag # seq[r]
<1> SUFFICES ASSUME loads[k].tag = seq[r] PROVE FALSE
  OBVIOUS
<1>1. PICK i \in DOMAIN placed : Issued(i, loads[k].op, loads[k].tag) /\ NotAwaited(i)
  BY DEF LoadOrigin
<1>2. placed[i].op = loads[k].op /\ IsPendingLoad(placed[i].op) /\ pc \in Nat
  BY <1>1 DEF Issued, Waiting, RunTypes
<1>3. i \in 1..(j - 1) /\ j \in DOMAIN placed /\ LastWriter(i, j, r)
  BY <1>1, <1>2, NoneBetween
<1>4. DOMAIN placed = 1..Len(placed) /\ Len(placed) \in Nat
  BY PlacedTypes
<1>5. LastLoad(i, j, r)
  BY <1>2, <1>3 DEF LastWriter, LastLoad
<1>6. SameBlock(i, j)
  <2>1. \A m \in i..(j - 1) : ~IsJump(placed[m].op)
    BY <1>3, <1>4 DEF OneBlock
  <2>2. \A l \in Labels : label_at[l] = None
    BY DEF OneBlock, Placements, IInv, LabelsKnown, LabelsSettled
  <2> QED
    BY <2>1, <2>2 DEF SameBlock
<1>7. PICK m \in (i + 1)..(j - 1) : /\ placed[m].op = WaitForLoad(placed[i].op.dests[1])
                                   /\ placed[i].cycle < placed[m].cycle
                                   /\ placed[m].cycle < placed[j].cycle
  BY <1>3, <1>5, <1>6 DEF Placements, IInv, WaitsBetween
<1>8. m \in DOMAIN placed /\ placed[j].cycle = pc
  BY <1>3, <1>4 DEF At
<1> QED
  BY <1>1, <1>7, <1>8 DEF NotAwaited

LEMMA FreshOperands ==
  ASSUME UnitsKnown, RunInv
  PROVE  OperandsFresh
<1> SUFFICES ASSUME Issuing, Covered, NEW j \in At(pc), NEW r \in Srcs(placed[j].op) \ racing
             PROVE  /\ mach[r] = seq[r]
                    /\ \A k \in At(pc) : k < j => r \notin Dests(placed[k].op)
  BY DEF OperandsFresh
<1>1. scheduled /\ Placements /\ RunTypes /\ Working /\ Waiting /\ Single /\ Straight
  BY DEF RunInv, Issuing, Running
<1>2. j \in DOMAIN placed /\ placed[j].cycle = pc /\ r \in Regs
  BY <1>1, PlacedTypes, OpFacts DEF At, Entry
<1>3. \A k \in At(pc) : k < j => r \notin Dests(placed[k].op)
  <2> SUFFICES ASSUME NEW k \in At(pc), k < j, r \in Dests(placed[k].op) PROVE FALSE
    OBVIOUS
  <2>1. k \in DOMAIN placed /\ placed[k].cycle = pc /\ pc \in Nat
    BY <1>1 DEF At, RunTypes
  <2>2. placed[k].cycle < placed[j].cycle
    BY <1>1, <1>2, <2>1 DEF Placements, ReadersAfter
  <2> QED
    BY <1>2, <2>1, <2>2
<1>4. CASE AllSingleCycle
  BY <1>1, <1>3, <1>4 DEF Single
<1>5. CASE OneBlock
  <2>1. FlyOrigin /\ LoadOrigin /\ Coherent
    BY <1>1, <1>5 DEF Straight
  <2>2. \A f \in fly : r \in Dests(f.op) => f.tag # seq[r]
    BY <1>1, <2>1, NotInUnit
  <2>3. \A k \in DOMAIN loads : r \in Dests(loads[k].op) => loads[k].tag # seq[r]
    BY <1>1, <1>5, <2>1, NotOnTheBus
  <2> QED
    BY <1>2, <1>3, <2>1, <2>2, <2>3 DEF Coherent
<1> QED
  BY <1>4, <1>5 DEF Covered

LEMMA FreePorts ==
  ASSUME UnitsKnown, RunInv
  PROVE  PortsFree
<1> SUFFICES ASSUME Covered PROVE NoUnitMet
  BY DEF PortsFree
<1>1. Placements /\ RunTypes /\ Working /\ Single /\ Straight
  BY DEF RunInv
<1>2. \A p \in Bundle, f \in fly : ~OneUnit(f, p)
  <2>1. CASE AllSingleCycle
    BY <1>1, <2>1 DEF Single
  <2>2. CASE OneBlock
    BY <1>1, <2>2, UnitsFree DEF Straight
  <2> QED
    BY <2>1, <2>2 DEF Covered
<1> QED
  BY <1>2 DEF NoUnitMet, UnitBusy, PortTaken

----------------------------------------------------------------------------
(* A run compiles its program by the contract the scheduler keeps, so what *)
(* ScheduleContractProofs proves of the placements holds in every run.     *)
THEOREM RunKeepsContract == RunSpec => ContractSpec
<1>1. RunInit => ContractInit
  BY DEF RunInit
<1>2. [Next]_vars => [ContractNext]_contractVars
  BY DEF Next, Run, vars
<1> QED
  BY <1>1, <1>2, PTL DEF RunSpec, ContractSpec

(* Every operation of a compiled program issues with what program order    *)
(* left in its sources, for every machine and program: the latencies of    *)
(* scheduler.py, its waits and its bundles keep readers behind writers.    *)
THEOREM SpecOperandsFresh ==
  ASSUME UnitsKnown
  PROVE  RunSpec => []OperandsFresh
<1>1. RunInv => OperandsFresh
  BY FreshOperands
<1> QED
  BY <1>1, SpecRunInv, PTL

(* No division or floating point operation meets a busy unit, and no       *)
(* result meets the write port of its slot taken (AluEngine.scala:108).    *)
THEOREM SpecPortsFree ==
  ASSUME UnitsKnown
  PROVE  RunSpec => []PortsFree
<1>1. RunInv => PortsFree
  BY FreePorts
<1> QED
  BY <1>1, SpecRunInv, PTL

(* When a program has halted and everything has landed, the registers hold *)
(* what program order wants, but for those two late writes competed for.   *)
THEOREM SpecNewestWins ==
  ASSUME UnitsKnown
  PROVE  RunSpec => []NewestWins
<1>1. RunInv => NewestWins
  BY DEF RunInv, Single, Straight, Coherent, NewestWins
<1> QED
  BY <1>1, SpecRunInv, PTL

(* The scalar read ports of a bank serve every bundle, whatever the        *)
(* scheduler knows of the units (_check_scratch_bank_reads).               *)
THEOREM SpecReadsServed == RunSpec => []ReadsServed
<1>1. RunInit => Placements /\ pc \in Nat
  BY PlacementsInit DEF RunInit
<1>2. Placements /\ pc \in Nat /\ [Next]_vars => (Placements /\ pc \in Nat)'
  <2> SUFFICES ASSUME Placements, pc \in Nat, [Next]_vars PROVE Placements' /\ pc' \in Nat
    OBVIOUS
  <2>1. [ContractNext]_contractVars
    BY DEF Next, Run, vars
  <2>2. Placements'
    BY <2>1, PlacementsStep
  <2>3. pc' \in Nat
    BY GoesOn DEF Next, Run, vars, runVars, Issue, Bubble, LoadLands
  <2> QED
    BY <2>2, <2>3
<1>3. Placements /\ pc \in Nat => ReadsServed
  <2> SUFFICES ASSUME Placements, pc \in Nat, NEW b \in 0..(Banks - 1),
                      \A p \in Bundle : ReadsOf(p.op, b) <= 2
               PROVE  Reads(pc, b) <= 2
    BY DEF ReadsServed
  <2>1. b \in Nat
    BY TimingAssumption
  <2>2. \A i \in InCycle(placed, pc) : ReadsOf(placed[i].op, b) <= 2
    BY ReadsAre DEF Bundle
  <2> QED
    BY <2>1, <2>2, ReadsAre DEF Placements, FewReads
<1> QED
  BY <1>1, <1>2, <1>3, PTL DEF RunSpec

=============================================================================

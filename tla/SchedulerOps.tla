---------------------------- MODULE SchedulerOps ----------------------------
(***************************************************************************)
(* The operations the list scheduler of tools/scheduler.py accepts, with   *)
(* what it knows of each: the engine it needs, the registers it reads and  *)
(* writes, the bundles until its result may be read, the bundles its slot  *)
(* stays busy, and the predicates it asks of two operations that would     *)
(* share a bundle.  An assembler parameter that repeats a register or      *)
(* carries an immediate is left out.                                       *)
(***************************************************************************)
EXTENDS Integers, Sequences, FiniteSets

CONSTANTS
    Banks,              \* scratch_banks
    VLen,               \* vlen, the lanes of a vector operation
    SlotLimit,          \* slot_limits: engine -> slots
    DivBusy,            \* DIV_BUSY_CYCLES
    FpAddLatency,       \* FP32_ADD_LATENCY
    FpMulLatency,       \* FP32_MUL_LATENCY
    MatrixLatency,      \* MATRIX_COMPUTE_LATENCY
    JumpBubble,         \* JUMP_BUBBLE
    MemGap, ValuGap, MatrixGap,     \* mem_post_gap, valu_post_gap, ...
    None                \* no label

Engines == {"alu", "valu", "load", "store", "flow", "matrix"}

ASSUME SlotAssumption == SlotLimit \in [Engines -> Nat]

ASSUME TimingAssumption ==
    /\ Banks \in Nat \ {0}
    /\ VLen \in Nat \ {0}
    /\ {DivBusy, FpAddLatency, FpMulLatency, MatrixLatency} \subseteq Nat \ {0}
    /\ {JumpBubble, MemGap, ValuGap, MatrixGap} \subseteq Nat

NormalLatency == 1
DivLatency == DivBusy + 1
FpAddRead == FpAddLatency + 1
FpMulRead == FpMulLatency + 1

-----------------------------------------------------------------------------
(* The descriptor of an operation.                                         *)
Op(engine, name, dests, srcs) ==
    [ engine |-> engine, name |-> name, dests |-> dests, srcs |-> srcs,
      latency |-> NormalLatency, busy |-> 0, domain |-> "scalar",
      target |-> None, wait |-> None ]

Lanes(base) == [k \in 1..VLen |-> base + k - 1]

(* Loads: a constant, a word, a word at an offset, a vector, the barrier   *)
(* and the copies between the scratch memories.                            *)
Const(d) == Op("load", "const", <<d>>, <<>>)
Load(d, a, dom) == [Op("load", "load", <<d>>, <<a>>) EXCEPT !.domain = dom]
LoadOffset(d, a, off) == Op("load", "load_offset", <<d + off>>, <<a>>)
VLoad(d, a) == [Op("load", "vload", Lanes(d), <<a>>) EXCEPT !.domain = "vector"]
WaitForLoad(d) ==
    [Op("load", "wait_for_load", <<>>, <<>>) EXCEPT !.latency = 0, !.wait = d]
ScopyM2V(d) == Op("load", "scopy_m2v", Lanes(d), <<>>)
ScopyV2M(s) == Op("load", "scopy_v2m", <<>>, Lanes(s))
Scopy(name, d, s) == Op("load", name, <<d>>, <<s>>)

Store(a, s, dom) == [Op("store", "store", <<>>, <<a, s>>) EXCEPT !.domain = dom]
VStore(a, s) ==
    [Op("store", "vstore", <<>>, <<a>> \o Lanes(s)) EXCEPT !.domain = "vector"]

(* Scalar arithmetic in one bundle; division; the floating point classes.  *)
(* A conversion has one operand and passes register 0 as the other.        *)
Alu(name, d, a, b) == Op("alu", name, <<d>>, <<a, b>>)
Div(d, a, b) ==
    [Alu("div", d, a, b) EXCEPT !.latency = DivLatency, !.busy = DivBusy]
FAdd(d, a, b) ==
    [Alu("fadd", d, a, b) EXCEPT !.latency = FpAddRead, !.busy = FpAddLatency + 1]
FMul(d, a, b) ==
    [Alu("fmul", d, a, b) EXCEPT !.latency = FpMulRead, !.busy = FpMulLatency + 1]
I2F(d, a) == [FAdd(d, a, 0) EXCEPT !.name = "i2f"]
FMAdd(d, a, b, c, temp) == <<FMul(temp, a, b), FAdd(d, temp, c)>>

(* Vector arithmetic: the floating point classes are as slow as above.     *)
Valu(name, d, a, b) ==
    LET op == Op("valu", name, Lanes(d), Lanes(a) \o Lanes(b))
    IN  CASE name = "fmul" ->
                 [op EXCEPT !.latency = FpMulRead, !.busy = FpMulLatency + 1]
          [] name \in {"fadd", "fsub", "fmax", "fmin", "i2f", "f2i", "u2f", "f2u"} ->
                 [op EXCEPT !.latency = FpAddRead, !.busy = FpAddLatency + 1]
          [] OTHER -> op
VBroadcast(d, s) == Op("valu", "vbroadcast", Lanes(d), <<s>>)
MultiplyAdd(d, a, b, c) ==
    Op("valu", "multiply_add", Lanes(d), Lanes(a) \o Lanes(b) \o Lanes(c))
VCast(d, s) == Op("valu", "vcast", Lanes(d), Lanes(s))

Halt == Op("flow", "halt", <<>>, <<>>)
Jump(l) == [Op("flow", "jump", <<>>, <<>>) EXCEPT !.target = l]
CondJump(c, l) == [Op("flow", "cond_jump", <<>>, <<c>>) EXCEPT !.target = l]
JumpIndirect(a) == Op("flow", "jump_indirect", <<>>, <<a>>)
Select(name, d, c, a, b) == Op("flow", name, <<d>>, <<c, a, b>>)
AddImm(d, s) == Op("flow", "add_imm", <<d>>, <<s>>)
CoreId(d) == Op("flow", "coreid", <<d>>, <<>>)

(* A source given as register 0 is taken for an absent one.                *)
MatrixOp(name, a, b, c) ==
    [ Op("matrix", name, <<>>, SelectSeq(<<a, b, c>>, LAMBDA r : r # 0))
        EXCEPT !.latency = IF name \in {"mcompute", "mcompute_acc"} THEN MatrixLatency
                                                ELSE NormalLatency ]

-----------------------------------------------------------------------------
Dests(op) == {op.dests[k] : k \in DOMAIN op.dests}
Srcs(op) == {op.srcs[k] : k \in DOMAIN op.srcs}

IsHalt(op) == op.name = "halt"
IsJump(op) == op.name \in {"jump", "cond_jump", "cond_jump_rel", "jump_indirect"}
IsScopy(op) == op.name \in {"scopy_m2v", "scopy_v2m", "scopy_v2s", "scopy_s2v"}
IsPendingLoad(op) == op.name \in {"load", "load_offset", "vload"}

IsVectorInstruction(op) == op.engine = "valu" \/ op.name \in {"vload", "vstore"}
IsScalarMemOnVectorBank(op) ==
    op.name \in {"load", "load_offset", "store"} /\ op.domain = "vector"
IsMatrixTransfer(op) == op.engine = "matrix" /\ op.name \in {"mdmvin", "mdmvout"}
IsRealMemoryOp(op) ==
    /\ op.engine \in {"load", "store"}
    /\ op.name \notin {"const", "wait_for_load"}
    /\ ~IsScopy(op)

VectorBankContention(p, op) ==
    \/ IsScalarMemOnVectorBank(op) /\ IsVectorInstruction(p)
    \/ IsVectorInstruction(op) /\ IsScalarMemOnVectorBank(p)
MatrixMemoryConflict(p, op) ==
    \/ IsMatrixTransfer(op) /\ IsRealMemoryOp(p)
    \/ IsRealMemoryOp(op) /\ IsMatrixTransfer(p)

(* The registers read through a scalar port.  A vector operation reads its *)
(* lanes elsewhere, and a copy, a constant and a barrier read none.        *)
ReadPorts(op) ==
    CASE op.engine = "alu" -> op.srcs
      [] op.engine = "store" -> SubSeq(op.srcs, 1, 2)
      [] op.engine = "load" /\ IsRealMemoryOp(op) -> SubSeq(op.srcs, 1, 1)
      [] op.name \in {"select", "vselect", "add_imm", "vbroadcast"} -> op.srcs
      [] IsJump(op) -> op.srcs
      [] OTHER -> <<>>

Bank(r) == r % Banks
ReadsOf(op, b) == Cardinality({k \in DOMAIN ReadPorts(op) : Bank(ReadPorts(op)[k]) = b})
WriteBanks(op) == {Bank(r) : r \in Dests(op)}
ReadBanks(op) == {Bank(ReadPorts(op)[k]) : k \in DOMAIN ReadPorts(op)}

=============================================================================

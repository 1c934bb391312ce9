--------------------------- MODULE KernelMachine ---------------------------
(***************************************************************************)
(* One core running a compiled kernel, an operation at a time: the         *)
(* meaning the scheduler must keep when it packs the operations into       *)
(* bundles.  What an operation does is _execute of the golden model; the   *)
(* immediate of add_imm is what the flow slot of the bundle can carry; the *)
(* matrix operations are those of MatrixEngine with a product that is      *)
(* bilinear in the two tiles.                                              *)
(*                                                                         *)
(* A job is a kernel bound to memory: [kernel, args, bindings, dmem,       *)
(* means], where means is the memory the kernel promises to leave.         *)
(***************************************************************************)
EXTENDS KernelIr, Bitwise

CONSTANTS
    Jobs,           \* kernels to run
    ThisCore,       \* value of coreid
    Fills           \* what scratch memory may hold when the core starts

VARIABLES
    code,           \* the kernel that runs, lowered
    meant,          \* the memory it promises
    pc,             \* next operation
    scratch,        \* scratch memory
    dmem,           \* main memory
    lhs, rhs, acc,  \* tiles held by the matrix engine
    status          \* "running", "halted" or "rejected"

vars == <<code, meant, pc, scratch, dmem, lhs, rhs, acc, status>>

Zeros(n) == [i \in 0..(n - 1) |-> 0]

(* A job is compiled; a buffer that does not fit is an error and leaves    *)
(* nothing to run.                                                         *)
Start(job) ==
    /\ meant = job.means
    /\ dmem = job.dmem
    /\ \/ /\ Allocated(job.kernel.buffers).fits
          /\ code = Lower(job.kernel, job.args, job.bindings)
          /\ status = "running"
       \/ /\ ~ Allocated(job.kernel.buffers).fits
          /\ code = << >>
          /\ status = "rejected"

Init ==
    /\ \E jobs \in {Jobs} : \E i \in DOMAIN jobs : Start(jobs[i])
    /\ \E fill \in Fills : scratch = [a \in 0..(ScratchSize - 1) |-> fill]
    /\ pc = 1
    /\ lhs = Zeros(InWords) /\ rhs = Zeros(InWords) /\ acc = Zeros(OutWords)

-----------------------------------------------------------------------------
Op == code[pc]

At(op) ==
    /\ status = "running"
    /\ pc <= Len(code)
    /\ Op.op = op

Advance == pc' = pc + 1 /\ UNCHANGED <<code, meant, status>>

Lanes == 0..(VLen - 1)

(* Main memory: what was never written reads as zero.                      *)
Fetched(addr) == IF addr \in DOMAIN dmem THEN dmem[addr] ELSE 0

(* _alu_op: words without sign, a division by zero gives zero.             *)
AluOp(op, a, b) ==
    CASE op = "add" -> Word(a + b)
      [] op = "sub" -> Word(a - b)
      [] op = "mul" -> Word(a * b)
      [] op = "lt"  -> IF a < b THEN 1 ELSE 0
      [] op = "eq"  -> IF a = b THEN 1 ELSE 0
      [] op = "xor" -> a ^^ b
      [] op = "or"  -> a | b
      [] op = "shl" -> Word(a * 2^(b % WordBits))
      [] op = "shr" -> a \div 2^(b % WordBits)
      [] op = "mod" -> IF b = 0 THEN 0 ELSE a % b
      [] op = "div" -> IF b = 0 THEN 0 ELSE a \div b

SetWord(d, value) == scratch' = [scratch EXCEPT ![d] = Word(value)]

(* All lanes are read before one is written.                               *)
SetLanes(d, value(_)) ==
    scratch' = [k \in {d + i : i \in Lanes} |-> value(k - d)] @@ scratch

UnchangedMemory == UNCHANGED dmem
UnchangedMatrix == UNCHANGED <<lhs, rhs, acc>>

DoConst ==
    /\ At("const")
    /\ SetWord(Op.d, Op.imm)
    /\ Advance /\ UnchangedMemory /\ UnchangedMatrix

DoAlu ==
    /\ At("alu")
    /\ SetWord(Op.d, AluOp(Op.to, scratch[Op.a], scratch[Op.b]))
    /\ Advance /\ UnchangedMemory /\ UnchangedMatrix

DoValu ==
    /\ At("valu")
    /\ SetLanes(Op.d, LAMBDA i : AluOp(Op.to, scratch[Op.a + i], scratch[Op.b + i]))
    /\ Advance /\ UnchangedMemory /\ UnchangedMatrix

DoBroadcast ==
    /\ At("vbroadcast")
    /\ SetLanes(Op.d, LAMBDA i : scratch[Op.a])
    /\ Advance /\ UnchangedMemory /\ UnchangedMatrix

DoLoad ==
    /\ At("load")
    /\ SetWord(Op.d, Fetched(scratch[Op.a]))
    /\ Advance /\ UnchangedMemory /\ UnchangedMatrix

DoVLoad ==
    /\ At("vload")
    /\ SetLanes(Op.d, LAMBDA i : Fetched(scratch[Op.a] + i))
    /\ Advance /\ UnchangedMemory /\ UnchangedMatrix

DoStore ==
    /\ At("store")
    /\ dmem' = (scratch[Op.a] :> scratch[Op.b]) @@ dmem
    /\ Advance /\ UNCHANGED scratch /\ UnchangedMatrix

DoVStore ==
    /\ At("vstore")
    /\ dmem' = [a \in {scratch[Op.a] + i : i \in Lanes} |->
                    scratch[Op.b + a - scratch[Op.a]]] @@ dmem
    /\ Advance /\ UNCHANGED scratch /\ UnchangedMatrix

DoAddImm ==
    /\ At("add_imm")
    /\ SetWord(Op.d, scratch[Op.a] + Immediate(Op.imm))
    /\ Advance /\ UnchangedMemory /\ UnchangedMatrix

DoSelect ==
    /\ At("select")
    /\ SetWord(Op.d, IF scratch[Op.a] # 0 THEN scratch[Op.b] ELSE scratch[Op.to])
    /\ Advance /\ UnchangedMemory /\ UnchangedMatrix

DoCoreId ==
    /\ At("coreid")
    /\ SetWord(Op.d, ThisCore)
    /\ Advance /\ UnchangedMemory /\ UnchangedMatrix

(* Control.  A label is a place between bundles.                           *)
DoLabel ==
    /\ At("label")
    /\ Advance /\ UNCHANGED scratch /\ UnchangedMemory /\ UnchangedMatrix

Goto(label) == pc' = PlaceOf(code, label)

DoJump ==
    /\ At("jump")
    /\ Goto(Op.to)
    /\ UNCHANGED <<code, meant, scratch, status>> /\ UnchangedMemory /\ UnchangedMatrix

DoCondJump ==
    /\ At("cond_jump")
    /\ IF scratch[Op.a] # 0 THEN Goto(Op.to) ELSE pc' = pc + 1
    /\ UNCHANGED <<code, meant, scratch, status>> /\ UnchangedMemory /\ UnchangedMatrix

DoHalt ==
    /\ At("halt")
    /\ status' = "halted"
    /\ UNCHANGED <<code, meant, pc, scratch>> /\ UnchangedMemory /\ UnchangedMatrix

-----------------------------------------------------------------------------
(* The matrix engine.                                                      *)
FetchedTile(addr) == [i \in 0..(InWords - 1) |-> Fetched(addr + i)]

DoMoveIn ==
    /\ \/ /\ At("mdmvin_lhs")
          /\ lhs' = FetchedTile(Op.imm) /\ UNCHANGED rhs
       \/ /\ At("mdmvin_rhs")
          /\ rhs' = FetchedTile(Op.imm) /\ UNCHANGED lhs
    /\ Advance /\ UNCHANGED <<scratch, acc>> /\ UnchangedMemory

DoZero ==
    /\ At("mzero")
    /\ acc' = Zeros(OutWords)
    /\ Advance /\ UNCHANGED <<scratch, lhs, rhs>> /\ UnchangedMemory

DoCompute ==
    /\ \/ /\ At("mcompute")
          /\ acc' = Product(lhs, rhs)
       \/ /\ At("mcompute_acc")
          /\ acc' = [i \in DOMAIN acc |-> Word(acc[i] + Product(lhs, rhs)[i])]
    /\ Advance /\ UNCHANGED <<scratch, lhs, rhs>> /\ UnchangedMemory

DoMoveOut ==
    /\ At("mdmvout")
    /\ dmem' = [a \in {Op.imm + i : i \in DOMAIN acc} |-> acc[a - Op.imm]] @@ dmem
    /\ Advance /\ UNCHANGED scratch /\ UnchangedMatrix

-----------------------------------------------------------------------------
Next ==
    \/ DoConst \/ DoAlu \/ DoValu \/ DoBroadcast \/ DoLoad \/ DoVLoad \/ DoStore \/ DoVStore
    \/ DoAddImm \/ DoSelect \/ DoCoreId \/ DoLabel \/ DoJump \/ DoCondJump \/ DoHalt
    \/ DoMoveIn \/ DoZero \/ DoCompute \/ DoMoveOut

Spec == Init /\ [][Next]_vars

(* A core that runs executes its next operation.                           *)
LiveSpec == Spec /\ WF_vars(Next)

-----------------------------------------------------------------------------
(* When a kernel halts, main memory holds what the kernel promises, at     *)
(* every address and not only in its results, whatever scratch memory      *)
(* held before.                                                            *)
ResultAsMeant == status = "halted" => dmem = meant

(* A store writes only what its word holds in the end: no store writes a   *)
(* value that a later store has to repair.  The matrix engine does so by   *)
(* design: a sum of products is moved out after each of them.              *)
StoresFinal ==
    [][At("store") \/ At("vstore") =>
          \A a \in DOMAIN dmem' :
              (a \notin DOMAIN dmem \/ dmem'[a] # dmem[a]) =>
                  a \in DOMAIN meant /\ dmem'[a] = meant[a]]_vars

(* Every kernel that was compiled reaches its halt.                        *)
Halts == <>(status # "running")
=============================================================================

----------------------------- MODULE KernelIr -----------------------------
(***************************************************************************)
(* The flat intermediate representation of a kernel (tools/dsl/ir.py), the *)
(* operations KernelBuilder appends to it and their lowering to scheduler  *)
(* operations with scratch addresses (tools/dsl/lowering.py).  A buffer is *)
(* named by a tuple <<kind, number>>; <<kind, number, lane>> is the alias  *)
(* of one of its words that lane() makes.                                  *)
(*                                                                         *)
(* A kernel is [buffers, ops]: declarations in order and operations in     *)
(* order.  Bindings give the main memory addresses of its tensors and the  *)
(* values of its scalar arguments.                                         *)
(***************************************************************************)
EXTENDS ScratchLayout, SequencesExt

CONSTANTS
    VLen,           \* lanes of a vector register
    ImmBits,        \* bits of the immediate of a flow operation
    WordBits,       \* bits of a word
    InWords,        \* words of an operand tile of the matrix engine
    OutWords,       \* words of a result tile
    None            \* an operand that is not there

ASSUME LaneAssumption == VLen \in Nat \ {0} /\ VectorAlign >= VLen

-----------------------------------------------------------------------------
(* Values.                                                                 *)
WordSize == 2^WordBits
Words    == 0..(WordSize - 1)

Word(value) == value % WordSize

(* The product of two tiles: word i weighs the inner product by i + 1, and *)
(* the corner term keeps the left tile apart from the right one, so that a *)
(* result depends on both tiles, their order and its own place.            *)
Product(l, r) ==
    LET inner == FoldFunction(LAMBDA x, y : x + y, 0, [i \in DOMAIN l |-> l[i] * r[i]])
    IN  [i \in 0..(OutWords - 1) |-> Word((i + 1) * inner + l[0] * r[InWords - 1])]

-----------------------------------------------------------------------------
(* Declarations.                                                           *)
Buffer(name, vector, size, base) ==
    [name |-> name, vector |-> vector, size |-> size, align |-> size, base |-> base]

Scalar(name)         == Buffer(name, FALSE, 1, NoBase)
ScalarAt(name, base) == Buffer(name, FALSE, 1, base)
VectorAt(name, base) == Buffer(name, TRUE, VLen, base)

Kernel(buffers, ops) == [buffers |-> buffers, ops |-> ops]

(* Operations: d is written, a and b are read.                             *)
Ir(op, d, a, b, imm, to) ==
    [op |-> op, d |-> d, a |-> a, b |-> b, imm |-> imm, to |-> to]

Const(d, value)          == Ir("const", d, None, None, value, None)
AddressOf(d, buf, words) == Ir("address_of", d, None, None, words, buf)
Load(d, addr)            == Ir("load", d, addr, None, 0, None)
Store(addr, src)         == Ir("store", None, addr, src, 0, None)
VLoad(d, addr)           == Ir("vload", d, addr, None, 0, None)
VStore(addr, src)        == Ir("vstore", None, addr, src, 0, None)
Binary(op, d, lhs, rhs)    == Ir("alu", d, lhs, rhs, 0, op)
VectorMap(op, d, lhs, rhs) == Ir("valu", d, lhs, rhs, 0, op)
VectorFill(d, src)       == Ir("vbroadcast", d, src, None, 0, None)
AddImm(d, src, imm)      == Ir("add_imm", d, src, None, imm, None)
Select(d, cond, x, y)    == Ir("select", d, cond, x, 0, y)
CoreId(d)                == Ir("coreid", d, None, None, 0, None)
LabelAt(name)            == Ir("label", None, None, None, 0, name)
Jump(target)             == Ir("jump", None, None, None, 0, target)
CondJump(cond, target)   == Ir("cond_jump", None, cond, None, 0, target)
Halt                     == Ir("halt", None, None, None, 0, None)

(* matmul(): tiles in main memory, by tensor and offset (dmem_alias).      *)
Tile(tensor, words) == [tensor |-> tensor, words |-> words]
MatMul(lhs, rhs, out, accumulate) ==
    Ir("matmul", out, lhs, rhs, IF accumulate THEN 1 ELSE 0, None)

(* lane(): the alias of one word of a vector with an explicit base.        *)
Lane(vec, k) == Append(vec, k)

(* Transfers of a tile of a tensor: the pointer is set, then used.         *)
VLoadView(d, tensor, start, ptr)    == << AddressOf(ptr, tensor, start), VLoad(d, ptr) >>
VStoreView(tensor, start, src, ptr) == << AddressOf(ptr, tensor, start), VStore(ptr, src) >>
StoreView(tensor, start, src, ptr)  == << AddressOf(ptr, tensor, start), Store(ptr, src) >>

Scalars(names) == [i \in DOMAIN names |-> Scalar(names[i])]

(* The elements of a sequence, each where it comes first.                  *)
Distinct(seq) ==
    LET first == SelectSeq([i \in DOMAIN seq |-> i], LAMBDA i : \A j \in 1..(i - 1) : seq[j] # seq[i])
    IN  [k \in DOMAIN first |-> seq[first[k]]]

(* _ensure_pointer: a pointer is declared where it is first used.          *)
Pointers(ops) ==
    LET uses == SelectSeq(ops, LAMBDA op : op.op = "address_of")
    IN  Scalars(Distinct([i \in DOMAIN uses |-> uses[i].d]))

(* The pieces of a kernel one after the other (FlattenSeq, by halves).     *)
RECURSIVE Joined(_)
Joined(pieces) ==
    LET half == Len(pieces) \div 2
    IN  IF half = 0 THEN FlattenSeq(pieces)
        ELSE Joined(SubSeq(pieces, 1, half)) \o Joined(SubSeq(pieces, half + 1, Len(pieces)))

EachOf(n, emit(_)) == Joined([i \in 1..n |-> emit(i - 1)])

-----------------------------------------------------------------------------
(* allocate_all: the base of every buffer and the first free address; a    *)
(* buffer that does not fit ends it.                                       *)
Allocated(buffers) ==
    LET after[i \in 0..Len(buffers)] ==
            IF i = 0 THEN [next |-> 0, base |-> << >>, fits |-> TRUE]
            ELSE LET buf == buffers[i]
                     acc == after[i - 1]
                 IN  IF ~ acc.fits THEN acc
                     ELSE [ next |-> NextAfter(buf, acc.next),
                            base |-> acc.base @@ (buf.name :> BaseOf(buf, acc.next)),
                            fits |-> Fits(buf, acc.next) ]
    IN  after[Len(buffers)]

(* _addr, with the word a lane alias stands for.                           *)
Addr(base, o) ==
    CASE o = None -> None
      [] o # None /\ Len(o) = 2 -> base[o]
      [] o # None /\ Len(o) = 3 -> base[<<o[1], o[2]>>] + o[3]

(* _resolve_buffer_address of a tile: the binding of its tensor, plus the  *)
(* offsets of the aliases on the way.                                      *)
TileAddr(tile, bindings) == bindings[tile.tensor] + tile.words

(* _lower_matrix_multiply: move both tiles in, clear the accumulators or   *)
(* keep them, compute, move the result out.                                *)
LowerMatMul(ir, bindings) ==
    LET move(op, tile) == Ir(op, None, None, None, TileAddr(tile, bindings), None)
        unit(op)       == Ir(op, None, None, None, 0, None)
    IN  << move("mdmvin_lhs", ir.a), move("mdmvin_rhs", ir.b) >> \o
        ( IF ir.imm = 1 THEN << unit("mcompute_acc") >>
                        ELSE << unit("mzero"), unit("mcompute") >> ) \o
        << move("mdmvout", ir.d) >>

(* _lower_op: names become addresses, the address of a tensor a constant.  *)
LowerOp(ir, base, bindings) ==
    CASE ir.op = "matmul" -> LowerMatMul(ir, bindings)
      [] ir.op = "address_of" ->
            << Ir("const", base[ir.d], None, None, bindings[ir.to] + ir.imm, None) >>
      [] ir.op = "select" ->
            << [ir EXCEPT !.d = Addr(base, @), !.a = Addr(base, @), !.b = Addr(base, @),
                          !.to = Addr(base, @)] >>
      [] OTHER ->
            << [ir EXCEPT !.d = Addr(base, @), !.a = Addr(base, @), !.b = Addr(base, @)] >>

(* _emit_argument_prologue: one constant per scalar argument.              *)
Prologue(args, base, bindings) ==
    [i \in DOMAIN args |-> Ir("const", base[args[i]], None, None, bindings[args[i]], None)]

(* DslLowerer.lower, up to the scheduler.                                  *)
Lower(kernel, args, bindings) ==
    LET base == Allocated(kernel.buffers).base
    IN  Prologue(args, base, bindings) \o
        Joined([i \in DOMAIN kernel.ops |-> LowerOp(kernel.ops[i], base, bindings)])

(* The place a label stands for.                                           *)
PlaceOf(code, label) ==
    CHOOSE i \in DOMAIN code : code[i].op = "label" /\ code[i].to = label

(* The immediate a flow slot carries: its low bits, with sign.             *)
Immediate(value) ==
    ((value + 2^(ImmBits - 1)) % 2^ImmBits) - 2^(ImmBits - 1)
=============================================================================

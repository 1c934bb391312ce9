----------------------------- MODULE TileWeave -----------------------------
(***************************************************************************)
(* TileWeaveKernelBuilder.build (tools/dsl/tileweave.py): a block program  *)
(* over tensors becomes a loop over full blocks, each cut into chunks of a *)
(* hardware vector, and a scalar loop over the elements that are left.     *)
(*                                                                         *)
(* A program is                                                            *)
(*   [length, block, stride, count, base, nodes, stores]:                  *)
(* count is program_count or None, base the first word for vectors, nodes  *)
(* the block values in the order of their creation                         *)
(*   [kind, tensor, mask, other, step, scalar, op, lhs, rhs]               *)
(* with operands named by their place in nodes, and stores a sequence of   *)
(*   [tensor, mask, step, value].                                          *)
(* A mask is None or the number of lanes that are valid.                   *)
(***************************************************************************)
EXTENDS KernelLoops

Node(kind) == [ kind |-> kind, tensor |-> None, mask |-> None, other |-> 0, step |-> 1,
                scalar |-> None, op |-> None, lhs |-> 0, rhs |-> 0 ]

LoadNode(tensor, mask, other, step) ==
    [Node("load") EXCEPT !.tensor = tensor, !.mask = mask, !.other = other, !.step = step]
SplatNode(scalar)        == [Node("splat") EXCEPT !.scalar = scalar]
BinaryNode(op, lhs, rhs) == [Node("binary") EXCEPT !.op = op, !.lhs = lhs, !.rhs = rhs]

StoreSpec(tensor, mask, step, value) ==
    [tensor |-> tensor, mask |-> mask, step |-> step, value |-> value]

-----------------------------------------------------------------------------
(* Blocks.                                                                 *)
FullTiles(p) ==
    IF p.count # None THEN p.count
    ELSE IF p.length >= p.block THEN 1 + ((p.length - p.block) \div p.stride) ELSE 0

\* Mutant of TailStart: the tail starts behind the words of the last block.
TailAfterBlock(p) == (FullTiles(p) - 1) * p.stride + p.block

TailStart(p) == FullTiles(p) * p.stride

TailElements(p) ==
    IF p.count # None \/ p.length < TailStart(p) THEN 0 ELSE p.length - TailStart(p)

Chunks(p)    == p.block \div VLen
BlockTail(p) == p.block % VLen

(* Lanes of a chunk that a mask lets through.                              *)
ValidFor(mask, offset) ==
    IF mask = None \/ mask - offset >= VLen THEN VLen
    ELSE IF mask > offset THEN mask - offset ELSE 0

LaneValid(mask, lane) == mask = None \/ lane < mask

-----------------------------------------------------------------------------
(* The builder at work: the operations emitted so far and what its caches  *)
(* hold.                                                                   *)
Blank == [ops |-> << >>, done |-> {}, splats |-> {}, fills |-> {}, emitted |-> {}]

Emit(st, ops) == [st EXCEPT !.ops = @ \o ops]

Ptr(tensor)       == S(tensor[1] \o "_ptr")
OffsetPtr(tensor) == S(tensor[1] \o "_ptr_offset")
Vec(n)            == << "vec", n >>
Fill(n)           == << "fill", n >>

(* pointer_with_offset: the operations, and the pointer to use after them. *)
PtrOps(tensor, offset) ==
    IF offset = 0 THEN << >> ELSE << AddImm(OffsetPtr(tensor), Ptr(tensor), offset) >>
PtrAt(tensor, offset) == IF offset = 0 THEN Ptr(tensor) ELSE OffsetPtr(tensor)

(* immediate_scalar: set where it is first needed.                         *)
WithFill(p, st, n) ==
    IF n \in st.fills THEN st
    ELSE [Emit(st, << Const(Fill(n), p.nodes[n].other) >>) EXCEPT !.fills = @ \cup {n}]

RECURSIVE NeedsScalars(_, _)
NeedsScalars(p, n) ==
    LET node == p.nodes[n] IN
    \/ node.kind = "load" /\ node.step # 1
    \/ node.kind = "binary" /\ (NeedsScalars(p, node.lhs) \/ NeedsScalars(p, node.rhs))

(* A load, into the vector of its node.                                    *)
LoadChunk(p, st, n, offset) ==
    LET node  == p.nodes[n]
        valid == ValidFor(node.mask, offset)
        lane(k) == LET at == offset + k * node.step
                   IN  PtrOps(node.tensor, at) \o << Load(Lane(Vec(n), k), PtrAt(node.tensor, at)) >>
    IN  IF node.step = 1 /\ valid >= VLen
        THEN Emit(st, PtrOps(node.tensor, offset) \o << VLoad(Vec(n), PtrAt(node.tensor, offset)) >>)
        ELSE Emit(WithFill(p, st, n), << VectorFill(Vec(n), Fill(n)) >> \o EachOf(valid, lane))

(* materialize: loads are emitted again each time, splats once, binary     *)
(* values once for each chunk, all into the one vector of their node.      *)
RECURSIVE Materialize(_, _, _, _)
Materialize(p, st, n, offset) ==
    LET node == p.nodes[n]
        done(s) == [s EXCEPT !.done = @ \cup {<< n, offset >>}]
        both == Materialize(p, Materialize(p, st, node.lhs, offset), node.rhs, offset)
    IN  IF node.kind = "load" THEN LoadChunk(p, st, n, offset)
        ELSE IF << n, offset >> \in st.done THEN st
        ELSE IF node.kind = "binary"
             THEN done(Emit(both, << VectorMap(node.op, Vec(n), Vec(node.lhs), Vec(node.rhs)) >>))
        ELSE IF n \in st.splats THEN done(st)
        ELSE done([Emit(st, << VectorFill(Vec(n), node.scalar) >>) EXCEPT !.splats = @ \cup {n}])

RECURSIVE Hoist(_, _, _)
Hoist(p, st, n) ==
    CASE p.nodes[n].kind = "load"   -> st
      [] p.nodes[n].kind = "splat"  -> Materialize(p, st, n, 0)
      [] p.nodes[n].kind = "binary" -> Hoist(p, Hoist(p, st, p.nodes[n].lhs), p.nodes[n].rhs)

(* emit_scalar_value: one lane of a value, each node once per lane.        *)
ScalarOf(p, n) == IF p.nodes[n].kind = "splat" THEN p.nodes[n].scalar ELSE << "value", n >>

RECURSIVE EmitScalar(_, _, _, _)
EmitScalar(p, st, n, lane) ==
    LET node == p.nodes[n]
        dest == ScalarOf(p, n)
        done(s) == [s EXCEPT !.emitted = @ \cup {n}]
        both == EmitScalar(p, EmitScalar(p, st, node.lhs, lane), node.rhs, lane)
        at   == lane * node.step
    IN  IF node.kind = "splat" \/ n \in st.emitted THEN st
        ELSE IF node.kind = "binary"
             THEN done(Emit(both, << Binary(node.op, dest, ScalarOf(p, node.lhs), ScalarOf(p, node.rhs)) >>))
        ELSE IF LaneValid(node.mask, lane)
             THEN done(Emit(st, PtrOps(node.tensor, at) \o << Load(dest, PtrAt(node.tensor, at)) >>))
        ELSE done(Emit(WithFill(p, st, n), << Const(dest, 0), Binary("add", dest, Fill(n), dest) >>))

(* One lane of a store.                                                    *)
StoreLane(p, st, store, lane) ==
    LET value == EmitScalar(p, [st EXCEPT !.emitted = {}], store.value, lane)
        at    == lane * store.step
    IN  Emit(value, PtrOps(store.tensor, at) \o
                    << Store(PtrAt(store.tensor, at), ScalarOf(p, store.value)) >>)

StoreLanes(p, st, store, first) ==
    LET lanes == [k \in 1..(p.block - first) |-> first + k - 1]
    IN  FoldLeft(LAMBDA s, lane : StoreLane(p, s, store, lane), st,
                 SelectSeq(lanes, LAMBDA lane : LaneValid(store.mask, lane)))

(* One chunk of a store: the vector, or its valid lanes one by one.        *)
StoreChunk(p, st, store, offset) ==
    LET vec   == Vec(store.value)
        valid == ValidFor(store.mask, offset)
        lane(k) == PtrOps(store.tensor, offset + k) \o
                   << Store(PtrAt(store.tensor, offset + k), Lane(vec, k)) >>
    IN  Emit(Materialize(p, st, store.value, offset),
             IF valid >= VLen
             THEN PtrOps(store.tensor, offset) \o << VStore(PtrAt(store.tensor, offset), vec) >>
             ELSE EachOf(valid, lane))

StoreBlock(p, st, store) ==
    IF store.step # 1 \/ NeedsScalars(p, store.value) THEN StoreLanes(p, st, store, 0)
    ELSE StoreLanes(p,
             FoldLeft(LAMBDA s, c : StoreChunk(p, s, store, (c - 1) * VLen), st,
                      [c \in 1..Chunks(p) |-> c]),
             store, Chunks(p) * VLen)

(* The tensors loaded, each once, and those stored, one per store; the     *)
(* pointers a loop moves on, each once.                                    *)
LoadTensors(p) ==
    LET loads == SelectSeq(p.nodes, LAMBDA node : node.kind = "load")
    IN  Distinct([i \in DOMAIN loads |-> loads[i].tensor])
StoreTensors(p) == [i \in DOMAIN p.stores |-> p.stores[i].tensor]

UniquePtrs(p) ==
    LET tensors == Distinct(LoadTensors(p) \o StoreTensors(p))
    IN  [i \in DOMAIN tensors |-> Ptr(tensors[i])]

LoopBody(p, st) == FoldLeft(LAMBDA s, store : StoreBlock(p, s, store), [st EXCEPT !.ops = << >>], p.stores)

(* tail_body: lane 0 of every store, loaded once, then one element on.     *)
TailBody(p, st) ==
    FoldLeft(LAMBDA s, store : Emit(EmitScalar(p, s, store.value, 0),
                                    << Store(Ptr(store.tensor), ScalarOf(p, store.value)) >>),
             [st EXCEPT !.ops = << >>, !.emitted = {}],
             SelectSeq(p.stores, LAMBDA store : LaneValid(store.mask, 0))).ops \o
    [i \in DOMAIN UniquePtrs(p) |-> AddImm(UniquePtrs(p)[i], UniquePtrs(p)[i], 1)]

(* build(): prelude and postlude are what the caller adds around it.       *)
TileWeaveOps(p, prelude, postlude) ==
    LET addresses(tensors) == [i \in DOMAIN tensors |-> AddressOf(Ptr(tensors[i]), tensors[i], 0)]
        hoisted == FoldLeft(LAMBDA s, store : Hoist(p, s, store.value), Blank, p.stores)
        start   == IF FullTiles(p) > 0 THEN hoisted ELSE Blank
        body    == LoopBody(p, start)
    IN  prelude \o addresses(LoadTensors(p)) \o addresses(StoreTensors(p)) \o start.ops \o
        ( IF FullTiles(p) = 0 THEN << >>
          ELSE ForEachTile(S("program_id_0"), FullTiles(p), p.stride, UniquePtrs(p), body.ops, "programs") ) \o
        ( IF TailElements(p) = 0 THEN << >>
          ELSE CountedLoop(S("program_id_0_tail"), 0, TailElements(p), 1,
                           TailBody(p, IF FullTiles(p) > 0 THEN body ELSE Blank), "tail_programs") ) \o
        postlude \o << Halt >>

(* Vectors are reserved for the stored values, operands first, each with   *)
(* an explicit base; scalars are placed automatically.                     *)
RECURSIVE Reserved(_, _, _)
Reserved(p, seq, n) ==
    LET node == p.nodes[n]
        below == IF node.kind = "binary" THEN Reserved(p, Reserved(p, seq, node.lhs), node.rhs) ELSE seq
    IN  IF Contains(below, n) THEN below ELSE Append(below, n)

TileWeaveBuffers(p, args, ops) ==
    LET vectors == FoldLeft(LAMBDA seq, store : Reserved(p, seq, store.value), << >>, p.stores)
        first   == args \o UniquePtrs(p) \o << S("program_id_0") >>
        sets    == SelectSeq(ops, LAMBDA op : op.d # None /\ op.op # "matmul" /\ Len(op.d) = 2 /\ op.d[1] # "vec")
        names   == Distinct(first \o [i \in DOMAIN sets |-> sets[i].d])
    IN  Scalars(first) \o
        [i \in DOMAIN vectors |-> VectorAt(Vec(vectors[i]), p.base + (i - 1) * VLen)] \o
        Scalars(SubSeq(names, Len(first) + 1, Len(names)))

-----------------------------------------------------------------------------
(* What a block program means: a block reads its lanes, then writes them.  *)
RECURSIVE Value(_, _, _, _, _, _)
Value(p, memory, bindings, n, start, lane) ==
    LET node == p.nodes[n]
        of(m) == Value(p, memory, bindings, m, start, lane)
    IN  CASE node.kind = "splat" -> bindings[node.scalar]
          [] node.kind = "load" ->
                IF LaneValid(node.mask, lane)
                THEN memory[bindings[node.tensor] + start + lane * node.step] ELSE node.other
          [] node.kind = "binary" ->
                Word(CASE node.op = "add" -> of(node.lhs) + of(node.rhs)
                       [] node.op = "sub" -> of(node.lhs) - of(node.rhs)
                       [] node.op = "mul" -> of(node.lhs) * of(node.rhs))

BlockMeans(p, memory, bindings, start, lanes) ==
    LET write(after, store) ==
            [a \in { bindings[store.tensor] + start + k * store.step :
                        k \in {j \in 0..(lanes - 1) : LaneValid(store.mask, j)} } |->
                Value(p, memory, bindings, store.value, start,
                      (a - bindings[store.tensor] - start) \div store.step)] @@ after
    IN  FoldLeft(write, memory, p.stores)

(* The blocks are those that lie within the length (or as many as asked    *)
(* for); the words behind the last stride form a block of their own.       *)
ProgramMeans(p, memory, bindings) ==
    LET n == IF p.count # None THEN p.count
             ELSE Cardinality({t \in 0..p.length : t * p.stride + p.block <= p.length})
        blocks == FoldLeft(LAMBDA m, t : BlockMeans(p, m, bindings, (t - 1) * p.stride, p.block),
                           memory, [t \in 1..n |-> t])
    IN  IF p.count # None \/ p.length <= n * p.stride THEN blocks
        ELSE BlockMeans(p, blocks, bindings, n * p.stride, p.length - n * p.stride)

(* A program bound to memory.                                              *)
TileWeaveJob(p, args, bindings, memory) ==
    LET ops == TileWeaveOps(p, << >>, << >>)
    IN  [ kernel   |-> Kernel(TileWeaveBuffers(p, args, ops), ops),
          args     |-> args,
          bindings |-> bindings,
          dmem     |-> memory,
          means    |-> ProgramMeans(p, memory, bindings) ]
=============================================================================

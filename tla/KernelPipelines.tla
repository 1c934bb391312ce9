-------------------------- MODULE KernelPipelines --------------------------
(***************************************************************************)
(* Software pipelined kernels: software_pipeline_binary of KernelBuilder   *)
(* and the pipelined examples of tools/dsl/examples (dsp_kernels,          *)
(* pipelined_vector_add, the multi-matrix kernels of tileweave_kernels),   *)
(* next to the plain versions they must agree with.  A pipeline is         *)
(*   [tiles, unroll, stride, base, pipelined]:                             *)
(* how many tiles, how many of them in a batch, the distance of their      *)
(* starts, the first scratch word of the stages.  The plain version has    *)
(* one stage.  Every kernel comes with the memory its docstring promises.  *)
(***************************************************************************)
EXTENDS KernelLoops

Probe == S("probe")
Meta  == S("meta")
Args  == << Gain, Bias >>

Stages(role, n, base) == [i \in 1..n |-> VectorAt(<< role, i - 1 >>, base + (i - 1) * VLen)]

StageCount(p) == IF p.pipelined THEN 2 * p.unroll ELSE 1

Batches(p) == (p.tiles + p.unroll - 1) \div p.unroll

BatchSize(p, k) == IF (k + 1) * p.unroll <= p.tiles THEN p.unroll ELSE p.tiles - k * p.unroll

TileOf(p, k, o) == k * p.unroll + o

\* Mutant of StageOf: both batches in flight share their stages.
OneGroup(p, k, o) == IF p.pipelined THEN o ELSE 0

(* The batches take turns with the two groups of stages.                   *)
StageOf(p, k, o) == IF p.pipelined THEN (k % 2) * p.unroll + o ELSE 0

(* software_pipeline_binary: a batch is loaded when the one before it has  *)
(* been stored.                                                            *)
Pipeline(p, load(_, _), computeStore(_, _)) ==
    LET batch(k, emit(_, _)) == EachOf(BatchSize(p, k), LAMBDA o : emit(k, o))
    IN  batch(0, load) \o
        EachOf(Batches(p) - 1, LAMBDA k : batch(k, computeStore) \o batch(k + 1, load)) \o
        batch(Batches(p) - 1, computeStore)

(* The DSP kernels: the loads of the next batch alternate with the stores  *)
(* of this one, so that both batches are in flight.                        *)
Interleaved(p, load(_, _), computeStore(_, _)) ==
    LET step(k, o) == (IF o < BatchSize(p, k + 1) THEN load(k + 1, o) ELSE << >>) \o
                      (IF o < BatchSize(p, k) THEN computeStore(k, o) ELSE << >>)
    IN  EachOf(BatchSize(p, 0), LAMBDA o : load(0, o)) \o
        EachOf(Batches(p) - 1, LAMBDA k : EachOf(BatchSize(p, k), LAMBDA o : step(k, o))) \o
        EachOf(BatchSize(p, Batches(p) - 1), LAMBDA o : computeStore(Batches(p) - 1, o))

(* The plain kernels: one tile after the other.                            *)
Plain(p, load(_, _), computeStore(_, _)) ==
    EachOf(p.tiles, LAMBDA t : load(t, 0) \o computeStore(t, 0))

-----------------------------------------------------------------------------
(* A map over a tiled tensor: f(i) for the i-th word of the tiles.         *)
TileWords(p) == { t * p.stride + i : t \in 0..(p.tiles - 1), i \in 0..(VLen - 1) }

Mapped(memory, base, p, f(_)) == [a \in {base + i : i \in TileWords(p)} |-> f(a - base)] @@ memory

(* pipelined_vector_map, and the kernels of pipelined_vector_add: out is   *)
(* in op in2, tile by tile.  The stages of the operands and of the results *)
(* follow each other from the base on.                                     *)
VectorMapKernel(op, apply(_, _), p, bindings, memory) ==
    LET n == StageCount(p)
        ptr(k, o) == IF p.pipelined THEN StageOf(p, k, o) ELSE TileOf(p, k, o)
        load(k, o) ==
            LET s == StageOf(p, k, o)  start == TileOf(p, k, o) * p.stride
            IN  VLoadView(<< "lhs_stage", s >>, In, start, << "lhs_ptr", ptr(k, o) >>) \o
                VLoadView(<< "rhs_stage", s >>, In2, start, << "rhs_ptr", ptr(k, o) >>)
        computeStore(k, o) ==
            LET s == StageOf(p, k, o)  start == TileOf(p, k, o) * p.stride
            IN  << VectorMap(op, << "out_stage", s >>, << "lhs_stage", s >>, << "rhs_stage", s >>) >>
                \o VStoreView(Out, start, << "out_stage", s >>, << "out_ptr", ptr(k, o) >>)
        ops == IF p.pipelined THEN Pipeline(p, load, computeStore) ELSE Plain(p, load, computeStore)
    IN  [ kernel   |-> Kernel(Stages("lhs_stage", n, p.base) \o
                              Stages("rhs_stage", n, p.base + n * VLen) \o
                              Stages("out_stage", n, p.base + 2 * n * VLen) \o Pointers(ops),
                              ops \o << Halt >>),
          args     |-> << >>,
          bindings |-> bindings,
          dmem     |-> memory,
          means    |-> Mapped(memory, bindings[Out], p,
                           LAMBDA i : apply(memory[bindings[In] + i], memory[bindings[In2] + i])) ]

-----------------------------------------------------------------------------
(* Side results of the DSP kernels: two words of each tile and the number  *)
(* of tiles done.                                                          *)
Count == Binary("add", S("tiles_done"), S("tiles_done"), S("one"))

Probes(tile, first, last) ==
    StoreView(Probe, 2 * tile, Lane(first, 0), << "probe_first_ptr", tile >>) \o
    StoreView(Probe, 2 * tile + 1, Lane(last, VLen - 1), << "probe_last_ptr", tile >>)

StoreMeta(count) == StoreView(Meta, 0, count, S("meta_ptr"))

Probed(memory, bindings, tiles, first(_), last(_)) ==
    [a \in {bindings[Probe] + i : i \in 0..(2 * tiles - 1)} |->
        LET i == a - bindings[Probe]
        IN  IF i % 2 = 0 THEN first(i \div 2) ELSE last(i \div 2)] @@
    (bindings[Meta] :> tiles) @@ memory

DspScalars == Scalars(Args \o << S("tiles_done"), S("one"), S("meta_ptr") >>)

DspJob(vectors, fills, ops, bindings, memory, means) ==
    LET all == fills \o << Const(S("tiles_done"), 0), Const(S("one"), 1) >> \o ops \o
               StoreMeta(S("tiles_done"))
        pointers == SelectSeq(Pointers(all), LAMBDA buf : buf.name # S("meta_ptr"))
    IN  [ kernel   |-> Kernel(DspScalars \o vectors \o pointers, all \o << Halt >>),
          args     |-> Args,
          bindings |-> bindings,
          dmem     |-> memory,
          means    |-> means ]

GainVec == S("gain_vec")
BiasVec == S("bias_vec")

(* The gain monitor kernels: out is in times the gain.                     *)
GainMonitor(p, bindings, memory) ==
    LET n == StageCount(p)
        load(k, o) == VLoadView(<< "sample", StageOf(p, k, o) >>, In, TileOf(p, k, o) * p.stride,
                                << "sample_ptr", TileOf(p, k, o) >>)
        computeStore(k, o) ==
            LET t == TileOf(p, k, o)  s == StageOf(p, k, o)
            IN  << VectorMap("mul", << "scaled", s >>, << "sample", s >>, GainVec), Count >> \o
                VStoreView(Out, t * p.stride, << "scaled", s >>, << "out_ptr", t >>) \o
                Probes(t, << "scaled", s >>, << "scaled", s >>)
        out(i) == Word(memory[bindings[In] + i] * bindings[Gain])
    IN  DspJob(<< VectorAt(GainVec, p.base) >> \o Stages("sample", n, p.base + VLen) \o
               Stages("scaled", n, p.base + VLen + n * VLen),
               << VectorFill(GainVec, Gain) >>,
               IF p.pipelined THEN Interleaved(p, load, computeStore) ELSE Plain(p, load, computeStore),
               bindings, memory,
               Probed(Mapped(memory, bindings[Out], p, out), bindings, p.tiles,
                      LAMBDA t : out(t * p.stride), LAMBDA t : out(t * p.stride + VLen - 1)))

(* The dual output kernels: in times the gain, and in plus the bias.       *)
DualOutput(p, bindings, memory) ==
    LET n == StageCount(p)
        load(k, o) ==
            LET t == TileOf(p, k, o)  s == StageOf(p, k, o)
            IN  VLoadView(<< "gain_sample", s >>, In, t * p.stride, << "gain_sample_ptr", t >>) \o
                VLoadView(<< "bias_sample", s >>, In, t * p.stride, << "bias_sample_ptr", t >>)
        computeStore(k, o) ==
            LET t == TileOf(p, k, o)  s == StageOf(p, k, o)
            IN  << VectorMap("mul", << "gain_out", s >>, << "gain_sample", s >>, GainVec),
                   VectorMap("add", << "bias_out", s >>, << "bias_sample", s >>, BiasVec), Count >> \o
                VStoreView(Out, t * p.stride, << "gain_out", s >>, << "gain_out_ptr", t >>) \o
                VStoreView(Out2, t * p.stride, << "bias_out", s >>, << "bias_out_ptr", t >>) \o
                Probes(t, << "gain_out", s >>, << "bias_out", s >>)
        x(i)    == memory[bindings[In] + i]
        gain(i) == Word(x(i) * bindings[Gain])
        bias(i) == Word(x(i) + bindings[Bias])
        at(role, i) == Stages(role, n, p.base + 2 * VLen + i * n * VLen)
    IN  DspJob(<< VectorAt(GainVec, p.base), VectorAt(BiasVec, p.base + VLen) >> \o
               at("gain_sample", 0) \o at("bias_sample", 1) \o at("gain_out", 2) \o at("bias_out", 3),
               << VectorFill(GainVec, Gain), VectorFill(BiasVec, Bias) >>,
               IF p.pipelined THEN Interleaved(p, load, computeStore) ELSE Plain(p, load, computeStore),
               bindings, memory,
               Probed(Mapped(Mapped(memory, bindings[Out], p, gain), bindings[Out2], p, bias),
                      bindings, p.tiles,
                      LAMBDA t : gain(t * p.stride), LAMBDA t : bias(t * p.stride + VLen - 1)))

-----------------------------------------------------------------------------
(* The multi-matrix kernels: a matrix product per run, then affine results *)
(* (product + residual) * gain + bias, chunk by chunk over all runs.  The  *)
(* affine words of the promise, and the words of the product.              *)
LhsTiles == S("lhs_tiles")
RhsTiles == S("rhs_tiles")
MatrixOut == S("matrix_out")

ChunksPerRun == OutWords \div VLen

ProductWord(bindings, memory, i) ==
    LET run == i \div OutWords
        tile(tensor) == [j \in 0..(InWords - 1) |-> memory[bindings[tensor] + run * InWords + j]]
    IN  Product(tile(LhsTiles), tile(RhsTiles))[i % OutWords]

AffineWord(bindings, memory, i) ==
    Word((ProductWord(bindings, memory, i) + memory[bindings[Residual] + i]) * bindings[Gain]
         + bindings[Bias])

MatrixMeans(runs, bindings, memory) ==
    LET product(i) == ProductWord(bindings, memory, i)
        affine(i)  == AffineWord(bindings, memory, i)
    IN  (bindings[Meta] :> runs * ChunksPerRun) @@
        Written(Written(Written(memory, bindings[MatrixOut], runs * OutWords, product),
                        bindings[Out], runs * OutWords, affine),
                bindings[Probe], 2 * runs,
                LAMBDA i : affine((i \div 2) * OutWords + IF i % 2 = 0 THEN 0 ELSE OutWords - 1))

RunProducts(runs) ==
    [r \in 1..runs |-> MatMul(Tile(LhsTiles, (r - 1) * InWords), Tile(RhsTiles, (r - 1) * InWords),
                              Tile(MatrixOut, (r - 1) * OutWords), FALSE)]

(* The affine results of a chunk, and the probes at the ends of its run.   *)
AffineOps(sum, scaled, out, first) ==
    << VectorMap("add", sum, first, << "residual", first[2] >>),
       VectorMap("mul", scaled, sum, GainVec), VectorMap("add", out, scaled, BiasVec) >>

RunProbes(chunk, vec) ==
    ( IF chunk % ChunksPerRun # 0 THEN << >>
      ELSE StoreView(Probe, 2 * (chunk \div ChunksPerRun), Lane(vec, 0),
                     << "probe_first_ptr", chunk >>) ) \o
    ( IF chunk % ChunksPerRun # ChunksPerRun - 1 THEN << >>
      ELSE StoreView(Probe, 2 * (chunk \div ChunksPerRun) + 1, Lane(vec, VLen - 1),
                     << "probe_last_ptr", chunk >>) )

MatrixJob(runs, buffers, ops, bindings, memory) ==
    LET all == RunProducts(runs) \o << VectorFill(GainVec, Gain), VectorFill(BiasVec, Bias) >> \o ops
               \o StoreMeta(S("chunks_done")) \o << Halt >>
        named == { buffers[i].name : i \in DOMAIN buffers }
        pointers == SelectSeq(Pointers(all), LAMBDA buf : buf.name \notin named)
    IN  [ kernel   |-> Kernel(Scalars(Args) \o buffers \o pointers, all),
          args     |-> Args,
          bindings |-> bindings,
          dmem     |-> memory,
          means    |-> MatrixMeans(runs, bindings, memory) ]

MatrixVectors(base) == << VectorAt(GainVec, base), VectorAt(BiasVec, base + VLen) >>

(* build_multi_matrix_residual_affine_kernel: one stage, addressed views.  *)
MultiMatrix(runs, base, bindings, memory) ==
    LET role == << "mat", "residual", "sum", "mul", "affine" >>
        scalars == base + 7 * VLen
        chunk(c) ==
            VLoadView(<< "mat", 0 >>, MatrixOut, c * VLen, << "mat_ptr", c >>) \o
            VLoadView(<< "residual", 0 >>, Residual, c * VLen, << "residual_ptr", c >>) \o
            AffineOps(<< "sum", 0 >>, << "mul", 0 >>, << "affine", 0 >>, << "mat", 0 >>) \o
            << Binary("add", S("chunks_done"), S("chunks_done"), S("one")) >> \o
            VStoreView(Out, c * VLen, << "affine", 0 >>, << "affine_ptr", c >>) \o
            RunProbes(c, << "affine", 0 >>)
    IN  MatrixJob(runs,
            MatrixVectors(base) \o
            [i \in DOMAIN role |-> VectorAt(<< role[i], 0 >>, base + (i + 1) * VLen)] \o
            << ScalarAt(S("chunks_done"), scalars), ScalarAt(S("meta_ptr"), scalars + 1),
               ScalarAt(S("one"), scalars + 2) >>,
            << Const(S("chunks_done"), 0), Const(S("one"), 1) >> \o
            EachOf(runs * ChunksPerRun, chunk), bindings, memory)

\* Mutant of StepPointers: the pointers move on before the next chunk is known to exist, twice.
StepTwice(last) ==
    IF last THEN << >>
    ELSE << AddImm(S("matrix_ptr"), S("matrix_ptr"), 2 * VLen),
            AddImm(S("residual_ptr"), S("residual_ptr"), 2 * VLen) >>

StepPointers(last) ==
    IF last THEN << >>
    ELSE << AddImm(S("matrix_ptr"), S("matrix_ptr"), VLen),
            AddImm(S("residual_ptr"), S("residual_ptr"), VLen) >>

(* build_pipelined_multi_matrix_residual_affine_kernel: two stages in      *)
(* turn, running pointers that move on after each chunk but the last, and  *)
(* all scalars behind the stages.                                          *)
PipelinedMultiMatrix(runs, base, bindings, memory) ==
    LET chunks  == runs * ChunksPerRun
        scalar  == << "chunks_done", "meta_ptr", "matrix_ptr", "residual_ptr", "affine_ptr" >>
        load(c) == << VLoad(<< "mat", c % 2 >>, S("matrix_ptr")),
                      VLoad(<< "residual", c % 2 >>, S("residual_ptr")) >>
        chunk(c) ==
            LET out == << "affine", c % 2 >>
            IN  load(c) \o AffineOps(out, out, out, << "mat", c % 2 >>) \o
                << VStore(S("affine_ptr"), out) >> \o RunProbes(c, out) \o
                << AddImm(S("affine_ptr"), S("affine_ptr"), VLen) >> \o
                StepPointers(c = chunks - 1)
    IN  MatrixJob(runs,
            MatrixVectors(base) \o Stages("mat", 2, base + 2 * VLen) \o
            Stages("residual", 2, base + 4 * VLen) \o Stages("affine", 2, base + 6 * VLen) \o
            [i \in DOMAIN scalar |-> ScalarAt(S(scalar[i]), base + 8 * VLen + i - 1)],
            << AddressOf(S("matrix_ptr"), MatrixOut, 0), AddressOf(S("residual_ptr"), Residual, 0),
               AddressOf(S("affine_ptr"), Out, 0), Const(S("chunks_done"), chunks) >> \o
            EachOf(chunks, chunk), bindings, memory)
=============================================================================

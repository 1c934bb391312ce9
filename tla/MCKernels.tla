----------------------------- MODULE MCKernels -----------------------------
(* Instance of KernelMachine for TLC: every kernel of the four families,   *)
(* vectors of two lanes, result tiles of four words, words of eight bits.  *)
EXTENDS KernelMachine, KernelPipelines, TileWeaveKernels, MatrixKernels

MCFills == {0, 5}

-----------------------------------------------------------------------------
(* KernelLoops.  Values on both sides of the threshold; the words outside  *)
(* the tensors are there to show that they keep theirs.                    *)
LoopBindings == (In :> 2) @@ (Out :> 24)
LoopMemory   == [a \in 0..40 |-> (7 * a + 3) % 23]

(* The threshold kernel with if_else() in place of the select.             *)
ThresholdBranch(length, threshold) ==
    LET x(i) == LoopMemory[LoopBindings[In] + i]
        ops  == << AddressOf(S("in_ptr"), In, 0), AddressOf(S("out_ptr"), Out, 0),
                   Const(S("zero"), 0) >> \o
                CountedLoop(S("index"), 0, length, 1,
                    << Load(S("value"), S("in_ptr")),
                       Binary("lt", S("below"), S("value"), S("threshold")) >> \o
                    IfElse(S("below"), << Store(S("out_ptr"), S("zero")) >>,
                                       << Store(S("out_ptr"), S("value")) >>, "if") \o
                    << AddImm(S("in_ptr"), S("in_ptr"), 1), AddImm(S("out_ptr"), S("out_ptr"), 1) >>,
                    "clip_loop")
    IN  Bound(<< S("in_ptr"), S("out_ptr"), S("index"), S("value"), S("zero"), S("below") >> \o
                 LoopScalars("clip_loop"),
              << >>, ops, << S("threshold") >>, (S("threshold") :> threshold) @@ LoopBindings,
              LoopMemory, length, LAMBDA i : IF x(i) < threshold THEN 0 ELSE x(i))

(* The fourth nested kernel does not fit in scratch memory.                *)
LoopJobs ==
    LET nested(rows, tiles, base) ==
            NestedThresholdMask(rows, tiles, 10, base, LoopBindings, LoopMemory)
    IN  [length \in 1..3 |-> ThresholdClip(length, 10, LoopBindings, LoopMemory)] \o
        [length \in 1..3 |-> ThresholdBranch(length, 10)] \o
        << CoreIdStore(ThisCore, LoopBindings, LoopMemory) >> \o
        [tiles \in 1..3 |-> VectorThresholdMask(tiles, 10, 26, LoopBindings, LoopMemory)] \o
        << nested(1, 2, 26), nested(3, 2, 26), nested(2, 3, 26), nested(2, 2, ScratchSize - 4),
           BlurPixel(LoopBindings, LoopMemory), BlurRow(LoopBindings, LoopMemory),
           BlurImage(LoopBindings, LoopMemory) >>

-----------------------------------------------------------------------------
(* KernelPipelines: all numbers of tiles and batch lengths up to 5 and 3,  *)
(* tiles close together and apart, and one pipeline that does not fit in   *)
(* scratch memory.                                                         *)
PipeBindings ==
    (In :> 1) @@ (In2 :> 17) @@ (Out :> 33) @@ (Out2 :> 49) @@ (Probe :> 65) @@ (Meta :> 76) @@
    (Gain :> 7) @@ (Bias :> 3)

RunBindings ==
    (LhsTiles :> 1) @@ (RhsTiles :> 9) @@ (Residual :> 17) @@ (MatrixOut :> 33) @@ (Out :> 49) @@
    (Probe :> 65) @@ (Meta :> 76) @@ (Gain :> 7) @@ (Bias :> 3)

PipeMemory == [a \in 0..80 |-> (37 * a + 11) % 97]

Pipe(tiles, unroll, stride, base, pipelined) ==
    [tiles |-> tiles, unroll |-> unroll, stride |-> stride, base |-> base, pipelined |-> pipelined]

Pipes ==
    << Pipe(1, 1, 2, 40, FALSE), Pipe(4, 1, 3, 40, FALSE) >> \o
    FlattenSeq([t \in 1..5 |-> [u \in 1..3 |-> Pipe(t, u, 2 + ((t + u) % 2), 40, TRUE)]]) \o
    << Pipe(4, 3, 2, 90, TRUE) >>

PipeJobs ==
    LET each(kernel(_)) == LET pipes == Pipes IN [i \in DOMAIN pipes |-> kernel(pipes[i])]
        add(x, y) == Word(x + y)
        mul(x, y) == Word(x * y)
    IN  each(LAMBDA p : VectorMapKernel("add", add, p, PipeBindings, PipeMemory)) \o
        each(LAMBDA p : VectorMapKernel("mul", mul, p, PipeBindings, PipeMemory)) \o
        each(LAMBDA p : GainMonitor(p, PipeBindings, PipeMemory)) \o
        each(LAMBDA p : DualOutput(p, PipeBindings, PipeMemory)) \o
        [r \in 1..3 |-> MultiMatrix(r, 40, RunBindings, PipeMemory)] \o
        [r \in 1..3 |-> PipelinedMultiMatrix(r, 40, RunBindings, PipeMemory)]

-----------------------------------------------------------------------------
(* TileWeaveKernels: lengths with and without a tail, blocks of one chunk, *)
(* of two, and with words over, blocks with gaps between them and blocks   *)
(* that overlap, all masks of a block.                                     *)
WeaveBindings ==
    (In :> 1) @@ (Out :> 21) @@ (Out2 :> 41) @@ (Residual :> 61) @@ (Lhs :> 66) @@ (Rhs :> 69) @@
    (Monitor :> 72) @@ (Gain :> 3) @@ (Bias :> 5)

WeaveMemory == [a \in 0..75 |-> (37 * a + 11) % 97]

WeaveJobs ==
    LET gained(p) == GainJob(p, WeaveBindings, WeaveMemory)
        masked(program(_)) == [valid \in 1..4 |-> gained(program(valid))]
    IN  [length \in 1..8 |-> gained(GainProgram(length, 2, 2))] \o
        [length \in 1..6 |-> gained(GainProgram(length, 4, 4))] \o
        << gained(GainProgram(Total(3, 2, 5), 2, 5)), gained(GainProgram(Total(3, 4, 2), 4, 2)),
           gained(GainProgram(7, 5, 5)), gained(GainProgram(7, 3, 3)), gained(GainProgram(9, 4, 3)),
           gained(DualProgram(7, 2, 2)), gained(DualProgram(9, 4, 4)), gained(DualProgram(8, 5, 5)),
           gained(DualProgram(Total(2, 3, 4), 3, 4)),
           gained(ColumnGain(3, 2)), gained(ColumnGain(2, 3)),
           gained(MatrixGain(3, 2)), gained(MatrixGain(2, 3)),
           MatrixResidualAffine(2, 2, WeaveBindings, WeaveMemory) >> \o
        masked(LAMBDA valid : MaskedLoad(4, valid, 9)) \o
        masked(LAMBDA valid : MaskedLoad(5, valid, 9)) \o
        masked(LAMBDA valid : MaskedStore(4, valid)) \o
        masked(LAMBDA valid : MaskedStore(5, valid))

(* A block of two chunks whose value is stored twice.                      *)
SharedJobs == << MatrixResidualAffine(4, 4, WeaveBindings, WeaveMemory) >>

-----------------------------------------------------------------------------
(* MatrixKernels: grids of up to three by three tiles, up to three rows of *)
(* scores.                                                                 *)
GridBindings == (Lhs :> 1) @@ (Rhs :> 21) @@ (Lhs2 :> 41) @@ (Rhs2 :> 61) @@ (Out :> 81) @@ (In :> 1)
GridMemory   == [a \in 0..120 |-> (37 * a + 11) % 251]

GridJobs ==
    [dim \in 1..3 |-> TiledMatMul(dim, GridBindings, GridMemory)] \o
    << Accumulated(GridBindings, GridMemory) >> \o
    [dim \in 1..3 |-> TurboQuantScore(dim, GridBindings, GridMemory)] \o
    [dim \in 1..3 |-> CompactScore(dim, GridBindings, GridMemory)] \o
    [rows \in 1..3 |-> Binarize(rows, 20, GridBindings, GridMemory)]

MCJobs == LoopJobs \o PipeJobs \o WeaveJobs \o GridJobs
=============================================================================

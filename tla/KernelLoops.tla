---------------------------- MODULE KernelLoops ----------------------------
(***************************************************************************)
(* The structured control flow of KernelBuilder and the example kernels    *)
(* that are built from it (tools/dsl/examples: control_flow_kernels,       *)
(* box_blur_3x3, pipelined_vector_add without its pipelines).  Each kernel *)
(* comes with the memory its docstring promises.                           *)
(*                                                                         *)
(* Tensors are bound to main memory one after the other: the first at In,  *)
(* the second at Out.                                                      *)
(***************************************************************************)
EXTENDS KernelIr

S(name) == <<name, 0>>

-----------------------------------------------------------------------------
\* Mutant of IfElse: the else branch runs on into the then branch.
IfElseFallsThrough(cond, thenOps, elseOps, prefix) ==
    << CondJump(cond, prefix \o "_then") >> \o elseOps \o
    << LabelAt(prefix \o "_then") >> \o thenOps \o << LabelAt(prefix \o "_end") >>

(* if_else(): both branches end at the end label.                          *)
IfElse(cond, thenOps, elseOps, prefix) ==
    << CondJump(cond, prefix \o "_then") >> \o elseOps \o
    << Jump(prefix \o "_end"), LabelAt(prefix \o "_then") >> \o thenOps \o
    << LabelAt(prefix \o "_end") >>

StepOf(prefix) == S(prefix \o "_step")
StopOf(prefix) == S(prefix \o "_stop")
CondOf(prefix) == S(prefix \o "_cond")
LoopScalars(prefix) == << StepOf(prefix), StopOf(prefix), CondOf(prefix) >>

\* Mutant of CountedLoop: the label stands before the index is set.
CountedLoopResets(index, start, stop, step, body, prefix) ==
    << LabelAt(prefix \o "_body"), Const(index, start), Const(StepOf(prefix), step),
       Const(StopOf(prefix), stop) >> \o body \o
    << Binary("add", index, index, StepOf(prefix)),
       Binary("lt", CondOf(prefix), index, StopOf(prefix)),
       CondJump(CondOf(prefix), prefix \o "_body") >>

(* counted_loop(): the body runs before the first test.                    *)
CountedLoop(index, start, stop, step, body, prefix) ==
    << Const(index, start), Const(StepOf(prefix), step), Const(StopOf(prefix), stop),
       LabelAt(prefix \o "_body") >> \o body \o
    << Binary("add", index, index, StepOf(prefix)),
       Binary("lt", CondOf(prefix), index, StopOf(prefix)),
       CondJump(CondOf(prefix), prefix \o "_body") >>

(* for_each_tile_1d(): the pointers move on by a tile after the body.      *)
ForEachTile(index, tiles, elements, pointers, body, prefix) ==
    CountedLoop(index, 0, tiles, 1,
        body \o [i \in DOMAIN pointers |-> AddImm(pointers[i], pointers[i], elements)], prefix)

-----------------------------------------------------------------------------
(* The tensors and scalar arguments of the kernels.                        *)
In       == S("in")
In2      == S("in2")
Out      == S("out")
Out2     == S("out2")
Lhs      == S("lhs")
Rhs      == S("rhs")
Residual == S("residual")
Gain     == S("gain")
Bias     == S("bias")

(* The words f(0), f(1), ... from base on, over the rest of memory.        *)
Written(memory, base, n, f(_)) == [a \in base..(base + n - 1) |-> f(a - base)] @@ memory

(* A kernel bound to memory, with what it leaves in n words of Out.        *)
Bound(scalars, vectors, ops, args, bindings, memory, n, f(_)) ==
    [ kernel   |-> Kernel(Scalars(args \o scalars) \o vectors, ops \o << Halt >>),
      args     |-> args,
      bindings |-> bindings,
      dmem     |-> memory,
      means    |-> Written(memory, bindings[Out], n, f) ]

(* build_threshold_clip_kernel: values below the threshold become zero.    *)
ThresholdClip(length, threshold, bindings, memory) ==
    LET x(i) == memory[bindings[In] + i]
        ops  == << AddressOf(S("in_base"), In, 0), AddressOf(S("out_base"), Out, 0),
                   Const(S("zero"), 0) >> \o
                CountedLoop(S("index"), 0, length, 1,
                    << Binary("add", S("in_ptr"), S("in_base"), S("index")),
                       Load(S("value"), S("in_ptr")),
                       Binary("lt", S("below"), S("value"), S("threshold")),
                       Binary("add", S("out_ptr"), S("out_base"), S("index")),
                       Select(S("clipped"), S("below"), S("zero"), S("value")),
                       Store(S("out_ptr"), S("clipped")) >>, "clip_loop")
    IN  Bound(<< S("in_base"), S("out_base"), S("index"), S("in_ptr"), S("out_ptr"), S("value"),
                 S("zero"), S("below"), S("clipped") >> \o LoopScalars("clip_loop"),
              << >>, ops, << S("threshold") >>, (S("threshold") :> threshold) @@ bindings, memory,
              length, LAMBDA i : IF x(i) < threshold THEN 0 ELSE x(i))

(* build_coreid_offset_store_kernel: the core's number at its own place.   *)
CoreIdStore(core, bindings, memory) ==
    LET job == Bound(<< S("out_ptr"), S("core") >>, << >>,
                     << AddressOf(S("out_ptr"), Out, 0), CoreId(S("core")),
                        Binary("add", S("out_ptr"), S("out_ptr"), S("core")),
                        Store(S("out_ptr"), S("core")) >>,
                     << >>, bindings, memory, 0, LAMBDA i : 0)
    IN  [job EXCEPT !.means = ((bindings[Out] + core) :> core) @@ memory]

ThresholdVec == S("threshold_vec")
InputVec     == S("input_vec")
MaskVec      == S("mask_vec")
MaskVectors(base) ==
    << VectorAt(ThresholdVec, base), VectorAt(InputVec, base + VLen),
       VectorAt(MaskVec, base + 2 * VLen) >>

MaskTile(inPtr, outPtr) ==
    << VLoad(InputVec, inPtr), VectorMap("lt", MaskVec, InputVec, ThresholdVec),
       VStore(outPtr, MaskVec) >>

(* build_vector_threshold_mask_kernel: one where below the threshold.      *)
VectorThresholdMask(tiles, threshold, base, bindings, memory) ==
    LET ops == << AddressOf(S("in_ptr"), In, 0), AddressOf(S("out_ptr"), Out, 0),
                  VectorFill(ThresholdVec, S("threshold")) >> \o
               ForEachTile(S("tile"), tiles, VLen, << S("in_ptr"), S("out_ptr") >>,
                           MaskTile(S("in_ptr"), S("out_ptr")), "mask_loop")
    IN  Bound(<< S("in_ptr"), S("out_ptr"), S("tile") >> \o LoopScalars("mask_loop"),
              MaskVectors(base), ops, << S("threshold") >>,
              (S("threshold") :> threshold) @@ bindings, memory, tiles * VLen,
              LAMBDA i : IF memory[bindings[In] + i] < threshold THEN 1 ELSE 0)

(* build_nested_vector_threshold_mask_kernel: the same, row by row.        *)
NestedThresholdMask(rows, rowTiles, threshold, base, bindings, memory) ==
    LET row == << Binary("mul", S("row_offset"), S("row"), S("row_stride")),
                  Binary("add", S("in_ptr"), S("in_base"), S("row_offset")),
                  Binary("add", S("out_ptr"), S("out_base"), S("row_offset")) >> \o
               ForEachTile(S("tile"), rowTiles, VLen, << S("in_ptr"), S("out_ptr") >>,
                           MaskTile(S("in_ptr"), S("out_ptr")), "tiles")
        ops == << AddressOf(S("in_base"), In, 0), AddressOf(S("out_base"), Out, 0),
                  Const(S("row_stride"), rowTiles * VLen),
                  VectorFill(ThresholdVec, S("threshold")) >> \o
               CountedLoop(S("row"), 0, rows, 1, row, "rows")
    IN  Bound(<< S("in_base"), S("out_base"), S("row"), S("row_stride"), S("row_offset"),
                 S("in_ptr"), S("out_ptr"), S("tile") >> \o
                 LoopScalars("tiles") \o LoopScalars("rows"),
              MaskVectors(base), ops, << S("threshold") >>,
              (S("threshold") :> threshold) @@ bindings, memory, rows * rowTiles * VLen,
              LAMBDA i : IF memory[bindings[In] + i] < threshold THEN 1 ELSE 0)

-----------------------------------------------------------------------------
(* The box blur kernels.                                                   *)
Window(width) == FlattenSeq([r \in 1..3 |-> [c \in 1..3 |-> (r - 1) * width + c - 1]])

BlurAt(memory, base, width, corner) ==
    FoldFunction(LAMBDA x, y : x + y, 0,
        [k \in 1..9 |-> memory[base + corner + Window(width)[k]]]) \div 9

(* One pixel of the window from corner on is added to acc.                 *)
AddPixels(width, corner) ==
    EachOf(9, LAMBDA k :
        << Binary("add", S("ptr"), S("in_base"), corner),
           AddImm(S("ptr"), S("ptr"), Window(width)[k + 1]),
           Load(S("value"), S("ptr")), Binary("add", S("acc"), S("acc"), S("value")) >>)

Average == << Binary("div", S("avg"), S("acc"), S("nine")) >>

(* build_box_blur_3x3_kernel: pixels addressed by subtile views.           *)
BlurPixel(bindings, memory) ==
    LET pixel(k) == << AddressOf(S("in_ptr"), In, Window(3)[k + 1]), Load(S("value"), S("in_ptr")),
                       Binary("add", S("acc"), S("acc"), S("value")) >>
        ops == << Const(S("acc"), 0), Const(S("nine"), 9) >> \o EachOf(9, pixel) \o Average \o
               << AddressOf(S("out_ptr"), Out, 0), Store(S("out_ptr"), S("avg")) >>
    IN  Bound(<< S("in_ptr"), S("out_ptr"), S("value"), S("acc"), S("nine"), S("avg") >>, << >>,
              ops, << >>, bindings, memory, 1, LAMBDA i : BlurAt(memory, bindings[In], 3, 0))

(* build_box_blur_3x3_row_kernel: three windows of a 3x5 patch.            *)
BlurRow(bindings, memory) ==
    LET ops == << AddressOf(S("in_base"), In, 0), AddressOf(S("out_base"), Out, 0),
                  Const(S("x"), 0), Const(S("one"), 1), Const(S("limit"), 3), Const(S("nine"), 9),
                  LabelAt("row_loop"), Const(S("acc"), 0) >> \o
               AddPixels(5, S("x")) \o Average \o
               << Binary("add", S("out_ptr"), S("out_base"), S("x")), Store(S("out_ptr"), S("avg")),
                  Binary("add", S("x"), S("x"), S("one")),
                  Binary("lt", S("cond"), S("x"), S("limit")), CondJump(S("cond"), "row_loop") >>
    IN  Bound(<< S("in_base"), S("out_base"), S("ptr"), S("out_ptr"), S("x"), S("one"), S("limit"),
                 S("cond"), S("value"), S("acc"), S("nine"), S("avg") >>, << >>,
              ops, << >>, bindings, memory, 3, LAMBDA i : BlurAt(memory, bindings[In], 5, i))

(* build_box_blur_3x3_image_kernel: the four windows of a 4x4 image.       *)
BlurImage(bindings, memory) ==
    LET next(i, label) == << Binary("add", S(i), S(i), S("one")),
                             Binary("lt", S("cond"), S(i), S("two")), CondJump(S("cond"), label) >>
        ops == << AddressOf(S("in_base"), In, 0), AddressOf(S("out_base"), Out, 0),
                  Const(S("y"), 0), Const(S("one"), 1), Const(S("two"), 2), Const(S("width"), 4),
                  Const(S("nine"), 9), LabelAt("image_row_loop"), Const(S("x"), 0),
                  LabelAt("image_col_loop"), Binary("mul", S("row_base"), S("y"), S("width")),
                  Binary("add", S("window_base"), S("row_base"), S("x")), Const(S("acc"), 0) >> \o
               AddPixels(4, S("window_base")) \o Average \o
               << Binary("mul", S("out_index"), S("y"), S("two")),
                  Binary("add", S("out_index"), S("out_index"), S("x")),
                  Binary("add", S("out_ptr"), S("out_base"), S("out_index")),
                  Store(S("out_ptr"), S("avg")) >> \o
               next("x", "image_col_loop") \o next("y", "image_row_loop")
    IN  Bound(<< S("in_base"), S("out_base"), S("ptr"), S("out_ptr"), S("y"), S("x"), S("one"),
                 S("two"), S("width"), S("cond"), S("value"), S("acc"), S("nine"), S("avg"),
                 S("row_base"), S("window_base"), S("out_index") >>, << >>,
              ops, << >>, bindings, memory, 4,
              LAMBDA i : BlurAt(memory, bindings[In], 4, 4 * (i \div 2) + (i % 2)))
=============================================================================

-------------------------- MODULE TileWeaveKernels --------------------------
(***************************************************************************)
(* The block programs of tools/dsl/examples/tileweave_kernels.py.          *)
(***************************************************************************)
EXTENDS TileWeave

Monitor  == S("monitor")

Program(length, block, stride, count, nodes, stores) ==
    [ length |-> length, block |-> block, stride |-> stride, count |-> count, base |-> 40,
      nodes |-> nodes, stores |-> stores ]

(* The length the kernels take when none is given.                         *)
Total(tiles, block, stride) == (tiles - 1) * stride + block

(* One load times the gain, with the masks and the step of its variants.   *)
GainNodes(loadMask, other, step) ==
    << LoadNode(In, loadMask, other, step), SplatNode(Gain), BinaryNode("mul", 1, 2) >>

GainProgram(length, block, stride) ==
    Program(length, block, stride, None, GainNodes(None, 0, 1), << StoreSpec(Out, None, 1, 3) >>)

DualProgram(length, block, stride) ==
    Program(length, block, stride, None,
            GainNodes(None, 0, 1) \o << SplatNode(Bias), BinaryNode("add", 1, 4) >>,
            << StoreSpec(Out, None, 1, 3), StoreSpec(Out2, None, 1, 5) >>)

MaskedLoad(block, valid, other) ==
    Program(block, block, block, None, GainNodes(valid, other, 1), << StoreSpec(Out, None, 1, 3) >>)

MaskedStore(block, valid) ==
    Program(block, block, block, None, GainNodes(None, 0, 1), << StoreSpec(Out, valid, 1, 3) >>)

(* One column of a matrix in row order, and all of its columns.            *)
ColumnGain(rows, cols) ==
    Program(rows, rows, rows, None, GainNodes(None, 0, cols), << StoreSpec(Out, None, cols, 3) >>)

MatrixGain(rows, cols) ==
    Program(rows, rows, 1, cols, GainNodes(None, 0, cols), << StoreSpec(Out, None, cols, 3) >>)

GainJob(p, bindings, memory) == TileWeaveJob(p, << Gain, Bias >>, bindings, memory)

-----------------------------------------------------------------------------
(* build_tileweave_matrix_residual_affine_kernel: a matrix product into    *)
(* out, its affine form in place, the difference of the two to out2, and a *)
(* scalar monitor of both behind the loops.                                *)
AffineProgram(block, stride) ==
    Program(OutWords, block, stride, None,
            << LoadNode(Out, None, 0, 1), LoadNode(Residual, None, 0, 1), BinaryNode("add", 1, 2),
               SplatNode(Gain), BinaryNode("mul", 3, 4),
               SplatNode(Bias), BinaryNode("add", 5, 6), BinaryNode("sub", 7, 1) >>,
            << StoreSpec(Out2, None, 1, 8), StoreSpec(Out, None, 1, 7) >>)

AffineMonitor ==
    << AddressOf(S("affine_monitor_ptr"), Out, 0),
       AddressOf(S("diff_monitor_ptr"), Out2, OutWords - 1),
       AddressOf(S("monitor_ptr"), Monitor, 0),
       Load(S("first_affine"), S("affine_monitor_ptr")),
       Load(S("last_diff"), S("diff_monitor_ptr")),
       Binary("add", S("summary"), S("first_affine"), S("last_diff")),
       Store(S("monitor_ptr"), S("summary")) >>

MatrixResidualAffine(block, stride, bindings, memory) ==
    LET p   == AffineProgram(block, stride)
        ops == TileWeaveOps(p, << MatMul(Tile(Lhs, 0), Tile(Rhs, 0), Tile(Out, 0), FALSE) >>,
                            AffineMonitor)
        tile(tensor) == [j \in 0..(InWords - 1) |-> memory[bindings[tensor] + j]]
        mat       == Product(tile(Lhs), tile(Rhs))
        affine(i) == Word((mat[i] + memory[bindings[Residual] + i]) * bindings[Gain] + bindings[Bias])
        diff(i)   == Word(affine(i) - mat[i])
    IN  [ kernel   |-> Kernel(TileWeaveBuffers(p, << Gain, Bias >>, ops), ops),
          args     |-> << Gain, Bias >>,
          bindings |-> bindings,
          dmem     |-> memory,
          means    |-> (bindings[Monitor] :> Word(affine(0) + diff(OutWords - 1))) @@
                       Written(Written(memory, bindings[Out], OutWords, affine),
                               bindings[Out2], OutWords, diff) ]
=============================================================================

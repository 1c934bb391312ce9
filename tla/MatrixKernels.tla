--------------------------- MODULE MatrixKernels ---------------------------
(***************************************************************************)
(* The kernels of tools/dsl/examples/matrix_kernels.py: matrix products    *)
(* tile by tile, summed in the accumulators of the matrix engine, and the  *)
(* kernel that packs the signs of the scores.  A grid of tiles is stored   *)
(* tile after tile in row order; dim is the number of tiles in a row.      *)
(***************************************************************************)
EXTENDS KernelLoops

Lhs2 == S("lhs2")
Rhs2 == S("rhs2")

(* Tile (row, col) of a grid of dim columns.                               *)
InTile(tensor, dim, row, col)  == Tile(tensor, (row * dim + col) * InWords)
OutTile(tensor, dim, row, col) == Tile(tensor, (row * dim + col) * OutWords)

\* Mutant of Keeps: the first product of a tile is added to the tile before.
KeepsAlways(k) == TRUE

(* accumulate=tile_k > 0: the first product of a tile starts it afresh.    *)
Keeps(k) == k > 0

(* The products for one tile of the result, then what is added to it.      *)
TileOps(dim, row, col, rest) ==
    EachOf(dim, LAMBDA k : << MatMul(InTile(Lhs, dim, row, k), InTile(Rhs, dim, k, col),
                                     OutTile(Out, dim, row, col), Keeps(k)) >>) \o rest

GridOps(dim, rest(_, _)) ==
    EachOf(dim, LAMBDA row : EachOf(dim, LAMBDA col : TileOps(dim, row, col, rest(row, col))))

(* Sum of products of tiles, each given by the words of both.              *)
SumOf(products) ==
    [i \in 0..(OutWords - 1) |->
        Word(FoldFunction(LAMBDA x, y : x + y, 0, [k \in DOMAIN products |-> products[k][i]]))]

ProductOf(memory, bindings, lhs, rhs) ==
    LET words(tile) == [j \in 0..(InWords - 1) |-> memory[bindings[tile.tensor] + tile.words + j]]
    IN  Product(words(lhs), words(rhs))

(* A grid kernel: tile (row, col) of the result is the sum of the products *)
(* of row of the left grid with column of the right one, and of extra ones *)
(* (pairs of tiles).                                                       *)
GridJob(dim, extra(_, _), bindings, memory) ==
    LET rest(row, col) == [i \in DOMAIN extra(row, col) |->
                              MatMul(extra(row, col)[i][1], extra(row, col)[i][2],
                                     OutTile(Out, dim, row, col), TRUE)]
        pairs(row, col) == [k \in 1..dim |-> << InTile(Lhs, dim, row, k - 1),
                                                InTile(Rhs, dim, k - 1, col) >>]
                           \o extra(row, col)
        sum(row, col) == SumOf([i \in DOMAIN pairs(row, col) |->
                                  ProductOf(memory, bindings, pairs(row, col)[i][1],
                                            pairs(row, col)[i][2])])
        word(i) == LET t == i \div OutWords
                   IN  sum(t \div dim, t % dim)[i % OutWords]
    IN  Bound(<< >>, << >>, GridOps(dim, rest), << >>, bindings, memory,
              dim * dim * OutWords, word)

(* build_matrix_matmul_32x32_tiled_kernel, with a grid of one tile         *)
(* build_matrix_matmul_kernel.                                             *)
TiledMatMul(dim, bindings, memory) == GridJob(dim, LAMBDA row, col : << >>, bindings, memory)

(* build_matrix_matmul_accumulate_kernel: a second pair of tiles.          *)
Accumulated(bindings, memory) ==
    GridJob(1, LAMBDA row, col : << << Tile(Lhs2, 0), Tile(Rhs2, 0) >> >>, bindings, memory)

(* build_turboquant_score_32x32_kernel: the residual grids on top of the   *)
(* coarse ones.                                                            *)
TurboQuantScore(dim, bindings, memory) ==
    GridJob(dim, LAMBDA row, col : [k \in 1..dim |-> << InTile(Lhs2, dim, row, k - 1),
                                                        InTile(Rhs2, dim, k - 1, col) >>],
            bindings, memory)

(* build_turboquant_score_32x32_compact_kernel: one column of residual     *)
(* tiles on the left, one row on the right.                                *)
CompactScore(dim, bindings, memory) ==
    GridJob(dim, LAMBDA row, col : << << InTile(Lhs2, 1, row, 0), InTile(Rhs2, dim, 0, col) >> >>,
            bindings, memory)

-----------------------------------------------------------------------------
(* build_turboquant_binarize_32x32_kernel: a row has as many scores as a   *)
(* word has bits; bit c of the result is set when score c is not negative. *)
Groups == WordBits \div VLen

ShiftVec == S("shift31_vec")
OnesVec  == S("ones_vec")
VIn      == S("v_in")
VShifted == S("v_shifted")
VBits(g) == << "v_bits", g >>

SignGroup(g) ==
    ( IF g = 0 THEN << VLoad(VIn, S("score_row_ptr")) >>
      ELSE << AddImm(S("group_ptr"), S("score_row_ptr"), g * VLen), VLoad(VIn, S("group_ptr")) >> ) \o
    << VectorMap("shr", VShifted, VIn, ShiftVec), VectorMap("xor", VBits(g), VShifted, OnesVec) >>

PackBit(k) ==
    LET bit == WordBits - 1 - k
    IN  << Binary("shl", S("packed"), S("packed"), S("one")),
           Binary("or", S("packed"), S("packed"), Lane(VBits(bit \div VLen), bit % VLen)) >>

Binarize(rows, base, bindings, memory) ==
    LET body == EachOf(Groups, SignGroup) \o << Const(S("packed"), 0) >> \o
                EachOf(WordBits, PackBit) \o
                << Store(S("out_ptr"), S("packed")),
                   AddImm(S("score_row_ptr"), S("score_row_ptr"), WordBits),
                   AddImm(S("out_ptr"), S("out_ptr"), 1) >>
        ops == << Const(S("shift_amount"), WordBits - 1), Const(S("one"), 1),
                  VectorFill(ShiftVec, S("shift_amount")), VectorFill(OnesVec, S("one")),
                  AddressOf(S("score_row_ptr"), In, 0), AddressOf(S("out_ptr"), Out, 0) >> \o
               CountedLoop(S("row_index"), 0, rows, 1, body, "binarize_rows")
        job == Bound(<< S("shift_amount"), S("one"), S("packed"), S("score_row_ptr"), S("out_ptr"),
                        S("group_ptr"), S("row_index") >>,
                     << VectorAt(ShiftVec, base), VectorAt(OnesVec, base + VLen),
                        VectorAt(VIn, base + 2 * VLen), VectorAt(VShifted, base + 3 * VLen) >> \o
                     [g \in 1..Groups |-> VectorAt(VBits(g - 1), base + (3 + g) * VLen)] \o
                     Scalars(LoopScalars("binarize_rows")),
                     ops, << >>, bindings, memory, rows,
                     LAMBDA row : FoldFunction(LAMBDA x, y : x + y, 0,
                         [c \in 0..(WordBits - 1) |->
                             IF memory[bindings[In] + row * WordBits + c] < WordSize \div 2
                             THEN 2^c ELSE 0]))
    IN  job
=============================================================================

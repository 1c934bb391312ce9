----------------------------- MODULE MCOperands -----------------------------
(* Bundles for OperandPath: two banks of two registers, vectors of two.     *)
EXTENDS OperandPath

B(op, reads, dest) == [op |-> op, reads |-> reads, dest |-> dest]

\* Two readers of a bank, chains through each register, vectors over results
\* of scalars and the reverse, a load with its barrier
\* and a copy.
MCCode == {
  B("alu",    <<0, 2>>, 0),
  B("alu",    <<2, 0>>, 1),
  B("const",  << >>,    2),
  B("flow",   <<1>>,    3),
  B("valu",   <<0, 2>>, 2),
  B("vstore", <<1, 2>>, 0),
  B("load",   <<0>>,    3),
  B("wait",   << >>,    3),
  B("copy",   <<1>>,    0)}
=============================================================================

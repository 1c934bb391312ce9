------------------------------ MODULE MCCodec ------------------------------
(***************************************************************************)
(* An instance of BundleCodec for TLC: a configuration with two slots of   *)
(* two engines, and operations at the ends of every field.                 *)
(***************************************************************************)
EXTENDS BundleCodec

Wide == [alu |-> 2, valu |-> 1, load |-> 2, store |-> 1, matrix |-> 1, flow |-> 1]

(* Registers of a 1536-word scratch memory.                                *)
TopReg == 1535

Op(name, params) == [name |-> name, params |-> params]

Alu(name, d, a, b) == Op(name, [dest |-> d, src1 |-> a, src2 |-> b])
Lanes(name, d, a, b, ew, dw, s) ==
    Op(name, [dest |-> d, src1 |-> a, src2 |-> b, ewidth |-> ew, dwidth |-> dw, signed |-> s])
Mac(ew, dw, s) ==
    Op("multiply_add", [dest |-> TopReg, src1 |-> 8, src2 |-> 1024, src3 |-> 1023,
                        ewidth |-> ew, dwidth |-> dw, signed |-> s])
Cast(ew, dw, s, up) ==
    Op("vcast", [dest |-> 16, src1 |-> TopReg, ewidth |-> ew, dwidth |-> dw,
                 signed |-> s, upper |-> up])
Broadcast(ew) == Op("vbroadcast", [dest |-> 8, src1 |-> TopReg, ewidth |-> ew])
Load(name, d, a, off) == Op(name, [dest |-> d, addrReg |-> a, offset |-> off])

AluMenu == {Alu("sub", TopReg, 0, 1024), Alu("f2u", 0, TopReg, 1023)}
ValuMenu ==
    {Lanes("mul", 0, 8, TopReg, 32, 32, 0), Lanes("mul", 8, 0, 16, 16, 32, 1),
     Lanes("mul", 8, 0, 16, 8, 8, 1), Lanes("lt", 8, 1528, 16, 16, 16, 1),
     Lanes("add", 8, 1528, 16, 4, 4, 0), Lanes("shr", 8, 1528, 16, 32, 32, 1),
     Mac(32, 32, 0), Mac(8, 32, 1), Mac(16, 16, 1), Mac(16, 32, 0), Broadcast(8),
     Broadcast(32), Cast(8, 32, 0, 1), Cast(32, 8, 1, 0), Cast(16, 64, 1, 1)}
LoadMenu ==
    {Load("load_offset", TopReg, 0, 7), Load("scopy_m2v", 8, TopReg, 3),
     Op("vload", [dest |-> 8, addrReg |-> 1024]),
     Op("const", [dest |-> TopReg, immediate |-> 2147483647]),
     Op("const", [dest |-> 0, immediate |-> -1]),
     Op("wait_for_load", [dest |-> TopReg])}
StoreMenu == {Op("store", [addrReg |-> TopReg, srcReg |-> 0]),
              Op("vstore", [addrReg |-> 0, srcReg |-> 1528])}
FlowMenu ==
    {Op("select", [dest |-> TopReg, operandA |-> 0, operandB |-> 1024, immediate |-> 1023]),
     Op("cond_jump_rel", [operandA |-> 1, immediate |-> -3]),
     Op("add_imm", [dest |-> 0, operandA |-> TopReg, immediate |-> 511]),
     Op("cond_jump", [operandA |-> TopReg, immediate |-> 1023]),
     Op("jump", [immediate |-> 512]),
     Op("halt", <<>>)}
MatrixMenu ==
    {Op("mdmvin", [dest |-> 64, srcA |-> 2047, flags |-> 3]),
     Op("mcompute_acc", [dest |-> 1, srcA |-> 8, srcB |-> 1024]),
     Op("mcompute_fp8_e5m2_acc", [dest |-> 2047, srcA |-> 8, srcB |-> 16, srcC |-> TopReg]),
     Op("mzero", [dest |-> 2047])}

All == [alu |-> AluMenu, valu |-> ValuMenu, load |-> LoadMenu, store |-> StoreMenu,
        matrix |-> MatrixMenu, flow |-> FlowMenu]
=============================================================================

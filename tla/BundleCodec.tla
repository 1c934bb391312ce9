---------------------------- MODULE BundleCodec ----------------------------
(***************************************************************************)
(* The way of an operation from the scheduler to the engines: _op_to_tuple *)
(* of the scheduler, the slot encoders of tools/assembler.py, the bundle   *)
(* that concatenates the slots, the 32-bit words it is stored as, and the  *)
(* DecodeUnit that cuts it up again.  The two sides keep separate tables   *)
(* of the same layout.  A bit pattern is the set of its one bits, so that  *)
(* OR is union and a shift moves the elements.                             *)
(***************************************************************************)
EXTENDS Integers, Sequences

CONSTANTS
    Count,      \* slots per engine in the configuration
    Menu,       \* engine -> operations a bundle may hold
    MaxOps      \* bound: operations in a bundle

Engines == {"alu", "valu", "load", "store", "matrix", "flow"}

-----------------------------------------------------------------------------
(* Bit k of an integer in two's complement; TLC's integers have 32 bits.   *)
BitOf(v, k) == IF k > 30 THEN v < 0 ELSE (v \div 2^k) % 2 = 1

(* _pack_bits: the low bits of a value.                                    *)
PackBits(v, width) == {k \in 0..(width - 1) : BitOf(v, k)}
Shift(bits, n) == {k + n : k \in bits}
Field(bits, lo, width) == {k \in 0..(width - 1) : k + lo \in bits}

-----------------------------------------------------------------------------
(* Assembler side.                                                         *)
ValuExtraOpcodes == [vbroadcast |-> 15, multiply_add |-> 16, vcast |-> 17]
AssemblerOpcodes ==
    [ alu |-> [add |-> 0, sub |-> 1, mul |-> 2, xor |-> 3, and |-> 4, or |-> 5, shl |-> 6,
               shr |-> 7, lt |-> 8, eq |-> 9, mod |-> 10, div |-> 11, cdiv |-> 12,
               max |-> 13, min |-> 14, fadd |-> 18, fsub |-> 19, fmul |-> 20, fmax |-> 21,
               fmin |-> 22, i2f |-> 23, f2i |-> 24, u2f |-> 25, f2u |-> 26],
      load |-> [load |-> 1, load_offset |-> 2, vload |-> 3, const |-> 4, wait_for_load |-> 5,
                scopy_m2v |-> 6, scopy_v2m |-> 7, scopy_v2s |-> 8, scopy_s2v |-> 9],
      store |-> [store |-> 1, vstore |-> 2],
      flow |-> [select |-> 1, vselect |-> 2, add_imm |-> 3, halt |-> 4, cond_jump |-> 5,
                cond_jump_rel |-> 6, jump |-> 7, jump_indirect |-> 8, coreid |-> 9],
      matrix |-> [mcfg |-> 1, mmload |-> 2, mmstore |-> 3, mdmvin |-> 4, mdmvout |-> 5,
                  mpreload |-> 6, mcompute |-> 7, mcompute_acc |-> 8, mzero |-> 9,
                  mcompute_fp8_e4m3 |-> 10, mcompute_fp8_e4m3_acc |-> 11,
                  mcompute_fp8_e5m2 |-> 12, mcompute_fp8_e5m2_acc |-> 13] ]

(* _op_to_tuple: the parameters of an operation in the assembler's order.  *)
(* What a vector operation leaves at its default is left out of the tuple, *)
(* and the tuple's length tells the assembler which parameters it has.     *)
Par(op, key, default) == IF key \in DOMAIN op.params THEN op.params[key] ELSE default

ToValuTuple(op) ==
    LET ew   == Par(op, "ewidth", 32)
        dw   == Par(op, "dwidth", IF op.name = "vcast" THEN 32 ELSE ew)
        sgn  == Par(op, "signed", 0)
        head == <<op.name, op.params.dest, op.params.src1>>
        tail == CASE dw # ew -> <<ew, dw, sgn>>
                  [] dw = ew /\ sgn = 1 -> <<ew, sgn>>
                  [] dw = ew /\ sgn = 0 /\ ew # 32 -> <<ew>>
                  [] OTHER -> <<>>
    IN  CASE op.name = "vbroadcast" -> head \o (IF ew # 32 THEN <<ew>> ELSE <<>>)
          [] op.name = "vcast" ->
               head \o <<ew, dw>> \o
               (IF Par(op, "upper", 0) = 1 THEN <<sgn, 1>> ELSE IF sgn = 1 THEN <<1>> ELSE <<>>)
          [] op.name = "multiply_add" ->
               head \o <<op.params.src2, op.params.src3>> \o
               (IF dw = ew /\ sgn = 1 THEN <<ew, ew, sgn>> ELSE tail)
          [] OTHER -> head \o <<op.params.src2>> \o tail

LoadFields(name) ==
    CASE name = "const" -> <<"dest", "immediate">>
      [] name \in {"load", "vload"} -> <<"dest", "addrReg">>
      [] name = "wait_for_load" -> <<"dest">>
      [] name \in {"load_offset", "scopy_m2v", "scopy_v2m", "scopy_v2s", "scopy_s2v"} ->
           <<"dest", "addrReg", "offset">>
FlowFields(name) ==
    CASE name \in {"select", "vselect"} -> <<"dest", "operandA", "operandB", "immediate">>
      [] name = "add_imm" -> <<"dest", "operandA", "immediate">>
      [] name \in {"cond_jump", "cond_jump_rel"} -> <<"operandA", "immediate">>
      [] name = "jump" -> <<"immediate">>
      [] name = "jump_indirect" -> <<"operandA">>
      [] name = "coreid" -> <<"dest">>
      [] name = "halt" -> <<>>
TupleFields(engine, name) ==
    CASE engine = "alu" -> <<"dest", "src1", "src2">>
      [] engine = "load" -> LoadFields(name)
      [] engine = "store" -> <<"addrReg", "srcReg">>
      [] engine = "flow" -> FlowFields(name)
      [] engine = "matrix" ->
           <<"dest", "srcA", "srcB", "srcC", "tileRows", "tileCols", "flags">>

ToTuple(engine, op) ==
    IF engine = "valu" THEN ToValuTuple(op)
    ELSE LET fields == TupleFields(engine, op.name)
         IN  <<op.name>> \o [k \in DOMAIN fields |->
                Par(op, fields[k], IF fields[k] \in {"tileRows", "tileCols"} THEN 8 ELSE 0)]

-----------------------------------------------------------------------------
(* EWIDTH_MAP, and what _ew makes of a value that may be a width or a code. *)
WidthCode ==
    [v \in {4, 8, 16, 32, 64} |->
        CASE v = 32 -> 0 [] v = 8 -> 1 [] v = 16 -> 2 [] v = 4 -> 3 [] v = 64 -> 4]
Ew(v) == IF v \in DOMAIN WidthCode THEN WidthCode[v] ELSE v

SlotWidth == [alu |-> 41, valu |-> 57, load |-> 49, store |-> 29, matrix |-> 65, flow |-> 49]

(* The fields an encoder packs: <<value, width, position>>.                *)
Pack(fields) ==
    UNION {Shift(PackBits(fields[k][1], fields[k][2]), fields[k][3]) : k \in DOMAIN fields}

EncodeAlu(t) ==
    Pack(<< <<1, 1, 40>>, <<AssemblerOpcodes.alu[t[1]], 5, 35>>, <<t[2], 11, 24>>,
            <<t[3], 11, 13>>, <<t[4], 11, 2>> >>)

EncodeValuSlot(name, d, a, b, c, ew, dw, sgn) ==
    LET opcode == IF name \in DOMAIN ValuExtraOpcodes THEN ValuExtraOpcodes[name]
                                                       ELSE AssemblerOpcodes.alu[name]
    IN  Pack(<< <<1, 1, 56>>, <<opcode, 5, 51>>, <<d, 11, 40>>, <<a, 11, 29>>,
                <<b, 11, 18>>, <<c, 11, 7>>, <<ew, 3, 4>>, <<dw, 3, 1>>, <<sgn, 1, 0>> >>)

(* The tuples of a vector operation have optional tails; the sixth element *)
(* of a lane-wise one is the signed flag unless it can only be a width.    *)
Nth(t, k, default) == IF Len(t) >= k THEN t[k] ELSE default

(* WideningAlways is the mistake of taking every sixth element for a width. *)
WideningAlways(t) == Len(t) > 6 \/ (Len(t) = 6 /\ t[1] = "mul")
Widening(t) == Len(t) > 6 \/ (Len(t) = 6 /\ t[1] = "mul" /\ t[6] \notin {0, 1})

EncodeValu(t) ==
    CASE t[1] = "vbroadcast" ->
           LET ew == Ew(Nth(t, 4, 32))
           IN  EncodeValuSlot(t[1], t[2], t[3], 0, t[3], ew, ew, 0)
      [] t[1] = "multiply_add" ->
           LET ew == Ew(Nth(t, 6, 32))
           IN  EncodeValuSlot(t[1], t[2], t[3], t[4], t[5], ew,
                              IF Len(t) >= 7 THEN Ew(t[7]) ELSE ew, Nth(t, 8, 0))
      [] t[1] = "vcast" ->
           EncodeValuSlot(t[1], t[2], t[3], Nth(t, 7, 0), 0,
                          Ew(Nth(t, 4, 32)), Ew(Nth(t, 5, 32)), Nth(t, 6, 0))
      [] OTHER ->
           LET ew == Ew(Nth(t, 5, 32))
           IN  EncodeValuSlot(t[1], t[2], t[3], t[4], 0, ew,
                   IF Widening(t) THEN Ew(t[6]) ELSE ew,
                   IF Widening(t) THEN Nth(t, 7, 0) ELSE Nth(t, 6, 0))

EncodeLoadSlot(name, d, a, off) ==
    Pack(<< <<1, 1, 48>>, <<AssemblerOpcodes.load[name], 4, 44>>, <<d, 11, 33>>,
            <<a, 11, 22>>, <<off, 3, 19>> >>)

EncodeLoad(t) ==
    CASE t[1] = "const" ->
           Pack(<< <<1, 1, 48>>, <<AssemblerOpcodes.load[t[1]], 4, 44>>, <<t[2], 11, 33>>,
                   <<t[3], 32, 0>> >>)
      [] t[1] = "wait_for_load" -> EncodeLoadSlot(t[1], t[2], 0, 0)
      [] OTHER -> EncodeLoadSlot(t[1], t[2], t[3], Nth(t, 4, 0))

EncodeStore(t) ==
    Pack(<< <<1, 1, 28>>, <<AssemblerOpcodes.store[t[1]], 3, 25>>, <<t[2], 11, 14>>, <<t[3], 11, 3>> >>)

EncodeFlowSlot(name, d, a, b, imm) ==
    Pack(<< <<1, 1, 48>>, <<AssemblerOpcodes.flow[name], 5, 43>>, <<d, 11, 32>>, <<a, 11, 21>>,
            <<b, 11, 10>>, <<imm, 10, 0>> >>)

EncodeFlow(t) ==
    CASE t[1] \in {"select", "vselect"} -> EncodeFlowSlot(t[1], t[2], t[3], t[4], t[5])
      [] t[1] = "add_imm" -> EncodeFlowSlot(t[1], t[2], t[3], 0, t[4])
      [] t[1] \in {"cond_jump", "cond_jump_rel"} -> EncodeFlowSlot(t[1], 0, t[2], 0, t[3])
      [] t[1] = "jump" -> EncodeFlowSlot(t[1], 0, 0, 0, t[2])
      [] t[1] = "jump_indirect" -> EncodeFlowSlot(t[1], 0, t[2], 0, 0)
      [] t[1] = "coreid" -> EncodeFlowSlot(t[1], t[2], 0, 0, 0)
      [] t[1] = "halt" -> EncodeFlowSlot(t[1], 0, 0, 0, 0)

EncodeMatrix(t) ==
    Pack(<< <<1, 1, 64>>, <<AssemblerOpcodes.matrix[t[1]], 5, 59>>, <<Nth(t, 2, 0), 11, 48>>,
            <<Nth(t, 3, 0), 11, 37>>, <<Nth(t, 4, 0), 11, 26>>, <<Nth(t, 5, 0), 11, 15>>,
            <<Nth(t, 6, 8), 4, 11>>, <<Nth(t, 7, 8), 4, 7>>, <<Nth(t, 8, 0), 6, 1>> >>)

Encode(engine, t) ==
    CASE engine = "alu" -> EncodeAlu(t)
      [] engine = "valu" -> EncodeValu(t)
      [] engine = "load" -> EncodeLoad(t)
      [] engine = "store" -> EncodeStore(t)
      [] engine = "flow" -> EncodeFlow(t)
      [] engine = "matrix" -> EncodeMatrix(t)

(* Where the slots of an engine start: behind those of the engines before. *)
Behind(w) ==
    LET valu == w.alu IN LET load == valu + w.valu IN LET store == load + w.load
    IN  LET matrix == store + w.store IN LET flow == matrix + w.matrix
    IN  [alu |-> 0, valu |-> valu, load |-> load, store |-> store, matrix |-> matrix,
         flow |-> flow, end |-> flow + w.flow]
Taken == [e \in Engines |-> Count[e] * SlotWidth[e]]
RawWidth == Behind(Taken).end
BundleWidth == ((RawWidth + 63) \div 64) * 64

StartOneEach(engine, i) ==       \* mistake: the slots of the engines before count once
    Behind(SlotWidth)[engine] + (i - 1) * SlotWidth[engine]
Start(engine, i) == Behind(Taken)[engine] + (i - 1) * SlotWidth[engine]

(* assemble: instr is engine -> operations; the slots left over are zero,  *)
(* and an instruction with more operations than slots is refused.          *)
Refused(instruction) == \E e \in Engines : Len(instruction[e]) > Count[e]
Assemble(instruction) ==
    (UNION {UNION {Shift(Encode(e, instruction[e][i]), Start(e, i)) : i \in DOMAIN instruction[e]}
              : e \in Engines}) \cap 0..(BundleWidth - 1)

(* to_word_list, and the words joined again in the instruction memory.     *)
Words(bundle) == [w \in 0..(BundleWidth \div 32 - 1) |-> Field(bundle, 32 * w, 32)]
Join(words) == UNION {Shift(words[w], 32 * w) : w \in DOMAIN words}

-----------------------------------------------------------------------------
(* Decoder side: DecodeUnit.scala.  <<low bit, width>> of every field.     *)
Layout ==
    [ alu |-> [valid |-> <<40, 1>>, opcode |-> <<35, 5>>, dest |-> <<24, 11>>,
               src1 |-> <<13, 11>>, src2 |-> <<2, 11>>],
      valu |-> [valid |-> <<56, 1>>, opcode |-> <<51, 5>>, dest |-> <<40, 11>>,
                src1 |-> <<29, 11>>, src2 |-> <<18, 11>>, src3 |-> <<7, 11>>,
                ewidth |-> <<4, 3>>, dwidth |-> <<1, 3>>, signed |-> <<0, 1>>],
      load |-> [valid |-> <<48, 1>>, opcode |-> <<44, 4>>, dest |-> <<33, 11>>,
                addrReg |-> <<22, 11>>, offset |-> <<19, 3>>, immediate |-> <<0, 32>>],
      store |-> [valid |-> <<28, 1>>, opcode |-> <<25, 3>>, addrReg |-> <<14, 11>>,
                 srcReg |-> <<3, 11>>],
      matrix |-> [valid |-> <<64, 1>>, opcode |-> <<59, 5>>, dest |-> <<48, 11>>,
                  srcA |-> <<37, 11>>, srcB |-> <<26, 11>>, srcC |-> <<15, 11>>,
                  tileRows |-> <<11, 4>>, tileCols |-> <<7, 4>>, flags |-> <<1, 6>>],
      flow |-> [valid |-> <<48, 1>>, opcode |-> <<43, 5>>, dest |-> <<32, 11>>,
                operandA |-> <<21, 11>>, operandB |-> <<10, 11>>, immediate |-> <<0, 10>>] ]

(* VliwSocConfig.scala: the widths of the slots, of registers of 11 bits   *)
(* and bundle addresses of 10.                                             *)
HardwareSlotWidth ==
    [alu |-> 1 + 5 + 3 * 11 + 2, valu |-> 1 + 5 + 4 * 11 + 3 + 3 + 1,
     load |-> 1 + 4 + 2 * 11 + 3 + 19, store |-> 1 + 3 + 2 * 11 + 3,
     matrix |-> 1 + 5 + 4 * 11 + 4 + 4 + 6 + 1, flow |-> 1 + 5 + 3 * 11 + 10]

(* SlotBundles.scala: the engines' opcodes and their element widths.       *)
ElemWidth ==
    [v \in {4, 8, 16, 32, 64} |->
        CASE v = 4 -> 3 [] v = 8 -> 1 [] v = 16 -> 2 [] v = 32 -> 0 [] v = 64 -> 4]
LaneOpcodes ==
    [add |-> 0, sub |-> 1, mul |-> 2, xor |-> 3, and |-> 4, or |-> 5, shl |-> 6, shr |-> 7,
     lt |-> 8, eq |-> 9, mod |-> 10, div |-> 11, cdiv |-> 12, max |-> 13, min |-> 14,
     vbroadcast |-> 15, multiply_add |-> 16, vcast |-> 17, fadd |-> 18, fsub |-> 19,
     fmul |-> 20, fmax |-> 21, fmin |-> 22, i2f |-> 23, f2i |-> 24, u2f |-> 25, f2u |-> 26]
HardwareOpcodes ==
    [ alu |-> LaneOpcodes, valu |-> LaneOpcodes,
      load |-> [load |-> 1, load_offset |-> 2, vload |-> 3, const |-> 4, wait_for_load |-> 5,
                scopy_m2v |-> 6, scopy_v2m |-> 7, scopy_v2s |-> 8, scopy_s2v |-> 9],
      store |-> [store |-> 1, vstore |-> 2],
      matrix |-> [mcfg |-> 1, mmload |-> 2, mmstore |-> 3, mdmvin |-> 4, mdmvout |-> 5,
                  mpreload |-> 6, mcompute |-> 7, mcompute_acc |-> 8, mzero |-> 9,
                  mcompute_fp8_e4m3 |-> 10, mcompute_fp8_e4m3_acc |-> 11,
                  mcompute_fp8_e5m2 |-> 12, mcompute_fp8_e5m2_acc |-> 13],
      flow |-> [select |-> 1, vselect |-> 2, add_imm |-> 3, halt |-> 4, cond_jump |-> 5,
                cond_jump_rel |-> 6, jump |-> 7, jump_indirect |-> 8, coreid |-> 9] ]

(* The decoder walks the slots: bitOffset at slot i of an engine.          *)
BitOffset(e, i) ==
    LET alu == Count.alu * HardwareSlotWidth.alu
        valu == Count.valu * HardwareSlotWidth.valu
        load == Count.load * HardwareSlotWidth.load
        store == Count.store * HardwareSlotWidth.store
        matrix == Count.matrix * HardwareSlotWidth.matrix
    IN  (i - 1) * HardwareSlotWidth[e] +
        CASE e = "alu" -> 0
          [] e = "valu" -> alu
          [] e = "load" -> alu + valu
          [] e = "store" -> alu + valu + load
          [] e = "matrix" -> alu + valu + load + store
          [] e = "flow" -> alu + valu + load + store + matrix

Decoded(bundle, e, i, f) ==
    Field(bundle, BitOffset(e, i) + Layout[e][f][1], Layout[e][f][2])

-----------------------------------------------------------------------------
(* What the scheduler's constructors make: the parameters of an operation, *)
(* named after the fields they are for, and the values that have a place   *)
(* there; the constructors take any number and the assembler masks it.  A  *)
(* select's third operand goes into the ten bits of the immediate.  A      *)
(* parameter with a default may be left out.                               *)
Required(e, name) ==
    CASE e = "alu" -> {"dest", "src1", "src2"}
      [] e = "valu" -> {"dest", "src1"} \cup
                       (IF name \in {"vbroadcast", "vcast"} THEN {} ELSE {"src2"}) \cup
                       (IF name = "multiply_add" THEN {"src3"} ELSE {})
      [] e = "load" -> {"dest"} \cup
                       (IF name = "const" THEN {"immediate"}
                        ELSE IF name = "wait_for_load" THEN {}
                        ELSE IF name \in {"load", "vload"} THEN {"addrReg"}
                        ELSE {"addrReg", "offset"})
      [] e = "store" -> {"addrReg", "srcReg"}
      [] e = "flow" -> (IF name \in {"select", "vselect", "add_imm", "coreid"}
                        THEN {"dest"} ELSE {}) \cup
                       (IF name \in {"halt", "jump", "coreid"} THEN {} ELSE {"operandA"}) \cup
                       (IF name \in {"select", "vselect"} THEN {"operandB"} ELSE {}) \cup
                       (IF name \in {"halt", "jump_indirect", "coreid"} THEN {} ELSE {"immediate"})
      [] e = "matrix" -> {}
Optional(e, name) ==
    CASE e = "valu" -> {"ewidth"} \cup
                       (IF name = "vbroadcast" THEN {} ELSE {"dwidth", "signed"}) \cup
                       (IF name = "vcast" THEN {"upper"} ELSE {})
      [] e = "matrix" -> {"dest", "srcA", "srcB", "srcC", "tileRows", "tileCols", "flags"}
      [] OTHER -> {}

Word == (-2147483647 - 1)..2147483647
Relative == -512..1023      \* ten bits, of an offset or of an address
Values(name, key) ==
    CASE key \in {"ewidth", "dwidth"} -> {4, 8, 16, 32, 64}
      [] key \in {"signed", "upper"} -> {0, 1}
      [] key = "offset" -> 0..7
      [] key \in {"tileRows", "tileCols"} -> 0..15
      [] key = "flags" -> 0..63
      [] key = "immediate" /\ name = "const" -> Word
      [] key = "immediate" /\ name \in {"add_imm", "cond_jump_rel"} -> Relative
      [] key = "immediate" /\ name \notin {"const", "add_imm", "cond_jump_rel"} -> 0..1023
      [] OTHER -> 0..2047

Buildable(e, op) ==
    /\ op.name \in DOMAIN HardwareOpcodes[e]
    /\ e = "alu" => op.name \notin DOMAIN ValuExtraOpcodes
    /\ Required(e, op.name) \subseteq DOMAIN op.params
    /\ DOMAIN op.params \subseteq Required(e, op.name) \cup Optional(e, op.name)
    /\ \A key \in DOMAIN op.params : op.params[key] \in Values(op.name, key)

ASSUME CodecAssumption ==
    /\ Count \in [Engines -> Nat]
    /\ DOMAIN Menu = Engines
    /\ \A e \in Engines : \A op \in Menu[e] : Buildable(e, op)

(* An instruction grows by one operation per step.                         *)
VARIABLE instr

Init == instr = [e \in Engines |-> <<>>]
Ops == Len(instr.alu) + Len(instr.valu) + Len(instr.load) + Len(instr.store)
         + Len(instr.matrix) + Len(instr.flow)
Next ==
    \E e \in Engines : \E op \in Menu[e] :
        /\ Ops < MaxOps
        /\ instr' = [instr EXCEPT ![e] = Append(@, op)]
        /\ ~ Refused(instr')
Spec == Init /\ [][Next]_instr

Tuples == [e \in Engines |-> [i \in DOMAIN instr[e] |-> ToTuple(e, instr[e][i])]]
Stored == Join(Words(Assemble(Tuples)))

-----------------------------------------------------------------------------
(* What an engine is to find in the fields it looks at.  Widths are given  *)
(* in bits and meant as ElemWidth codes them; a broadcast takes its scalar *)
(* from the third operand, a cast its half from the second.                *)
LooksAt(e, op) ==
    CASE e \in {"alu", "store", "matrix"} -> DOMAIN Layout[e]
      [] e = "valu" ->
           {"valid", "opcode", "ewidth", "dwidth", "signed"} \cup Required(e, op.name) \cup
           (IF op.name = "vbroadcast" THEN {"src3"} ELSE {}) \cup
           (IF op.name = "vcast" THEN {"src2"} ELSE {})
      [] OTHER -> {"valid", "opcode"} \cup Required(e, op.name)

Meant(e, op, f) ==
    CASE f = "valid" -> 1
      [] f = "opcode" -> HardwareOpcodes[e][op.name]
      [] f = "ewidth" -> ElemWidth[Par(op, f, 32)]
      [] f = "dwidth" -> ElemWidth[Par(op, f, IF op.name = "vcast" THEN 32
                                             ELSE Par(op, "ewidth", 32))]
      [] f = "src3" /\ op.name = "vbroadcast" -> op.params.src1
      [] f = "src2" /\ op.name = "vcast" -> Par(op, "upper", 0)
      [] f \in {"tileRows", "tileCols"} -> Par(op, f, 8)
      [] f = "immediate" /\ e = "flow" -> op.params.immediate % 1024
      [] OTHER -> Par(op, f, 0)

(* What the assembler wrote is what the decoder reads: every field an      *)
(* engine looks at holds what the operation meant, the opcode is the       *)
(* operation's in the engine's own table, and a slot without an operation  *)
(* is not valid: no slot overlaps its neighbour, no optional parameter is  *)
(* taken for another.                                                      *)
DecodesWhatWasMeant ==
    LET bundle == Stored
    IN  \A e \in Engines : \A i \in 1..Count[e] :
            IF i \in DOMAIN instr[e]
            THEN \A f \in LooksAt(e, instr[e][i]) :
                    Decoded(bundle, e, i, f) = PackBits(Meant(e, instr[e][i], f), 32)
            ELSE Decoded(bundle, e, i, "valid") = {}
=============================================================================

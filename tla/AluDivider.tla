----------------------------- MODULE AluDivider -----------------------------
(***************************************************************************)
(* A slot of the ALU with its divider (AluEngine.scala, UnsignedDivider    *)
(* .scala; a lane of ValuEngine.scala has the same).  One step is a clock  *)
(* cycle.  The registers have the names of the code and its widths.  An    *)
(* operation of one cycle stands for all of them: its result is operand a. *)
(* The floating point unit of the slot is left out.                        *)
(***************************************************************************)
EXTENDS Integers

CONSTANTS
    Width,      \* dataWidth
    Dests,      \* scratch addresses
    Operations, \* what may be in the slot: [name, dest, a, b]
    None

(* Values of the bits of a word.                                           *)
Pow2[i \in Nat] == IF i = 0 THEN 1 ELSE 2 * Pow2[i - 1]
WordSize == Pow2[Width]
Words == 0..(WordSize - 1)

Divisions == {"mod", "div", "cdiv"}
IsDiv(name) == name \in Divisions

ASSUME SlotAssumption ==
    /\ Width \in Nat /\ Width >= 2          \* UnsignedDivider.scala:28
    /\ Operations \subseteq
         [name : Divisions \cup {"single"}, dest : Dests, a : Words, b : Words]
    /\ None \notin Operations /\ None \notin [dest : Dests, value : Words, left : 0..Width]

(* DIV_BUSY_CYCLES: cycles for which the scheduler keeps the slot; the      *)
(* mistake counts the iterations only.                                     *)
BusyWhileIterating == Width
DIV_BUSY_CYCLES == Width + 1

VARIABLES
    ex,                     \* operation of the slot in EX, or None
    running, counter, donePulse, r, q, d,
    divCapDest, divCapMode, \* taken with the operands
    port,                   \* registered write request, or None
    gap,                    \* cycles since a division was in EX, at most DIV_BUSY_CYCLES
    asked                   \* operation the divider works on, for the properties

divider == <<running, counter, donePulse, r, q, d>>
vars == <<ex, divider, divCapDest, divCapMode, port, gap, asked>>

Init ==
    /\ ex = None
    /\ running = FALSE /\ counter = 0 /\ donePulse = FALSE
    /\ r = 0 /\ q = 0 /\ d = 0
    /\ divCapDest \in Dests /\ divCapMode = "mod"
    /\ port = None
    /\ gap = DIV_BUSY_CYCLES
    /\ asked = None

-----------------------------------------------------------------------------
(* UnsignedDivider.                                                        *)
Division == ex # None /\ IsDiv(ex.name)
Start == Division /\ ~ running

(* Sums wrap at the width of a word.                                       *)
Dividend(op) == IF op.name = "cdiv" THEN (op.a + op.b - 1) % WordSize ELSE op.a

StartDivision ==
    /\ Start
    /\ r' = 0 /\ q' = Dividend(ex) /\ d' = ex.b
    /\ counter' = Width
    /\ running' = TRUE /\ donePulse' = FALSE
    /\ divCapDest' = ex.dest /\ divCapMode' = ex.name
    /\ asked' = ex

(* The remainder takes the top bit of q, and the divisor is taken from it  *)
(* if that does not borrow.  The mistake leaves a remainder as large as    *)
(* the divisor alone.                                                      *)
RShifted == (r % WordSize) * 2 + (IF q >= Pow2[Width - 1] THEN 1 ELSE 0)
QShifted == (2 * q) % WordSize
Sub == (RShifted - d) % Pow2[Width + 2]
NoBorrowOrZero == Sub < Pow2[Width + 1] /\ Sub # 0
NoBorrow == Sub < Pow2[Width + 1]

Iterate ==
    /\ running
    /\ IF NoBorrow THEN r' = Sub % Pow2[Width + 1] /\ q' = QShifted + 1
                   ELSE r' = RShifted /\ q' = QShifted
    /\ counter' = counter - 1
    /\ running' = (counter # 1) /\ donePulse' = (counter = 1)
    /\ UNCHANGED <<d, divCapDest, divCapMode, asked>>

Rest ==
    /\ ~ running /\ ~ Start
    /\ donePulse' = FALSE
    /\ UNCHANGED <<running, counter, r, q, d, divCapDest, divCapMode, asked>>

(* AluEngine: the write port belongs to a divider that is done.  The       *)
(* mistake takes the mode from the operation in EX.                        *)
DivResultOfEx == IF ex # None /\ ex.name = "mod" THEN r % WordSize ELSE q
DivResult == IF divCapMode = "mod" THEN r % WordSize ELSE q

WriteRequest ==
    port' = IF donePulse THEN [dest |-> divCapDest, value |-> DivResult]
            ELSE IF ex # None /\ ~ Division THEN [dest |-> ex.dest, value |-> ex.a]
            ELSE None

(* What may be in EX: a division no sooner than DIV_BUSY_CYCLES after the  *)
(* last one, and nothing that writes at once in the cycle of its answer.   *)
(* The scheduler leaves the whole slot empty for that time.                *)
GapAfter == IF Division THEN 1 ELSE IF gap < DIV_BUSY_CYCLES THEN gap + 1 ELSE gap
Settled == gap = DIV_BUSY_CYCLES /\ ~ Division

Allowed(op) ==
    IF IsDiv(op.name) THEN GapAfter = DIV_BUSY_CYCLES
    ELSE GapAfter # DIV_BUSY_CYCLES \/ Settled

Issue ==
    /\ gap' = GapAfter
    /\ ex' \in {op \in Operations : Allowed(op)} \cup {None}

Next ==
    /\ StartDivision \/ Iterate \/ Rest
    /\ WriteRequest
    /\ Issue

Spec == Init /\ [][Next]_vars

-----------------------------------------------------------------------------
(* What an operation is to give: the manual (docs/ISA.md:202-204), the     *)
(* golden model (golden_model.py:530-532) and test_alu.py:70-72 agree on   *)
(* it where the divisor is not zero, and the sum of CDIV is no word there. *)
Exact(name, a, b) ==
    CASE name = "div" -> a \div b
      [] name = "cdiv" -> (a + b - 1) \div b
      [] name = "mod" -> a % b
      [] OTHER -> a

(* A division by zero is undefined (UnsignedDivider.scala:20; the golden   *)
(* model gives zero).  A CDIV whose sum does not fit in a word is defined  *)
(* by all of them, but the hardware divides the wrapped sum: nothing is    *)
(* promised, a program has to avoid it.                                    *)
Promised(name, a, b) ==
    IsDiv(name) => b # 0 /\ (name = "cdiv" => a + b <= WordSize)

Results(name, a, b) == IF Promised(name, a, b) THEN {Exact(name, a, b)} ELSE Words

(* What the machine gives for every pair of words, those of which nothing  *)
(* is promised included: all ones and the dividend for a division by zero. *)
Quotient(a, b) == IF b = 0 THEN WordSize - 1 ELSE a \div b
Remainder(a, b) == IF b = 0 THEN a ELSE a % b

Computed(name, a, b) ==
    CASE name = "div" -> Quotient(a, b)
      [] name = "cdiv" -> Quotient((a + b - 1) % WordSize, b)
      [] name = "mod" -> Remainder(a, b)
      [] OTHER -> a

(* The divider's registers seen as the unit of DivisionUnit.               *)
UnderWay(left) ==
    [dest |-> asked.dest, value |-> Computed(asked.name, asked.a, asked.b), left |-> left]
Fly == IF running THEN UnderWay(counter) ELSE IF donePulse THEN UnderWay(0) ELSE None

Unit == INSTANCE DivisionUnit WITH Latency <- Width + 1, fly <- Fly

TypeOK ==
    /\ ex \in Operations \cup {None}
    /\ running \in BOOLEAN /\ donePulse \in BOOLEAN
    /\ counter \in 0..Width
    /\ r \in 0..(Pow2[Width + 1] - 1) /\ q \in Words /\ d \in Words
    /\ divCapDest \in Dests /\ divCapMode \in Divisions
    /\ port \in [dest : Dests, value : Words] \cup {None}
    /\ gap \in 1..DIV_BUSY_CYCLES
    /\ asked \in Operations \cup {None}

(* A slot answers every division it starts after Width + 1 cycles, at the  *)
(* destination taken with the operands, and can start the next one in that *)
(* cycle.  The answer is the quotient, the rounded-up quotient or the      *)
(* remainder of the golden model, wherever one is promised.                *)
DividesInTime == Unit!Spec

(* The window of the scheduler is as long as the divider needs: no         *)
(* division meets a running divider, where it would be dropped without a   *)
(* trace, and no other result meets an answer, where it would be lost      *)
(* (AluEngine.scala:107-108).                                              *)
SlotFree ==
    /\ Division => ~ running
    /\ ex # None /\ donePulse => Division

(* The partial remainder stays below the divisor, so that the bit cut off  *)
(* before each shift and in the result is never set.                       *)
RemainderFits == d # 0 => r < d
=============================================================================

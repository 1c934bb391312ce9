-------------------------- MODULE AluDividerProofs --------------------------
(***************************************************************************)
(* Proofs about AluDivider for every width: the restoring division gives   *)
(* the quotient and the remainder, in time, and the scheduler's window is  *)
(* long enough.  Induction over the bits of a word goes through sets: a    *)
(* set of naturals that has 0 and the successors of its elements is Nat.   *)
(***************************************************************************)
EXTENDS AluDivider, TLAPS, WellFoundedInduction

-----------------------------------------------------------------------------
(* Induction, without an operator as a parameter.                          *)
LEMMA SetInduction ==
    ASSUME NEW T \in SUBSET Nat, 0 \in T, \A n \in T : n + 1 \in T
    PROVE  T = Nat
<1> DEFINE Less == {p \in Nat \X Nat : p[1] < p[2]}
           Rest_ == Nat \ T
<1>1. IsWellFoundedOn(Less, Nat)
  BY NatLessThanWellFounded, Zenon DEF OpToRel
<1>2. SUFFICES ASSUME Rest_ # {} PROVE FALSE
  OBVIOUS
<1>3. PICK m \in Rest_ : \A y \in Rest_ : ~ (<<y, m>> \in Less)
  <2> HIDE DEF Less
  <2> QED BY <1>1, <1>2, WFMin
<1>4. m # 0 /\ m - 1 \in Nat
  BY <1>3
<1>5. m - 1 \in Rest_
  BY <1>3, <1>4
<1>6. <<m - 1, m>> \in Less
  BY <1>3, <1>4
<1> QED BY <1>3, <1>5, <1>6

(* The recursive definition of Pow2 has a solution: powers up to n, for    *)
(* every n, agree where they are both defined.                             *)
Powers(g, n) == g \in [0..n -> Nat] /\ g[0] = 1 /\ \A i \in 1..n : g[i] = 2 * g[i - 1]

LEMMA PowersAgree ==
    ASSUME NEW m \in Nat, NEW n \in Nat, NEW g, NEW h, Powers(g, m), Powers(h, n),
           NEW k \in Nat, k <= m, k <= n
    PROVE  g[k] = h[k]
<1> DEFINE T == {j \in Nat : j <= m /\ j <= n => g[j] = h[j]}
<1>1. 0 \in T
  BY DEF Powers
<1>2. \A j \in T : j + 1 \in T
  BY DEF Powers
<1>3. T = Nat
  <2> HIDE DEF T
  <2> T \in SUBSET Nat
    BY DEF T
  <2> QED BY <1>1, <1>2, SetInduction
<1> QED BY <1>3

LEMMA PowersExist == \A n \in Nat : \E g : Powers(g, n)
<1> DEFINE T == {n \in Nat : \E g : Powers(g, n)}
<1>1. 0 \in T
  <2> Powers([i \in 0..0 |-> 1], 0)
    BY DEF Powers
  <2> QED OBVIOUS
<1>2. \A n \in T : n + 1 \in T
  <2> TAKE n \in T
  <2> PICK g : Powers(g, n)
    OBVIOUS
  <2> DEFINE h == [i \in 0..(n + 1) |-> IF i = n + 1 THEN 2 * g[n] ELSE g[i]]
  <2>1. h \in [0..(n + 1) -> Nat]
    BY DEF Powers
  <2>2. Powers(h, n + 1)
    BY <2>1 DEF Powers
  <2> QED BY <2>2
<1>3. T = Nat
  <2> HIDE DEF T
  <2> T \in SUBSET Nat
    BY DEF T
  <2> QED BY <1>1, <1>2, SetInduction
<1> QED BY <1>3

LEMMA Pow2Defined ==
    /\ Pow2 \in [Nat -> Nat]
    /\ Pow2[0] = 1
    /\ \A i \in Nat : Pow2[i + 1] = 2 * Pow2[i]
<1> DEFINE Upto(n) == CHOOSE g : Powers(g, n)
           f == [n \in Nat |-> Upto(n)[n]]
           Solves(w) == w = [i \in Nat |-> IF i = 0 THEN 1 ELSE 2 * w[i - 1]]
<1>1. \A n \in Nat : Powers(Upto(n), n)
  BY PowersExist
<1> HIDE DEF Upto
<1>2. \A n \in Nat : f[n] = Upto(n)[n] /\ f[n] \in Nat
  BY <1>1 DEF Powers
<1>3. f \in [Nat -> Nat]
  <2> HIDE DEF f
  <2> f = [n \in Nat |-> f[n]]
    BY DEF f
  <2> QED BY <1>2
<1>4. f[0] = 1
  BY <1>1 DEF Powers
<1>5. \A n \in Nat \ {0} : f[n] = 2 * f[n - 1]
  <2> TAKE n \in Nat \ {0}
  <2>1. Powers(Upto(n), n) /\ Powers(Upto(n - 1), n - 1) /\ n - 1 \in Nat
    BY <1>1
  <2>2. Upto(n)[n - 1] = Upto(n - 1)[n - 1]
    BY <2>1, PowersAgree
  <2>3. Upto(n)[n] = 2 * Upto(n)[n - 1]
    BY <2>1 DEF Powers
  <2> QED BY <1>2, <2>1, <2>2, <2>3
<1> HIDE DEF f
<1>6. Solves(f)
  BY <1>3, <1>4, <1>5
<1>7. Pow2 = CHOOSE w : Solves(w)
  BY DEF Pow2
<1>8. Solves(Pow2)
  <2> HIDE DEF Solves
  <2> QED BY <1>6, <1>7
<1>9. \A n \in Nat : Pow2[n] = f[n]
  <2> DEFINE T == {i \in Nat : Pow2[i] = f[i]}
  <2>1. 0 \in T
    BY <1>4, <1>8
  <2>2. \A i \in T : i + 1 \in T
    BY <1>5, <1>8
  <2>3. T = Nat
    <3> HIDE DEF T
    <3> T \in SUBSET Nat
      BY DEF T
    <3> QED BY <2>1, <2>2, SetInduction
  <2> QED BY <2>3
<1> QED BY <1>3, <1>4, <1>5, <1>8, <1>9

LEMMA Pow2Positive == \A i \in Nat : Pow2[i] \in Nat \ {0}
<1> DEFINE T == {i \in Nat : Pow2[i] > 0}
<1>1. 0 \in T
  BY Pow2Defined
<1>2. \A i \in T : i + 1 \in T
  BY Pow2Defined
<1>3. T = Nat
  <2> HIDE DEF T
  <2> T \in SUBSET Nat
    BY DEF T
  <2> QED BY <1>1, <1>2, SetInduction
<1> QED BY <1>3, Pow2Defined

LEMMA Pow2Sum == \A i, j \in Nat : Pow2[i + j] = Pow2[i] * Pow2[j]
<1> SUFFICES ASSUME NEW j \in Nat PROVE \A i \in Nat : Pow2[i + j] = Pow2[i] * Pow2[j]
  OBVIOUS
<1> DEFINE T == {i \in Nat : Pow2[i + j] = Pow2[i] * Pow2[j]}
<1>1. 0 \in T
  BY Pow2Defined
<1>2. \A i \in T : i + 1 \in T
  <2> TAKE i \in T
  <2>1. Pow2[(i + j) + 1] = 2 * Pow2[i + j]
    BY Pow2Defined
  <2>2. Pow2[i + 1] = 2 * Pow2[i] /\ Pow2[i] \in Nat /\ Pow2[j] \in Nat
    BY Pow2Defined
  <2>3. (2 * Pow2[i]) * Pow2[j] = 2 * (Pow2[i] * Pow2[j])
    BY <2>2
  <2> QED BY <2>1, <2>2, <2>3
<1>3. T = Nat
  <2> HIDE DEF T
  <2> T \in SUBSET Nat
    BY DEF T
  <2> QED BY <1>1, <1>2, SetInduction
<1> QED BY <1>3

(* The powers a width gives.                                               *)
LEMMA WidthPowers ==
    /\ WordSize \in Nat /\ WordSize >= 4
    /\ Pow2[Width - 1] \in Nat /\ WordSize = 2 * Pow2[Width - 1]
    /\ Pow2[Width + 1] = 2 * WordSize /\ Pow2[Width + 2] = 4 * WordSize
<1>1. Width - 1 \in Nat /\ Width - 2 \in Nat /\ (Width - 2) + 1 = Width - 1
      /\ (Width - 1) + 1 = Width /\ (Width + 1) + 1 = Width + 2 /\ Width \in Nat
  BY SlotAssumption
<1>2. Pow2[Width - 2] \in Nat \ {0}
  BY <1>1, Pow2Positive
<1>3. Pow2[Width - 1] = 2 * Pow2[Width - 2]
  BY <1>1, Pow2Defined
<1>4. Pow2[Width] = 2 * Pow2[Width - 1] /\ Pow2[Width + 1] = 2 * Pow2[Width]
  BY <1>1, Pow2Defined
<1>5. Pow2[Width + 2] = 2 * Pow2[Width + 1]
  BY <1>1, Pow2Defined
<1> QED BY <1>2, <1>3, <1>4, <1>5 DEF WordSize

-----------------------------------------------------------------------------
(* One step of the division on numbers.  Of a dividend, n is the part that *)
(* was shifted into the remainder and rest the part that was not; quot is  *)
(* the quotient so far, and q holds rest above quot.                       *)
LEMMA MulMono == \A x, y, z \in Nat : x <= y => x * z <= y * z
  BY SMT

LEMMA TopBit ==
    ASSUME NEW half \in Nat \ {0}, NEW w \in Nat \ {0},
           NEW rest \in Nat, NEW quot \in Nat, rest < 2 * half, quot < w
    PROVE  /\ rest * w + quot >= half * w <=> rest >= half
           /\ rest * w + quot < 2 * (half * w)
<1>1. CASE rest >= half
  <2>1. half * w <= rest * w
    BY <1>1, MulMono
  <2>2. rest * w <= (2 * half - 1) * w
    BY MulMono
  <2>3. (2 * half - 1) * w = 2 * (half * w) - w
    OBVIOUS
  <2>4. rest * w \in Nat /\ half * w \in Nat
    OBVIOUS
  <2> QED BY <1>1, <2>1, <2>2, <2>3, <2>4
<1>2. CASE rest < half
  <2>1. rest * w <= (half - 1) * w
    BY <1>2, MulMono
  <2>2. (half - 1) * w = half * w - w
    OBVIOUS
  <2>3. rest * w \in Nat /\ half * w \in Nat
    OBVIOUS
  <2> QED BY <1>2, <2>1, <2>2, <2>3
<1> QED BY <1>1, <1>2

-----------------------------------------------------------------------------
(* The inductive invariant.                                                *)

(* The operands taken at the start are those of asked.                     *)
Captured ==
    running \/ donePulse =>
        /\ asked \in Operations /\ IsDiv(asked.name)
        /\ divCapDest = asked.dest /\ divCapMode = asked.name /\ d = asked.b

(* The cycles left to the divider and those the scheduler counts make up   *)
(* the window.                                                             *)
InTime ==
    /\ running => counter \in 1..Width /\ gap + counter = Width + 1 /\ ~ donePulse
    /\ donePulse => counter = 0 /\ gap = DIV_BUSY_CYCLES
    /\ Division => gap = DIV_BUSY_CYCLES

Sofar(n, rest, quot) ==
    LET k == Width - counter
    IN  /\ Dividend(asked) = n * Pow2[counter] + rest
        /\ rest < Pow2[counter] /\ n < Pow2[k]
        /\ q = rest * Pow2[k] + quot /\ quot < Pow2[k]
        /\ d = 0 => quot = Pow2[k] - 1 /\ r = n
        /\ d # 0 => n = quot * d + r /\ r < d

Divided == running \/ donePulse => \E n, rest, quot \in Nat : Sofar(n, rest, quot)

DividerInv == TypeOK /\ Captured /\ InTime /\ Divided /\ RemainderFits /\ SlotFree

(* The inputs of the divider are words.                                    *)
LEMMA OperationFields ==
    ASSUME NEW op \in Operations
    PROVE  /\ op.name \in Divisions \cup {"single"} /\ op.dest \in Dests
           /\ op.a \in Words /\ op.b \in Words /\ op # None
           /\ Dividend(op) \in Words
<1>1. op \in [name : Divisions \cup {"single"}, dest : Dests, a : Words, b : Words]
      /\ op # None
  BY SlotAssumption
<1>2. op.a + op.b - 1 \in Int
  BY <1>1 DEF Words
<1>3. (op.a + op.b - 1) % WordSize \in Words
  BY <1>2, WidthPowers DEF Words
<1> QED BY <1>1, <1>3 DEF Dividend

LEMMA InitInv == Init => DividerInv
<1> SUFFICES ASSUME Init PROVE DividerInv
  OBVIOUS
<1>1. /\ ex \in Operations \cup {None} /\ asked \in Operations \cup {None}
      /\ running \in BOOLEAN /\ donePulse \in BOOLEAN
      /\ divCapDest \in Dests /\ divCapMode \in Divisions
      /\ port \in [dest : Dests, value : Words] \cup {None}
  BY DEF Init, Divisions
<1>2. 0 \in 0..(Pow2[Width + 1] - 1) /\ 0 \in Words
  BY WidthPowers DEF Words
<1>3. counter \in 0..Width /\ gap \in 1..DIV_BUSY_CYCLES
  BY SlotAssumption DEF Init, DIV_BUSY_CYCLES
<1>4. TypeOK
  BY <1>1, <1>2, <1>3 DEF Init, TypeOK
<1> QED BY <1>4 DEF Init, DividerInv, Captured, InTime, Divided, RemainderFits, SlotFree, Division

(* What an iteration does to remainder and quotient, in numbers that need  *)
(* no modulus: a bit comes down, and the divisor goes into it or not.      *)
Bit == IF q >= Pow2[Width - 1] THEN 1 ELSE 0
Comes == 2 * r + Bit

LEMMA IterationStep ==
    ASSUME TypeOK, RemainderFits, Iterate, r < WordSize
    PROVE  /\ r' = IF d <= Comes THEN Comes - d ELSE Comes
           /\ q' = 2 * q - Bit * WordSize + (IF d <= Comes THEN 1 ELSE 0)
           /\ d # 0 => r' < d
<1>1. /\ r \in 0..(WordSize - 1) /\ q \in 0..(WordSize - 1) /\ d \in 0..(WordSize - 1)
      /\ WordSize \in Nat
  BY WidthPowers DEF TypeOK, Words
<1>2. Bit \in {0, 1} /\ (Bit = 1 <=> 2 * q >= WordSize)
  BY <1>1, WidthPowers DEF Bit
<1>3. RShifted = Comes /\ Comes \in 0..(2 * WordSize - 1)
  BY <1>1, <1>2 DEF RShifted, Comes, Bit
<1>4. QShifted = 2 * q - Bit * WordSize
  <2>1. CASE Bit = 0
    BY <1>1, <1>2, <2>1 DEF QShifted
  <2>2. CASE Bit = 1
    <3>1. 2 * q - WordSize \in 0..(WordSize - 1)
      BY <1>1, <1>2, <2>2
    <3>2. (2 * q) % WordSize = 2 * q - WordSize
      BY <1>1, <3>1
    <3> QED BY <1>1, <2>2, <3>2 DEF QShifted
  <2> QED BY <1>2, <2>1, <2>2
<1>5. CASE d <= Comes
  <2>1. Comes - d \in 0..(2 * WordSize - 1)
    BY <1>1, <1>3, <1>5
  <2>2. Sub = Comes - d
    BY <1>1, <1>3, <2>1, WidthPowers DEF Sub
  <2>3. NoBorrow /\ Sub % Pow2[Width + 1] = Comes - d
    BY <1>1, <2>1, <2>2, WidthPowers DEF NoBorrow
  <2>4. r' = Comes - d /\ q' = QShifted + 1
    BY <2>3 DEF Iterate
  <2>5. d # 0 => Comes - d < d
    BY <1>1, <1>2 DEF RemainderFits, Comes
  <2> QED BY <1>4, <1>5, <2>4, <2>5
<1>6. CASE ~ (d <= Comes)
  <2>1. Comes - d + 4 * WordSize \in (2 * WordSize)..(4 * WordSize - 1)
    BY <1>1, <1>3, <1>6
  <2>2. Sub = Comes - d + 4 * WordSize
    BY <1>1, <1>3, <2>1, WidthPowers DEF Sub
  <2>3. ~ NoBorrow
    BY <1>1, <2>1, <2>2, WidthPowers DEF NoBorrow
  <2>4. r' = Comes /\ q' = QShifted
    BY <2>3, <1>3 DEF Iterate
  <2>5. Comes < d
    BY <1>1, <1>3, <1>6
  <2> QED BY <1>4, <1>6, <2>4, <2>5, <1>1, <1>2
<1> QED BY <1>5, <1>6

-----------------------------------------------------------------------------
(* An iteration moves one bit of the dividend into the remainder.          *)
LEMMA StepNumbers ==
    ASSUME NEW n \in Nat, NEW rest \in Nat, NEW quot \in Nat,
           NEW w \in Nat \ {0}, NEW half \in Nat \ {0}, NEW bit \in {0, 1},
           rest < 2 * half, quot < w, bit = 1 <=> rest >= half,
           NEW dividend \in Nat, dividend = n * (2 * half) + rest,
           NEW top \in Nat, top = half * w, NEW qq \in Nat, qq = rest * w + quot
    PROVE  /\ rest - bit * half \in Nat /\ rest - bit * half < half
           /\ dividend = (2 * n + bit) * half + (rest - bit * half)
           /\ 2 * qq - bit * (2 * top) = (rest - bit * half) * (2 * w) + 2 * quot
<1>1. CASE bit = 0
  <2>1. n * (2 * half) = (2 * n) * half /\ 2 * (rest * w) = rest * (2 * w)
    OBVIOUS
  <2> QED BY <1>1, <2>1
<1>2. CASE bit = 1
  <2>1. (2 * n + 1) * half = n * (2 * half) + half
    OBVIOUS
  <2>2. (rest - half) * (2 * w) = 2 * (rest * w) - 2 * (half * w)
    OBVIOUS
  <2>3. rest * w \in Nat /\ half * w \in Nat /\ n * (2 * half) \in Nat /\ rest - half \in Nat
    BY <1>2
  <2> QED BY <1>2, <2>1, <2>2, <2>3
<1> QED BY <1>1, <1>2

(* A divisor that goes into the remainder adds one to the quotient.        *)
LEMMA StepQuotient ==
    ASSUME NEW n \in Nat, NEW quot \in Nat, NEW rr \in Nat, NEW dd \in Nat,
           NEW bit \in {0, 1}, n = quot * dd + rr
    PROVE  /\ 2 * n + bit = (2 * quot) * dd + (2 * rr + bit)
           /\ 2 * n + bit = (2 * quot + 1) * dd + (2 * rr + bit - dd)
<1>1. (2 * quot) * dd = 2 * (quot * dd) /\ (2 * quot + 1) * dd = 2 * (quot * dd) + dd
  OBVIOUS
<1>2. quot * dd \in Nat
  OBVIOUS
<1> QED BY <1>1, <1>2

LEMMA IterateDivides ==
    ASSUME DividerInv, Iterate
    PROVE  \E n, rest, quot \in Nat : Sofar(n, rest, quot)'
<1>1. PICK n \in Nat, rest \in Nat, quot \in Nat : Sofar(n, rest, quot)
  BY DEF DividerInv, Divided, Iterate
<1>2. PICK c \in Nat : c = counter
  BY SlotAssumption DEF DividerInv, InTime, Iterate
<1>3. PICK k \in Nat : k = Width - c
  BY <1>2, SlotAssumption DEF DividerInv, InTime, Iterate
<1>4. /\ Width \in Nat /\ c \in 1..Width /\ c - 1 \in Nat /\ k + 1 \in Nat
      /\ counter' = c - 1 /\ Width - (c - 1) = k + 1 /\ (c - 1) + 1 = c
      /\ (c - 1) + k = Width - 1
  BY <1>2, <1>3, SlotAssumption DEF DividerInv, InTime, Iterate
<1>5. PICK half \in Nat \ {0} : half = Pow2[c - 1]
  BY <1>4, Pow2Positive
<1>6. PICK w \in Nat \ {0} : w = Pow2[k]
  BY <1>4, Pow2Positive
<1>7. Pow2[c] = 2 * half /\ Pow2[k + 1] = 2 * w
  BY <1>4, <1>5, <1>6, Pow2Defined
<1>8. Pow2[Width - 1] = half * w
  BY <1>4, <1>5, <1>6, Pow2Sum
<1>9. /\ rest < 2 * half /\ quot < w /\ n < w
      /\ Dividend(asked) = n * (2 * half) + rest /\ q = rest * w + quot
      /\ d = 0 => quot = w - 1 /\ r = n
      /\ d # 0 => n = quot * d + r /\ r < d
  BY <1>1, <1>2, <1>3, <1>6, <1>7 DEF Sofar
<1>10. WordSize = 2 * (half * w) /\ half * w \in Nat /\ w <= half * w
  <2>1. 1 * w <= half * w
    BY MulMono
  <2> QED BY <1>8, <2>1, WidthPowers
<1>11. r < WordSize /\ r \in Nat /\ d \in Nat /\ q \in Nat /\ RemainderFits /\ TypeOK
  <2>1. r \in Nat /\ d \in 0..(WordSize - 1) /\ q \in Nat /\ RemainderFits /\ TypeOK
    BY WidthPowers DEF DividerInv, TypeOK, Words
  <2> QED BY <2>1, <1>9, <1>10
<1>12. PICK bit \in {0, 1} : bit = Bit
  BY DEF Bit
<1>13. bit = 1 <=> rest >= half
  BY <1>8, <1>9, <1>12, TopBit DEF Bit
<1>14. PICK new \in {0, 1} : new = IF d <= 2 * r + bit THEN 1 ELSE 0
  OBVIOUS
<1>15. /\ r' = 2 * r + bit - (IF new = 1 THEN d ELSE 0)
       /\ q' = 2 * q - bit * (2 * (half * w)) + new
       /\ d # 0 => r' < d
  <2>1. /\ r' = IF d <= Comes THEN Comes - d ELSE Comes
        /\ q' = 2 * q - Bit * WordSize + (IF d <= Comes THEN 1 ELSE 0)
        /\ d # 0 => r' < d
    BY <1>11, IterationStep
  <2>2. Comes = 2 * r + bit
    BY <1>12 DEF Comes
  <2> QED BY <2>1, <2>2, <1>10, <1>11, <1>12, <1>14
<1>16. PICK dividend \in Nat : dividend = Dividend(asked)
  <2>1. asked \in Operations
    BY DEF DividerInv, Captured, Iterate
  <2> QED BY <2>1, OperationFields, WidthPowers DEF Words
<1>17. /\ rest - bit * half \in Nat /\ rest - bit * half < half
       /\ dividend = (2 * n + bit) * half + (rest - bit * half)
       /\ 2 * q - bit * (2 * (half * w)) = (rest - bit * half) * (2 * w) + 2 * quot
  BY <1>9, <1>10, <1>11, <1>13, <1>16, StepNumbers
<1>18. PICK rr \in Nat : rr = rest - bit * half
  BY <1>17
<1>19. PICK nn \in Nat : nn = 2 * n + bit
  OBVIOUS
<1>20. PICK qq \in Nat : qq = 2 * quot + new
  OBVIOUS
<1>21. nn < 2 * w /\ qq < 2 * w
  BY <1>9, <1>19, <1>20
<1>22. q' = rr * (2 * w) + qq
  <2>1. rr * (2 * w) \in Nat
    OBVIOUS
  <2> QED BY <1>15, <1>17, <1>18, <1>20, <2>1
<1>23. asked' = asked /\ d' = d
  BY DEF Iterate
<1>24. d = 0 => qq = 2 * w - 1 /\ r' = nn
  BY <1>9, <1>11, <1>14, <1>15, <1>19, <1>20
<1>25. d # 0 => nn = qq * d + r' /\ r' < d
  <2>1. d # 0 => /\ nn = (2 * quot) * d + (2 * r + bit)
                 /\ nn = (2 * quot + 1) * d + (2 * r + bit - d)
    BY <1>9, <1>11, <1>19, StepQuotient
  <2>2. CASE new = 1
    BY <2>1, <2>2, <1>15, <1>20, <1>11
  <2>3. CASE new = 0
    BY <2>1, <2>3, <1>15, <1>20, <1>11
  <2> QED BY <2>2, <2>3
<1>26. dividend = Dividend(asked')
  BY <1>16, <1>23
<1>27. /\ dividend = nn * half + rr /\ rr < half
  BY <1>17, <1>18, <1>19
<1>28. Pow2[counter'] = half /\ Pow2[Width - counter'] = 2 * w
  BY <1>4, <1>5, <1>7
<1>29. Sofar(nn, rr, qq)'
  BY <1>21, <1>22, <1>23, <1>24, <1>25, <1>26, <1>27, <1>28 DEF Sofar
<1> QED BY <1>29

-----------------------------------------------------------------------------
(* Every cycle keeps the invariant.                                        *)
LEMMA IssueEx ==
    ASSUME Issue
    PROVE  /\ gap' = GapAfter
           /\ ex' \in Operations \cup {None}
           /\ ex' # None => ex' \in Operations /\ Allowed(ex')
BY DEF Issue

LEMMA NextTypeOK == ASSUME DividerInv, Next PROVE TypeOK'
<1> USE DEF DividerInv
<1>1. ex' \in Operations \cup {None}
  BY IssueEx DEF Next
<1>2. gap' \in 1..DIV_BUSY_CYCLES
  BY IssueEx, SlotAssumption DEF Next, GapAfter, TypeOK, DIV_BUSY_CYCLES
<1>3. r \in Nat /\ q \in Words /\ WordSize \in Nat /\ r % WordSize \in Words
  BY WidthPowers DEF TypeOK, Words
<1>4. port' \in [dest : Dests, value : Words] \cup {None}
  <2>1. CASE donePulse
    <3>1. DivResult \in Words
      BY <1>3 DEF DivResult, TypeOK
    <3>2. divCapDest \in Dests
      BY DEF TypeOK
    <3> QED BY <2>1, <3>1, <3>2 DEF Next, WriteRequest
  <2>2. CASE ~ donePulse /\ ex # None /\ ~ Division
    <3>1. ex.dest \in Dests /\ ex.a \in Words
      BY <2>2, OperationFields DEF TypeOK
    <3> QED BY <2>2, <3>1 DEF Next, WriteRequest
  <2>3. CASE ~ donePulse /\ ~ (ex # None /\ ~ Division)
    BY <2>3 DEF Next, WriteRequest
  <2> QED BY <2>1, <2>2, <2>3
<1>5. CASE StartDivision
  <2>1. ex \in Operations /\ IsDiv(ex.name)
    BY <1>5 DEF StartDivision, Start, Division, TypeOK
  <2>2. ex.dest \in Dests /\ ex.b \in Words /\ Dividend(ex) \in Words /\ ex.name \in Divisions
    BY <2>1, OperationFields DEF IsDiv
  <2>3. r' \in 0..(Pow2[Width + 1] - 1)
    BY <1>5, WidthPowers DEF StartDivision
  <2>4. counter' \in 0..Width
    BY <1>5, SlotAssumption DEF StartDivision
  <2>5. running' \in BOOLEAN /\ donePulse' \in BOOLEAN
    BY <1>5 DEF StartDivision
  <2> QED BY <1>1, <1>2, <1>4, <1>5, <2>1, <2>2, <2>3, <2>4, <2>5 DEF StartDivision, TypeOK
<1>6. CASE Iterate
  <2>1. PICK n \in Nat, rest \in Nat, quot \in Nat : Sofar(n, rest, quot)
    BY <1>6 DEF Divided, Iterate
  <2>2. r < WordSize
    <3>1. counter \in 1..Width /\ Width - counter \in Nat /\ Width \in Nat
      BY <1>6, SlotAssumption DEF InTime, Iterate
    <3>2. WordSize = Pow2[counter] * Pow2[Width - counter]
      BY <3>1, Pow2Sum DEF WordSize
    <3>3. Pow2[counter] \in Nat \ {0} /\ Pow2[Width - counter] \in Nat
      BY <3>1, Pow2Positive
    <3>4. 1 * Pow2[Width - counter] <= Pow2[counter] * Pow2[Width - counter]
      BY <3>3, MulMono
    <3>5. d = 0 => r = n /\ n < Pow2[Width - counter]
      BY <2>1 DEF Sofar
    <3>6. d # 0 => r < d
      BY <2>1 DEF Sofar
    <3> QED BY <3>2, <3>3, <3>4, <3>5, <3>6, <1>3 DEF TypeOK, Words
  <2>3. /\ r' = IF d <= Comes THEN Comes - d ELSE Comes
        /\ q' = 2 * q - Bit * WordSize + (IF d <= Comes THEN 1 ELSE 0)
    BY <1>6, <2>2, IterationStep
  <2>4. /\ r \in 0..(WordSize - 1) /\ q \in 0..(WordSize - 1) /\ d \in 0..(WordSize - 1)
        /\ Bit \in {0, 1} /\ (Bit = 1 <=> 2 * q >= WordSize)
    BY <1>3, <2>2, WidthPowers DEF TypeOK, Words, Bit
  <2>5. r' \in 0..(Pow2[Width + 1] - 1)
    <3>1. Comes \in 0..(2 * WordSize - 1) /\ d \in Nat
      BY <2>4, WidthPowers DEF Comes
    <3> QED BY <2>3, <3>1, WidthPowers
  <2>6. q' \in Words
    <3> DEFINE half == Pow2[Width - 1]
    <3>1. half \in Nat /\ WordSize = 2 * half
      BY WidthPowers
    <3>2. 2 * q - Bit * WordSize \in 0..(WordSize - 2)
      <4>1. CASE Bit = 0
        BY <4>1, <3>1, <2>4
      <4>2. CASE Bit = 1
        BY <4>2, <3>1, <2>4
      <4> QED BY <4>1, <4>2, <2>4
    <3> QED BY <2>3, <3>2, WidthPowers DEF Words
  <2>7. counter' \in 0..Width /\ running' \in BOOLEAN /\ donePulse' \in BOOLEAN
    BY <1>6, SlotAssumption DEF Iterate, InTime
  <2> QED BY <1>1, <1>2, <1>4, <1>6, <2>5, <2>6, <2>7 DEF Iterate, TypeOK
<1>7. CASE Rest
  BY <1>1, <1>2, <1>4, <1>7 DEF Rest, TypeOK
<1> QED BY <1>5, <1>6, <1>7 DEF Next

LEMMA NextCaptured == ASSUME DividerInv, Next PROVE Captured'
<1>1. CASE StartDivision
  BY <1>1 DEF StartDivision, Captured, Start, Division, DividerInv, TypeOK
<1>2. CASE Iterate
  BY <1>2 DEF Iterate, Captured, DividerInv
<1>3. CASE Rest
  BY <1>3 DEF Rest, Captured
<1> QED BY <1>1, <1>2, <1>3 DEF Next

LEMMA NextInTime == ASSUME DividerInv, Next PROVE InTime' /\ SlotFree'
<1> USE DEF DividerInv, InTime
<1>1. Division' => gap' = DIV_BUSY_CYCLES
  BY IssueEx DEF Next, Division, Allowed
<1>2. ex' # None /\ ~ Division' => GapAfter # DIV_BUSY_CYCLES \/ Settled
  BY IssueEx DEF Next, Division, Allowed
<1>3. gap' = GapAfter /\ Width \in Nat /\ Width >= 2 /\ gap \in 1..(Width + 1)
  BY IssueEx, SlotAssumption DEF Next, TypeOK, DIV_BUSY_CYCLES
<1>4. CASE StartDivision
  <2>1. running' /\ ~ donePulse' /\ counter' = Width /\ gap' = 1
    BY <1>3, <1>4 DEF StartDivision, Start, GapAfter
  <2> QED BY <2>1, <1>1, <1>3 DEF SlotFree, DIV_BUSY_CYCLES
<1>5. CASE Iterate
  <2>1. ~ Division
    BY <1>5 DEF Iterate, SlotFree
  <2>2. gap < DIV_BUSY_CYCLES /\ gap' = gap + 1 /\ counter \in 1..Width /\ gap + counter = Width + 1
    BY <1>3, <1>5, <2>1 DEF Iterate, GapAfter, DIV_BUSY_CYCLES
  <2>3. counter' = counter - 1 /\ (running' <=> counter # 1) /\ (donePulse' <=> counter = 1)
    BY <1>5 DEF Iterate
  <2>4. ~ Settled
    BY <2>2, <1>3 DEF Settled, DIV_BUSY_CYCLES
  <2> QED BY <1>1, <1>2, <1>3, <2>2, <2>3, <2>4 DEF SlotFree, DIV_BUSY_CYCLES
<1>6. CASE Rest
  BY <1>1, <1>6 DEF Rest, SlotFree
<1> QED BY <1>4, <1>5, <1>6 DEF Next

LEMMA NextDivided == ASSUME DividerInv, Next PROVE Divided' /\ RemainderFits'
<1>1. CASE StartDivision
  <2>1. ex \in Operations /\ Width \in Nat
    BY <1>1, SlotAssumption DEF StartDivision, Start, Division, DividerInv, TypeOK
  <2>2. PICK dividend \in Words : dividend = Dividend(ex)
    BY <2>1, OperationFields
  <2>3. ex.b \in Words /\ dividend \in Nat /\ dividend < Pow2[Width] /\ Width - Width = 0
    BY <2>1, <2>2, OperationFields, WidthPowers DEF Words, WordSize
  <2>4. /\ counter' = Width /\ r' = 0 /\ q' = dividend /\ d' = ex.b /\ asked' = ex
    BY <1>1, <2>2 DEF StartDivision
  <2>5. Sofar(0, dividend, 0)'
    <3>1. Dividend(asked') = dividend
      BY <2>2, <2>4
    <3>2. 0 * Pow2[Width] = 0 /\ dividend * 1 = dividend /\ 0 * ex.b = 0
      BY <2>3, <2>1, Pow2Defined DEF Words
    <3>3. Pow2[Width - counter'] = 1
      BY <2>3, <2>4, Pow2Defined
    <3>4. ex.b \in Nat
      BY <2>3, WidthPowers DEF Words
    <3> QED BY <2>3, <2>4, <3>1, <3>2, <3>3, <3>4 DEF Sofar
  <2>6. RemainderFits'
    BY <2>3, <2>4, WidthPowers DEF RemainderFits, Words
  <2> QED BY <2>3, <2>5, <2>6 DEF Divided
<1>2. CASE Iterate
  <2>1. PICK n \in Nat, rest \in Nat, quot \in Nat : Sofar(n, rest, quot)'
    BY <1>2, IterateDivides
  <2>2. RemainderFits'
    BY <2>1 DEF Sofar, RemainderFits
  <2> QED BY <2>1, <2>2 DEF Divided
<1>3. CASE Rest
  <2>1. ~ running' /\ ~ donePulse' /\ r' = r /\ d' = d
    BY <1>3 DEF Rest
  <2> QED BY <2>1 DEF Divided, RemainderFits, DividerInv
<1> QED BY <1>1, <1>2, <1>3 DEF Next

LEMMA StutterInv == ASSUME DividerInv, UNCHANGED vars PROVE DividerInv'
BY DEF DividerInv, vars, divider, TypeOK, Captured, InTime, Divided, Sofar, Dividend, RemainderFits,
       SlotFree, Division

LEMMA SpecInv == Spec => []DividerInv
<1>1. DividerInv /\ [Next]_vars => DividerInv'
  BY NextTypeOK, NextCaptured, NextInTime, NextDivided, StutterInv DEF DividerInv
<1> QED BY InitInv, <1>1, PTL DEF Spec

(* Every register of a slot stays within its width.                        *)
THEOREM SpecTypeOK == Spec => []TypeOK
<1>1. DividerInv => TypeOK
  BY DEF DividerInv
<1> QED BY <1>1, SpecInv, PTL

(* With the window the scheduler keeps, whatever the width, no division    *)
(* meets a running divider and no other result an answer.                  *)
THEOREM SpecSlotFree == Spec => []SlotFree
<1>1. DividerInv => SlotFree
  BY DEF DividerInv
<1> QED BY <1>1, SpecInv, PTL

(* The partial remainder is always below the divisor.                      *)
THEOREM SpecRemainderFits == Spec => []RemainderFits
<1>1. DividerInv => RemainderFits
  BY DEF DividerInv
<1> QED BY <1>1, SpecInv, PTL

-----------------------------------------------------------------------------
(* The registers of a divider that is done hold quotient and remainder.    *)
LEMMA QuotientUnique ==
    ASSUME NEW a \in Nat, NEW b \in Nat \ {0}, NEW x \in Nat, NEW y \in Nat,
           a = x * b + y, y < b
    PROVE  x = a \div b /\ y = a % b
BY SMT

LEMMA DoneMeansDivided ==
    ASSUME DividerInv, donePulse
    PROVE  DivResult = Computed(asked.name, asked.a, asked.b)
<1>1. PICK n \in Nat, rest \in Nat, quot \in Nat : Sofar(n, rest, quot)
  BY DEF DividerInv, Divided
<1>2. counter = 0 /\ Width \in Nat /\ Width - 0 = Width
  BY SlotAssumption DEF DividerInv, InTime
<1>3. Pow2[0] = 1 /\ WordSize \in Nat /\ Pow2[Width] = WordSize
  BY Pow2Defined, WidthPowers DEF WordSize
<1>4. asked \in Operations /\ asked.name \in Divisions /\ divCapMode = asked.name /\ d = asked.b
  BY DEF DividerInv, Captured, IsDiv
<1>5. PICK dividend \in Nat : dividend = Dividend(asked) /\ dividend < WordSize
  BY <1>4, OperationFields, WidthPowers DEF Words
<1>6. n = dividend /\ q = quot
  <2>1. rest = 0
    BY <1>1, <1>2, <1>3 DEF Sofar
  <2>2. dividend = n * 1 + 0 /\ q = 0 * WordSize + quot
    BY <1>1, <1>2, <1>3, <1>5, <2>1 DEF Sofar
  <2>3. n * 1 = n /\ 0 * WordSize = 0
    BY <1>3
  <2> QED BY <2>2, <2>3
<1>7. q = Quotient(dividend, d) /\ r = Remainder(dividend, d)
  <2>1. CASE d = 0
    BY <1>1, <1>2, <1>3, <1>6, <2>1 DEF Sofar, Quotient, Remainder
  <2>2. CASE d # 0
    <3>1. d \in Nat \ {0} /\ r \in Nat
      BY <2>2, WidthPowers DEF DividerInv, TypeOK, Words
    <3>2. dividend = quot * d + r /\ r < d
      BY <1>1, <1>6, <2>2 DEF Sofar
    <3>3. quot = dividend \div d /\ r = dividend % d
      BY <3>1, <3>2, QuotientUnique
    <3> QED BY <2>2, <3>3, <1>6 DEF Quotient, Remainder
  <2> QED BY <2>1, <2>2
<1>8. r % WordSize = r
  <2>1. r \in 0..(WordSize - 1)
    <3>1. CASE d = 0
      BY <1>1, <1>2, <1>3, <1>6, <1>5, <3>1 DEF Sofar
    <3>2. CASE d # 0
      BY <3>2, <1>3, WidthPowers DEF DividerInv, RemainderFits, TypeOK, Words
    <3> QED BY <3>1, <3>2
  <2> QED BY <2>1, <1>3
<1>9. CASE asked.name = "mod"
  <2>1. dividend = asked.a
    BY <1>5, <1>9 DEF Dividend
  <2> QED BY <1>4, <1>7, <1>8, <1>9, <2>1 DEF DivResult, Computed
<1>10. CASE asked.name = "div"
  <2>1. dividend = asked.a
    BY <1>5, <1>10 DEF Dividend
  <2> QED BY <1>4, <1>7, <1>10, <2>1 DEF DivResult, Computed
<1>11. CASE asked.name = "cdiv"
  <2>1. dividend = (asked.a + asked.b - 1) % WordSize
    BY <1>5, <1>11 DEF Dividend
  <2> QED BY <1>4, <1>7, <1>11, <2>1 DEF DivResult, Computed
<1> QED BY <1>4, <1>9, <1>10, <1>11 DEF Divisions

LEMMA InitRefines == Init => Unit!Init
BY DEF Init, Fly, Unit!Init

LEMMA QuotientBelow ==
    ASSUME NEW a \in Nat, NEW b \in Nat \ {0}
    PROVE  a \div b \in Nat /\ a \div b <= a /\ a % b \in Nat /\ a % b <= a
<1>1. a \div b \in Nat /\ a % b \in Nat /\ a = b * (a \div b) + (a % b)
  BY SMT
<1>2. 1 * (a \div b) <= b * (a \div b)
  BY <1>1, MulMono
<1> QED BY <1>1, <1>2

LEMMA ComputedIsWord == \A op \in Operations : Computed(op.name, op.a, op.b) \in Words
<1> TAKE op \in Operations
<1>1. op.a \in Words /\ op.b \in Words /\ WordSize \in Nat /\ WordSize >= 4
  BY OperationFields, WidthPowers
<1>2. \A a, b \in Words : Quotient(a, b) \in Words /\ Remainder(a, b) \in Words
  <2> TAKE a \in Words, b \in Words
  <2>1. CASE b = 0
    BY <1>1, <2>1 DEF Words, Quotient, Remainder
  <2>2. CASE b # 0
    <3>1. a \in Nat /\ b \in Nat \ {0} /\ a < WordSize
      BY <1>1, <2>2 DEF Words
    <3> QED BY <1>1, <2>2, <3>1, QuotientBelow DEF Words, Quotient, Remainder
  <2> QED BY <2>1, <2>2
<1>3. (op.a + op.b - 1) % WordSize \in Words
  BY <1>1 DEF Words
<1> QED BY <1>1, <1>2, <1>3 DEF Computed

(* Where a result is promised, the machine's is the exact one.             *)
LEMMA ComputedIsPromised ==
    \A op \in Operations : Computed(op.name, op.a, op.b) \in Results(op.name, op.a, op.b)
<1> TAKE op \in Operations
<1>1. op.a \in Nat /\ op.b \in Nat /\ WordSize \in Nat
  BY OperationFields, WidthPowers DEF Words
<1>2. CASE Promised(op.name, op.a, op.b) /\ op.name = "cdiv"
  <2>1. op.b # 0 /\ op.a + op.b <= WordSize
    BY <1>2 DEF Promised, IsDiv, Divisions
  <2>2. (op.a + op.b - 1) % WordSize = op.a + op.b - 1
    BY <1>1, <2>1
  <2> QED BY <1>2, <2>1, <2>2 DEF Results, Computed, Exact, Quotient
<1>3. CASE Promised(op.name, op.a, op.b) /\ op.name # "cdiv"
  BY <1>3 DEF Promised, Results, Computed, Exact, Quotient, Remainder, IsDiv, Divisions
<1>4. CASE ~ Promised(op.name, op.a, op.b)
  BY <1>4, ComputedIsWord DEF Results
<1> QED BY <1>2, <1>3, <1>4

LEMMA UnderWayIsSome ==
    ASSUME DividerInv, running \/ donePulse, NEW left \in 0..Width
    PROVE  UnderWay(left) # None
<1>1. asked \in Operations
  BY DEF DividerInv, Captured
<1>2. asked.dest \in Dests /\ Computed(asked.name, asked.a, asked.b) \in Words
  BY <1>1, OperationFields, ComputedIsWord
<1>3. UnderWay(left) \in [dest : Dests, value : Words, left : 0..Width]
  BY <1>2 DEF UnderWay
<1> QED BY <1>3, SlotAssumption

(* Free units are those that do not run; an answer comes when done.        *)
LEMMA UnitState ==
    ASSUME DividerInv
    PROVE  /\ Unit!Answer <=> donePulse
           /\ Unit!Free <=> ~ running
           /\ Unit!Division <=> Division
<1>1. /\ Width \in Nat /\ counter \in 0..Width /\ 0 \in 0..Width
      /\ running => counter # 0 /\ ~ donePulse
  BY SlotAssumption DEF DividerInv, TypeOK, InTime
<1>2. CASE running
  <2>1. Fly = UnderWay(counter) /\ Fly # None /\ Fly.left = counter
    BY <1>1, <1>2, UnderWayIsSome DEF Fly, UnderWay
  <2> QED BY <1>1, <1>2, <2>1 DEF Unit!Answer, Unit!Free, Unit!Division, Division
<1>3. CASE ~ running /\ donePulse
  <2>1. Fly = UnderWay(0) /\ Fly # None /\ Fly.left = 0
    BY <1>1, <1>3, UnderWayIsSome DEF Fly, UnderWay
  <2> QED BY <1>1, <1>3, <2>1 DEF Unit!Answer, Unit!Free, Unit!Division, Division
<1>4. CASE ~ running /\ ~ donePulse
  BY <1>4 DEF Fly, Unit!Answer, Unit!Free, Unit!Division, Division
<1> QED BY <1>2, <1>3, <1>4

LEMMA StepRefines == ASSUME DividerInv, DividerInv', Next PROVE Unit!Next
<1>1. Width \in Nat /\ Width >= 2 /\ ex' \in Operations \cup {None} /\ (Width + 1) - 1 = Width
  BY SlotAssumption, IssueEx DEF Next
<1>2. Unit!Write
  <2>1. CASE donePulse
    <3>1. Fly = UnderWay(0)
      BY <2>1 DEF Fly, DividerInv, InTime
    <3>2. Unit!Answer
      BY <2>1, UnitState
    <3>3. port' = [dest |-> divCapDest, value |-> DivResult] /\ divCapDest = asked.dest
      BY <2>1 DEF Next, WriteRequest, DividerInv, Captured
    <3> QED BY <3>1, <3>2, <3>3, <2>1, DoneMeansDivided DEF Unit!Write, UnderWay
  <2>2. CASE ~ donePulse /\ ex # None /\ ~ Division
    <3>1. ex \in Operations /\ ex.name \notin Divisions
      BY <2>2 DEF DividerInv, TypeOK, Division, IsDiv
    <3>2. Results(ex.name, ex.a, ex.b) = {ex.a}
      BY <3>1 DEF Results, Promised, Exact, IsDiv, Divisions
    <3> QED BY <2>2, <3>2, UnitState DEF Next, WriteRequest, Unit!Write, Unit!Values
  <2>3. CASE ~ donePulse /\ ~ (ex # None /\ ~ Division)
    BY <2>3, UnitState DEF Next, WriteRequest, Unit!Write
  <2> QED BY <2>1, <2>2, <2>3
<1>3. CASE StartDivision
  <2>1. Unit!Division /\ Unit!Free
    BY <1>3, UnitState DEF StartDivision, Start
  <2>2. Fly' = [dest |-> ex.dest, value |-> Computed(ex.name, ex.a, ex.b), left |-> Width]
    BY <1>3 DEF StartDivision, Fly, UnderWay
  <2>3. Computed(ex.name, ex.a, ex.b) \in Results(ex.name, ex.a, ex.b)
    BY <1>3, ComputedIsPromised DEF StartDivision, Start, Division, DividerInv, TypeOK
  <2> QED BY <1>1, <1>2, <2>1, <2>2, <2>3 DEF Unit!Next, Unit!Begin, Unit!Values
<1>4. CASE Iterate
  <2>1. ~ Unit!Free /\ Fly = UnderWay(counter) /\ asked' = asked
    BY <1>4, UnitState DEF Iterate, Fly
  <2>2. Fly' = UnderWay(counter - 1)
    BY <1>4, <2>1 DEF Iterate, Fly, UnderWay, DividerInv, InTime
  <2>3. Fly' = [Fly EXCEPT !.left = @ - 1]
    BY <2>1, <2>2 DEF UnderWay
  <2> QED BY <1>1, <1>2, <2>1, <2>3 DEF Unit!Next, Unit!Work
<1>5. CASE Rest
  <2>1. ~ Unit!Division /\ Unit!Free
    BY <1>5, UnitState DEF Rest, Start
  <2>2. Fly' = None
    BY <1>5 DEF Rest, Fly
  <2> QED BY <1>1, <1>2, <2>1, <2>2 DEF Unit!Next, Unit!Rest
<1> QED BY <1>3, <1>4, <1>5 DEF Next

(* The divider implements the unit it stands for: every division is        *)
(* answered Width + 1 cycles after it at its destination, for every width  *)
(* and every pair of operands, and wherever the code promises a result the *)
(* answer is the golden model's quotient, ceiling or remainder.            *)
THEOREM DividerInTime == Spec => DividesInTime
<1>1. DividerInv /\ DividerInv' /\ [Next]_vars => [Unit!Next]_(Unit!vars)
  <2>1. ASSUME UNCHANGED vars PROVE UNCHANGED Unit!vars
    BY <2>1 DEF vars, divider, Unit!vars, Fly, UnderWay
  <2> QED BY <2>1, StepRefines
<1> QED BY <1>1, InitRefines, SpecInv, PTL DEF Spec, DividesInTime, Unit!Spec
=============================================================================

--------------------------- MODULE ScratchLayout ---------------------------
(***************************************************************************)
(* Where the kernel compiler puts a buffer in scratch memory:              *)
(* ScratchAllocator of tools/dsl/lowering.py, without its state.  A buffer *)
(* has a size and an alignment in words and, if the kernel asks for one,   *)
(* a base address.                                                         *)
(***************************************************************************)
EXTENDS Integers

CONSTANTS
    ScratchSize,    \* words of scratch memory of the target
    VectorAlign,    \* vector_alignment_words: max(vlen, scratch_banks)
    NoBase            \* scratch_base is None

ASSUME ScratchAssumption ==
    /\ ScratchSize \in Nat
    /\ VectorAlign \in Nat \ {0}
    /\ NoBase \notin Int

(* A buffer as the allocator sees it.                                      *)
ScratchBuffer ==
    [vector: BOOLEAN, size: Nat \ {0}, align: Nat \ {0}, base: Nat \cup {NoBase}]

-----------------------------------------------------------------------------
AlignUp(value, align) == ((value + align - 1) \div align) * align

\* Mutant of Alignment: the declared alignment counts alone.
AlignmentDeclared(buf) == buf.align

Alignment(buf) ==
    IF buf.vector /\ VectorAlign > buf.align THEN VectorAlign ELSE buf.align

(* The base of a buffer when next is the first address not handed out.     *)
BaseOf(buf, next) ==
    IF buf.base # NoBase THEN buf.base ELSE AlignUp(next, Alignment(buf))

EndOf(buf, next) == BaseOf(buf, next) + buf.size

Fits(buf, next) == EndOf(buf, next) <= ScratchSize

\* Mutant of NextAfter: an explicit base moves the next address back.
NextAfterLast(buf, next) == EndOf(buf, next)

NextAfter(buf, next) ==
    IF buf.base # NoBase /\ EndOf(buf, next) < next THEN next ELSE EndOf(buf, next)
=============================================================================

---------------------- MODULE ScratchAllocatorProofs -----------------------
(***************************************************************************)
(* For every scratch size, every row length and every menu of buffers: the *)
(* ranges the allocator hands out lie within scratch memory, a buffer it   *)
(* places by itself shares no word with an earlier one, and a vector it    *)
(* places starts on a row.                                                 *)
(***************************************************************************)
EXTENDS ScratchAllocator, TLAPS

(* The allocator only ever moves its next address past the buffers placed. *)
AllBelowNext == \A i \in 1..Len(placed) : placed[i].end <= nextAddr

IInv == TypeOK /\ AllBelowNext /\ AutoClearOfEarlier /\ VectorsAligned

----------------------------------------------------------------------------
(* Rounding up gives no smaller address, and a multiple of the alignment.  *)
LEMMA AlignUpReaches ==
  ASSUME NEW value \in Nat, NEW align \in Nat \ {0}
  PROVE  /\ AlignUp(value, align) \in Nat
         /\ AlignUp(value, align) >= value
         /\ \E rows \in Nat : AlignUp(value, align) = rows * align
<1> DEFINE q == (value + align - 1) \div align
           r == (value + align - 1) % align
<1>1. q \in Nat /\ r \in 0..(align - 1) /\ value + align - 1 = align * q + r
  <2>1. value + align - 1 \in Nat
    OBVIOUS
  <2>2. \A n \in Nat : \A a \in Nat \ {0} :
          n \div a \in Nat /\ n % a \in 0..(a - 1) /\ n = a * (n \div a) + (n % a)
    OBVIOUS
  <2> QED
    BY <2>1, <2>2
<1>2. align * q \in Nat /\ q * align = align * q
  BY <1>1
<1>3. align * q >= value
  BY <1>1, <1>2
<1> QED
  BY <1>1, <1>2, <1>3 DEF AlignUp

(* The alignment of a vector is a whole number of rows.                    *)
LEMMA VectorRows ==
  ASSUME NEW buf \in Menu, buf.vector
  PROVE  \E rows \in Nat : Alignment(buf) = rows * VectorAlign
<1>1. CASE buf.align > VectorAlign
  BY <1>1, RowsAssumption, MenuAssumption, ScratchAssumption DEF Alignment, ScratchBuffer
<1>2. CASE VectorAlign > buf.align
  <2>1. Alignment(buf) = 1 * VectorAlign
    BY <1>2, ScratchAssumption DEF Alignment
  <2> QED
    BY <2>1
<1>3. CASE buf.align = VectorAlign
  <2>1. Alignment(buf) = 1 * VectorAlign
    BY <1>3, ScratchAssumption DEF Alignment
  <2> QED
    BY <2>1
<1> QED
  BY <1>1, <1>2, <1>3, MenuAssumption, ScratchAssumption DEF ScratchBuffer

LEMMA AlignmentType ==
  ASSUME NEW buf \in Menu
  PROVE  Alignment(buf) \in Nat \ {0}
BY MenuAssumption, ScratchAssumption DEF Alignment, ScratchBuffer

LEMMA MultipleOfRow ==
  ASSUME NEW m \in Nat, NEW n \in Nat, NEW a \in Nat \ {0}
  PROVE  (m * (n * a)) % a = 0
<1>1. m * (n * a) = (m * n) * a
  OBVIOUS
<1>2. m * n \in Nat
  OBVIOUS
<1>3. \A k \in Nat : (k * a) % a = 0
  OBVIOUS
<1> QED
  BY <1>1, <1>2, <1>3

(* A buffer that fits gets a range within scratch memory, and if it is     *)
(* placed automatically, one that begins at the next address or later.     *)
LEMMA PlacedRange ==
  ASSUME NEW buf \in Menu, NEW next \in 0..ScratchSize, Fits(buf, next)
  PROVE  /\ BaseOf(buf, next) \in 0..ScratchSize
         /\ EndOf(buf, next) \in 0..ScratchSize
         /\ buf.base = NoBase => BaseOf(buf, next) >= next
<1>1. buf.size \in Nat \ {0} /\ buf.base \in Nat \cup {NoBase}
  BY MenuAssumption DEF ScratchBuffer
<1>2. BaseOf(buf, next) \in Nat /\ (buf.base = NoBase => BaseOf(buf, next) >= next)
  BY <1>1, AlignmentType, AlignUpReaches, ScratchAssumption DEF BaseOf
<1>3. EndOf(buf, next) <= ScratchSize /\ EndOf(buf, next) = BaseOf(buf, next) + buf.size
  BY DEF Fits, EndOf
<1> QED
  BY <1>1, <1>2, <1>3, ScratchAssumption

(* A vector placed automatically starts on a row.                          *)
LEMMA PlacedOnRow ==
  ASSUME NEW buf \in Menu, NEW next \in 0..ScratchSize, buf.vector, buf.base = NoBase
  PROVE  BaseOf(buf, next) % VectorAlign = 0
<1>1. BaseOf(buf, next) = AlignUp(next, Alignment(buf))
  BY DEF BaseOf
<1>2. PICK m \in Nat : AlignUp(next, Alignment(buf)) = m * Alignment(buf)
  <2> DEFINE a == Alignment(buf)
  <2>1. a \in Nat \ {0} /\ next \in Nat
    BY AlignmentType, ScratchAssumption
  <2> HIDE DEF a
  <2>2. \E m \in Nat : AlignUp(next, a) = m * a
    BY <2>1, AlignUpReaches
  <2> QED
    BY <2>2 DEF a
<1>3. PICK n \in Nat : Alignment(buf) = n * VectorAlign
  BY VectorRows
<1> QED
  BY <1>1, <1>2, <1>3, MultipleOfRow, ScratchAssumption

----------------------------------------------------------------------------
LEMMA InitIInv == Init => IInv
<1> SUFFICES ASSUME Init PROVE IInv
  OBVIOUS
<1>1. placed = <<>> /\ Len(placed) = 0 /\ placed \in Seq(Placement)
  BY DEF Init
<1>2. TypeOK
  <2>1. nextAddr \in 0..ScratchSize
    BY ScratchAssumption DEF Init
  <2>2. refused \in BOOLEAN
    BY Zenon DEF Init
  <2> QED
    BY <1>1, <2>1, <2>2 DEF TypeOK
<1>3. AllBelowNext /\ AutoClearOfEarlier /\ VectorsAligned
  BY <1>1 DEF AllBelowNext, AutoClearOfEarlier, VectorsAligned
<1> QED
  BY <1>2, <1>3 DEF IInv

LEMMA PlaceIInv ==
  ASSUME IInv, NEW buf \in Menu, Place(buf)
  PROVE  IInv'
<1> DEFINE p == Placed(buf)
<1>1. /\ placed \in Seq(Placement) /\ nextAddr \in 0..ScratchSize /\ refused = FALSE
      /\ placed' = Append(placed, p) /\ nextAddr' = NextAfter(buf, nextAddr)
      /\ refused' = refused /\ Fits(buf, nextAddr)
  BY DEF Place, IInv, TypeOK
<1>2. /\ p.auto = (buf.base = NoBase) /\ p.vector = buf.vector
      /\ p.first = BaseOf(buf, nextAddr) /\ p.end = EndOf(buf, nextAddr)
  BY DEF Placed
<1>3. p \in Placement /\ (p.auto => p.first >= nextAddr)
  BY <1>1, <1>2, PlacedRange, MenuAssumption DEF Placed, Placement, ScratchBuffer
<1>4. nextAddr' \in 0..ScratchSize /\ nextAddr' >= nextAddr /\ nextAddr' >= p.end
  <2>1. EndOf(buf, nextAddr) \in 0..ScratchSize
    BY <1>1, PlacedRange
  <2>2. CASE buf.base # NoBase
    BY <1>1, <1>2, <2>1, <2>2, ScratchAssumption DEF NextAfter
  <2>3. CASE buf.base = NoBase
    <3>1. EndOf(buf, nextAddr) >= nextAddr
      <4>1. EndOf(buf, nextAddr) = BaseOf(buf, nextAddr) + buf.size
        BY DEF EndOf
      <4>2. BaseOf(buf, nextAddr) >= nextAddr /\ BaseOf(buf, nextAddr) \in 0..ScratchSize
        BY <1>1, <2>3, PlacedRange
      <4> QED
        BY <1>1, <4>1, <4>2, MenuAssumption, ScratchAssumption DEF ScratchBuffer
    <3> QED
      BY <1>1, <1>2, <2>1, <2>3, <3>1, ScratchAssumption DEF NextAfter
  <2> QED
    BY <2>2, <2>3
<1>5. /\ Len(placed') = Len(placed) + 1 /\ Len(placed) \in Nat
      /\ placed'[Len(placed) + 1] = p
      /\ \A i \in 1..Len(placed) : placed'[i] = placed[i] /\ placed[i] \in Placement
  BY <1>1, <1>3
<1> HIDE DEF p
<1>6. TypeOK'
  <2>1. Append(placed, p) \in Seq(Placement)
    BY <1>1, <1>3
  <2> QED
    BY <2>1, <1>1, <1>4 DEF TypeOK
<1>7. AllBelowNext'
  <2> SUFFICES ASSUME NEW i \in 1..Len(placed')
               PROVE  placed'[i].end <= nextAddr'
    BY DEF AllBelowNext
  <2>1. CASE i = Len(placed) + 1
    BY <2>1, <1>4, <1>5
  <2>2. CASE i \in 1..Len(placed)
    BY <2>2, <1>1, <1>4, <1>5, ScratchAssumption DEF IInv, AllBelowNext, Placement
  <2> QED
    BY <2>1, <2>2, <1>5
<1>8. AutoClearOfEarlier'
  <2> SUFFICES ASSUME NEW j \in 1..Len(placed'), placed'[j].auto, NEW i \in 1..(j - 1)
               PROVE  Apart(placed'[i], placed'[j])
    BY DEF AutoClearOfEarlier
  <2>1. CASE j = Len(placed) + 1
    <3>1. i \in 1..Len(placed) /\ placed'[i] = placed[i] /\ placed'[j] = p
      BY <2>1, <1>5
    <3>2. placed[i].end <= nextAddr /\ p.first >= nextAddr
      BY <2>1, <3>1, <1>3 DEF IInv, AllBelowNext
    <3> QED
      BY <3>1, <3>2, <1>1, <1>3, <1>5, ScratchAssumption DEF Apart, Placement
  <2>2. CASE j \in 1..Len(placed)
    BY <2>2, <1>5 DEF IInv, AutoClearOfEarlier, Apart
  <2> QED
    BY <2>1, <2>2, <1>5
<1>9. VectorsAligned'
  <2> SUFFICES ASSUME NEW i \in 1..Len(placed'), placed'[i].auto, placed'[i].vector
               PROVE  placed'[i].first % VectorAlign = 0
    BY DEF VectorsAligned
  <2>1. CASE i = Len(placed) + 1
    <3>1. buf.vector /\ buf.base = NoBase /\ placed'[i].first = BaseOf(buf, nextAddr)
      BY <2>1, <1>2, <1>5
    <3> QED
      BY <3>1, <1>1, PlacedOnRow
  <2>2. CASE i \in 1..Len(placed)
    BY <2>2, <1>5 DEF IInv, VectorsAligned
  <2> QED
    BY <2>1, <2>2, <1>5
<1> QED
  BY <1>6, <1>7, <1>8, <1>9 DEF IInv

LEMMA NextIInv == IInv /\ [Next]_vars => IInv'
<1> SUFFICES ASSUME IInv, [Next]_vars
             PROVE  IInv'
  OBVIOUS
<1>1. ASSUME NEW buf \in Menu, Place(buf) PROVE IInv'
  BY <1>1, PlaceIInv
<1>2. ASSUME NEW buf \in Menu, Refuse(buf) PROVE IInv'
  BY <1>2 DEF Refuse, IInv, TypeOK, AllBelowNext, AutoClearOfEarlier, VectorsAligned, Apart
<1>3. CASE UNCHANGED vars
  BY <1>3 DEF vars, IInv, TypeOK, AllBelowNext, AutoClearOfEarlier, VectorsAligned, Apart
<1> QED
  BY <1>1, <1>2, <1>3 DEF Next

LEMMA SpecIInv == Spec => []IInv
BY InitIInv, NextIInv, PTL DEF Spec

----------------------------------------------------------------------------
(* allocate_all hands out ranges within the scratch memory of the target,  *)
(* whatever mixture of automatic and explicit bases a kernel declares.     *)
THEOREM SpecTypeOK == Spec => []TypeOK
<1>1. IInv => TypeOK
  BY DEF IInv
<1> QED
  BY <1>1, SpecIInv, PTL

(* _allocate_buffer never puts a buffer without a base over one that was   *)
(* placed before it.                                                       *)
THEOREM SpecAutoClearOfEarlier == Spec => []AutoClearOfEarlier
<1>1. IInv => AutoClearOfEarlier
  BY DEF IInv
<1> QED
  BY <1>1, SpecIInv, PTL

(* _allocate_buffer starts every vector it places on a row of the banks.   *)
THEOREM SpecVectorsAligned == Spec => []VectorsAligned
<1>1. IInv => VectorsAligned
  BY DEF IInv
<1> QED
  BY <1>1, SpecIInv, PTL
=============================================================================

------------------------- MODULE BundleCodecProofs --------------------------
(***************************************************************************)
(* For every number of slots and every menu of operations that the         *)
(* scheduler's constructors can build: the decoder finds in the bundle     *)
(* what the operations meant.                                              *)
(***************************************************************************)
EXTENDS BundleCodec, TLAPS

-----------------------------------------------------------------------------
(* Bits of a number.                                                       *)

(* A power with a variable for its exponent, one value at a time.          *)
LEMMA PowerOf ==
    ASSUME NEW j
    PROVE
        /\ (j = 0 => 2^j = 2^0) /\ (j = 1 => 2^j = 2^1) /\ (j = 2 => 2^j = 2^2)
        /\ (j = 3 => 2^j = 2^3) /\ (j = 4 => 2^j = 2^4) /\ (j = 5 => 2^j = 2^5)
        /\ (j = 6 => 2^j = 2^6) /\ (j = 7 => 2^j = 2^7) /\ (j = 8 => 2^j = 2^8)
        /\ (j = 9 => 2^j = 2^9) /\ (j = 10 => 2^j = 2^10) /\ (j = 11 => 2^j = 2^11)
        /\ (j = 12 => 2^j = 2^12) /\ (j = 13 => 2^j = 2^13) /\ (j = 14 => 2^j = 2^14)
        /\ (j = 15 => 2^j = 2^15) /\ (j = 16 => 2^j = 2^16) /\ (j = 17 => 2^j = 2^17)
        /\ (j = 18 => 2^j = 2^18) /\ (j = 19 => 2^j = 2^19) /\ (j = 20 => 2^j = 2^20)
        /\ (j = 21 => 2^j = 2^21) /\ (j = 22 => 2^j = 2^22) /\ (j = 23 => 2^j = 2^23)
        /\ (j = 24 => 2^j = 2^24) /\ (j = 25 => 2^j = 2^25) /\ (j = 26 => 2^j = 2^26)
        /\ (j = 27 => 2^j = 2^27) /\ (j = 28 => 2^j = 2^28) /\ (j = 29 => 2^j = 2^29)
        /\ (j = 30 => 2^j = 2^30)
BY Zenon

LEMMA Powers ==
    ASSUME NEW j, NEW p, p = 2^j
    PROVE
        /\ (j = 0 => p = 1) /\ (j = 1 => p = 2) /\ (j = 2 => p = 4)
        /\ (j = 3 => p = 8) /\ (j = 4 => p = 16) /\ (j = 5 => p = 32)
        /\ (j = 6 => p = 64) /\ (j = 7 => p = 128) /\ (j = 8 => p = 256)
        /\ (j = 9 => p = 512) /\ (j = 10 => p = 1024) /\ (j = 11 => p = 2048)
        /\ (j = 12 => p = 4096) /\ (j = 13 => p = 8192) /\ (j = 14 => p = 16384)
        /\ (j = 15 => p = 32768) /\ (j = 16 => p = 65536) /\ (j = 17 => p = 131072)
        /\ (j = 18 => p = 262144) /\ (j = 19 => p = 524288) /\ (j = 20 => p = 1048576)
        /\ (j = 21 => p = 2097152) /\ (j = 22 => p = 4194304) /\ (j = 23 => p = 8388608)
        /\ (j = 24 => p = 16777216) /\ (j = 25 => p = 33554432) /\ (j = 26 => p = 67108864)
        /\ (j = 27 => p = 134217728) /\ (j = 28 => p = 268435456) /\ (j = 29 => p = 536870912)
        /\ (j = 30 => p = 1073741824)
BY PowerOf

LEMMA PowersRise ==
    ASSUME NEW w \in 0..30, NEW k \in 0..30, w <= k, NEW p, p = 2^w, NEW q, q = 2^k
    PROVE  p \in Nat /\ q \in Nat /\ p >= 1 /\ p <= q
<1>1.
        /\ (w = 0 => p = 1) /\ (w = 1 => p = 2) /\ (w = 2 => p = 4)
        /\ (w = 3 => p = 8) /\ (w = 4 => p = 16) /\ (w = 5 => p = 32)
        /\ (w = 6 => p = 64) /\ (w = 7 => p = 128) /\ (w = 8 => p = 256)
        /\ (w = 9 => p = 512) /\ (w = 10 => p = 1024) /\ (w = 11 => p = 2048)
        /\ (w = 12 => p = 4096) /\ (w = 13 => p = 8192) /\ (w = 14 => p = 16384)
        /\ (w = 15 => p = 32768) /\ (w = 16 => p = 65536) /\ (w = 17 => p = 131072)
        /\ (w = 18 => p = 262144) /\ (w = 19 => p = 524288) /\ (w = 20 => p = 1048576)
        /\ (w = 21 => p = 2097152) /\ (w = 22 => p = 4194304) /\ (w = 23 => p = 8388608)
        /\ (w = 24 => p = 16777216) /\ (w = 25 => p = 33554432) /\ (w = 26 => p = 67108864)
        /\ (w = 27 => p = 134217728) /\ (w = 28 => p = 268435456) /\ (w = 29 => p = 536870912)
        /\ (w = 30 => p = 1073741824)
  BY Powers
<1>2.
        /\ (k = 0 => q = 1) /\ (k = 1 => q = 2) /\ (k = 2 => q = 4)
        /\ (k = 3 => q = 8) /\ (k = 4 => q = 16) /\ (k = 5 => q = 32)
        /\ (k = 6 => q = 64) /\ (k = 7 => q = 128) /\ (k = 8 => q = 256)
        /\ (k = 9 => q = 512) /\ (k = 10 => q = 1024) /\ (k = 11 => q = 2048)
        /\ (k = 12 => q = 4096) /\ (k = 13 => q = 8192) /\ (k = 14 => q = 16384)
        /\ (k = 15 => q = 32768) /\ (k = 16 => q = 65536) /\ (k = 17 => q = 131072)
        /\ (k = 18 => q = 262144) /\ (k = 19 => q = 524288) /\ (k = 20 => q = 1048576)
        /\ (k = 21 => q = 2097152) /\ (k = 22 => q = 4194304) /\ (k = 23 => q = 8388608)
        /\ (k = 24 => q = 16777216) /\ (k = 25 => q = 33554432) /\ (k = 26 => q = 67108864)
        /\ (k = 27 => q = 134217728) /\ (k = 28 => q = 268435456) /\ (k = 29 => q = 536870912)
        /\ (k = 30 => q = 1073741824)
  BY Powers
<1>3. p \in Nat /\ q \in Nat /\ p >= 1
  BY <1>1, <1>2
<1>4. p <= q
  BY <1>1, <1>2
<1> QED BY <1>3, <1>4

(* A number below 2^w has no bit from w on: packing it into a field of w   *)
(* bits loses nothing.                                                     *)
LEMMA Fits ==
    ASSUME NEW w \in 0..30, NEW p, p = 2^w, NEW v \in 0..(p - 1)
    PROVE  PackBits(v, 32) = PackBits(v, w)
<1>1. ASSUME NEW k \in w..31 PROVE ~ BitOf(v, k)
  <2>1. CASE k > 30
    <3>1. p \in Nat
      BY PowersRise
    <3> QED BY <2>1, <3>1 DEF BitOf
  <2>2. CASE k <= 30
    <3> DEFINE q == 2^k
    <3>0. w \in 0..30 /\ k \in 0..30 /\ w <= k /\ p = 2^w /\ q = 2^k
      BY <2>2
    <3> HIDE DEF q
    <3>1. p \in Nat /\ q \in Nat /\ p >= 1 /\ p <= q
      BY <3>0, PowersRise, Zenon
    <3>2. v \in Nat /\ v < q
      BY <3>1
    <3>3. v \div q = 0
      BY <3>1, <3>2
    <3>4. (v \div q) % 2 # 1
      BY <3>3
    <3>5. BitOf(v, k) <=> (v \div q) % 2 = 1
      BY <2>2, <3>0 DEF BitOf
    <3> QED BY <3>4, <3>5
  <2> QED BY <2>1, <2>2
<1> QED BY <1>1 DEF PackBits

LEMMA SmallNumbers ==
    /\ \A v \in 0..1 : PackBits(v, 32) = PackBits(v, 1)
    /\ \A v \in 0..7 : PackBits(v, 32) = PackBits(v, 3)
    /\ \A v \in 0..15 : PackBits(v, 32) = PackBits(v, 4)
    /\ \A v \in 0..31 : PackBits(v, 32) = PackBits(v, 5)
    /\ \A v \in 0..63 : PackBits(v, 32) = PackBits(v, 6)
    /\ \A v \in 0..1023 : PackBits(v, 32) = PackBits(v, 10)
    /\ \A v \in 0..2047 : PackBits(v, 32) = PackBits(v, 11)
<1>1. ASSUME NEW w \in {1, 3, 4, 5, 6, 10, 11}, NEW n \in Nat,
             w = 1 => n = 2, w = 3 => n = 8, w = 4 => n = 16, w = 5 => n = 32,
             w = 6 => n = 64, w = 10 => n = 1024, w = 11 => n = 2048
      PROVE  \A v \in 0..(n - 1) : PackBits(v, 32) = PackBits(v, w)
  <2> DEFINE p == 2^w
  <2>1. (w = 1 => p = 2) /\ (w = 3 => p = 8) /\ (w = 4 => p = 16) /\ (w = 5 => p = 32)
        /\ (w = 6 => p = 64) /\ (w = 10 => p = 1024) /\ (w = 11 => p = 2048)
    BY Powers
  <2>2. p = n
    <3> HIDE DEF p
    <3> QED BY <2>1, <1>1
  <2>3. p = 2^w /\ w \in 0..30
    OBVIOUS
  <2> HIDE DEF p
  <2>4. \A v \in 0..(p - 1) : PackBits(v, 32) = PackBits(v, w)
    BY <2>3, Fits
  <2> QED BY <2>2, <2>4
<1>2. \A v \in 0..(2 - 1) : PackBits(v, 32) = PackBits(v, 1)
  BY <1>1
<1>3. \A v \in 0..(8 - 1) : PackBits(v, 32) = PackBits(v, 3)
  BY <1>1
<1>4. \A v \in 0..(16 - 1) : PackBits(v, 32) = PackBits(v, 4)
  BY <1>1
<1>5. \A v \in 0..(32 - 1) : PackBits(v, 32) = PackBits(v, 5)
  BY <1>1
<1>6. \A v \in 0..(64 - 1) : PackBits(v, 32) = PackBits(v, 6)
  BY <1>1
<1>7. \A v \in 0..(1024 - 1) : PackBits(v, 32) = PackBits(v, 10)
  BY <1>1
<1>8. \A v \in 0..(2048 - 1) : PackBits(v, 32) = PackBits(v, 11)
  BY <1>1
<1> QED BY <1>2, <1>3, <1>4, <1>5, <1>6, <1>7, <1>8

LEMMA RegisterBits ==
    ASSUME NEW v, v \in 0..2047
    PROVE  PackBits(v, 11) = PackBits(v, 32)
BY SmallNumbers

LEMMA TileBits ==
    ASSUME NEW v, v \in 0..15
    PROVE  PackBits(v, 4) = PackBits(v, 32)
BY SmallNumbers

LEMMA FlagBits ==
    ASSUME NEW v, v \in 0..63
    PROVE  PackBits(v, 6) = PackBits(v, 32)
BY SmallNumbers

(* The low bits of a negative number are those of its residue.             *)
LEMMA LowBits ==
    ASSUME NEW v \in Int
    PROVE  PackBits(v, 10) = PackBits(v % 1024, 10)
<1> DEFINE u == v % 1024
           h == v \div 1024
<1>1. u \in 0..1023 /\ h \in Int /\ v = 1024 * h + u
  OBVIOUS
<1>2. ASSUME NEW k \in 0..9 PROVE BitOf(v, k) <=> BitOf(u, k)
  <2> DEFINE p == 2^k
  <2>1. /\ (k = 0 => p = 1) /\ (k = 1 => p = 2) /\ (k = 2 => p = 4) /\ (k = 3 => p = 8)
        /\ (k = 4 => p = 16) /\ (k = 5 => p = 32) /\ (k = 6 => p = 64)
        /\ (k = 7 => p = 128) /\ (k = 8 => p = 256) /\ (k = 9 => p = 512)
    BY Powers
  <2> HIDE DEF p, u, h
  <2>2. (v \div p) % 2 = (u \div p) % 2
    <3>1. CASE k = 0
      <4>1. p = 1
        BY <3>1, <2>1
      <4>2. v \div 1 = 1024 * h + u \div 1
        BY <1>1
      <4> QED BY <1>1, <4>1, <4>2
    <3>2. CASE k = 1
      <4>1. p = 2
        BY <3>2, <2>1
      <4>2. v \div 2 = 512 * h + u \div 2
        BY <1>1
      <4> QED BY <1>1, <4>1, <4>2
    <3>3. CASE k = 2
      <4>1. p = 4
        BY <3>3, <2>1
      <4>2. v \div 4 = 256 * h + u \div 4
        BY <1>1
      <4> QED BY <1>1, <4>1, <4>2
    <3>4. CASE k = 3
      <4>1. p = 8
        BY <3>4, <2>1
      <4>2. v \div 8 = 128 * h + u \div 8
        BY <1>1
      <4> QED BY <1>1, <4>1, <4>2
    <3>5. CASE k = 4
      <4>1. p = 16
        BY <3>5, <2>1
      <4>2. v \div 16 = 64 * h + u \div 16
        BY <1>1
      <4> QED BY <1>1, <4>1, <4>2
    <3>6. CASE k = 5
      <4>1. p = 32
        BY <3>6, <2>1
      <4>2. v \div 32 = 32 * h + u \div 32
        BY <1>1
      <4> QED BY <1>1, <4>1, <4>2
    <3>7. CASE k = 6
      <4>1. p = 64
        BY <3>7, <2>1
      <4>2. v \div 64 = 16 * h + u \div 64
        BY <1>1
      <4> QED BY <1>1, <4>1, <4>2
    <3>8. CASE k = 7
      <4>1. p = 128
        BY <3>8, <2>1
      <4>2. v \div 128 = 8 * h + u \div 128
        BY <1>1
      <4> QED BY <1>1, <4>1, <4>2
    <3>9. CASE k = 8
      <4>1. p = 256
        BY <3>9, <2>1
      <4>2. v \div 256 = 4 * h + u \div 256
        BY <1>1
      <4> QED BY <1>1, <4>1, <4>2
    <3>10. CASE k = 9
      <4>1. p = 512
        BY <3>10, <2>1
      <4>2. v \div 512 = 2 * h + u \div 512
        BY <1>1
      <4> QED BY <1>1, <4>1, <4>2
    <3> QED BY <3>1, <3>2, <3>3, <3>4, <3>5, <3>6, <3>7, <3>8, <3>9, <3>10
  <2> QED BY <2>2 DEF BitOf, p
<1> QED BY <1>2 DEF PackBits, u

-----------------------------------------------------------------------------
(* Where the slots lie.                                                   *)

LEMMA Counts ==
  /\ Count.alu \in Nat /\ Count.valu \in Nat /\ Count.load \in Nat
  /\ Count.store \in Nat /\ Count.matrix \in Nat /\ Count.flow \in Nat
BY CodecAssumption DEF Engines

LEMMA EngineStarts ==
  LET c == Count
      b == Behind(Taken)
  IN  /\ b.alu = 0
      /\ b.valu = c.alu * 41
      /\ b.load = c.alu * 41 + c.valu * 57
      /\ b.store = c.alu * 41 + c.valu * 57 + c.load * 49
      /\ b.matrix = c.alu * 41 + c.valu * 57 + c.load * 49 + c.store * 29
      /\ b.flow = c.alu * 41 + c.valu * 57 + c.load * 49 + c.store * 29 + c.matrix * 65
      /\ b.end = c.alu * 41 + c.valu * 57 + c.load * 49 + c.store * 29 + c.matrix * 65
                   + c.flow * 49
<1>1. Taken.alu = Count.alu * 41 /\ Taken.valu = Count.valu * 57 /\ Taken.load = Count.load * 49
      /\ Taken.store = Count.store * 29 /\ Taken.matrix = Count.matrix * 65
      /\ Taken.flow = Count.flow * 49
  BY DEF Taken, SlotWidth, Engines
<1> QED BY <1>1 DEF Behind


LEMMA Starts ==
  ASSUME NEW i
  PROVE  /\ Start("alu", i) = 0 + (i - 1) * 41
         /\ Start("valu", i) = Count.alu * 41 + (i - 1) * 57
         /\ Start("load", i) = Count.alu * 41 + Count.valu * 57 + (i - 1) * 49
         /\ Start("store", i) = Count.alu * 41 + Count.valu * 57 + Count.load * 49 + (i - 1) * 29
         /\ Start("matrix", i) =
              Count.alu * 41 + Count.valu * 57 + Count.load * 49 + Count.store * 29 + (i - 1) * 65
         /\ Start("flow", i) =
              Count.alu * 41 + Count.valu * 57 + Count.load * 49 + Count.store * 29
                + Count.matrix * 65 + (i - 1) * 49
<1>1. /\ SlotWidth.alu = 41 /\ SlotWidth.valu = 57 /\ SlotWidth.load = 49
      /\ SlotWidth.store = 29 /\ SlotWidth.matrix = 65 /\ SlotWidth.flow = 49
  BY DEF SlotWidth
<1> QED BY <1>1, EngineStarts DEF Start


LEMMA WidthOfAll ==
  RawWidth = Count.alu * 41 + Count.valu * 57 + Count.load * 49 + Count.store * 29
               + Count.matrix * 65 + Count.flow * 49
BY EngineStarts DEF RawWidth

LEMMA DecoderAgrees ==
  ASSUME NEW e \in Engines, NEW i \in Int
  PROVE  BitOffset(e, i) = Start(e, i)
BY Starts, Counts DEF BitOffset, HardwareSlotWidth, Engines

LEMMA BundleHolds ==
  BundleWidth \in Nat /\ RawWidth \in Nat /\ RawWidth <= BundleWidth /\ BundleWidth % 32 = 0
<1>1. RawWidth \in Nat
  BY WidthOfAll, Counts
<1> QED BY <1>1 DEF BundleWidth

LEMMA SlotsApart ==
  ASSUME NEW e \in Engines, NEW g \in Engines, NEW i \in 1..Count[e], NEW j \in 1..Count[g]
  PROVE  /\ Start(e, i) \in Nat /\ Start(e, i) + SlotWidth[e] <= BundleWidth
         /\ (e = g /\ i = j) \/ Start(e, i) + SlotWidth[e] <= Start(g, j)
                             \/ Start(g, j) + SlotWidth[g] <= Start(e, i)
<1>0. i \in Int /\ j \in Int /\ i >= 1 /\ j >= 1 /\ i <= Count[e] /\ j <= Count[g]
  BY CodecAssumption
<1>1. Start(e, i) \in Nat /\ Start(e, i) + SlotWidth[e] <= RawWidth
  BY <1>0, Starts, WidthOfAll, Counts DEF Engines, SlotWidth
<1>2. (e = g /\ i = j) \/ Start(e, i) + SlotWidth[e] <= Start(g, j)
                       \/ Start(g, j) + SlotWidth[g] <= Start(e, i)
  <2>1. CASE e = "alu"
    BY <2>1, <1>0, Starts, Counts DEF Engines, SlotWidth
  <2>2. CASE e = "valu"
    BY <2>2, <1>0, Starts, Counts DEF Engines, SlotWidth
  <2>3. CASE e = "load"
    BY <2>3, <1>0, Starts, Counts DEF Engines, SlotWidth
  <2>4. CASE e = "store"
    BY <2>4, <1>0, Starts, Counts DEF Engines, SlotWidth
  <2>5. CASE e = "matrix"
    BY <2>5, <1>0, Starts, Counts DEF Engines, SlotWidth
  <2>6. CASE e = "flow"
    BY <2>6, <1>0, Starts, Counts DEF Engines, SlotWidth
  <2> QED BY <2>1, <2>2, <2>3, <2>4, <2>5, <2>6 DEF Engines
<1>3. SlotWidth[e] \in Nat
  BY DEF SlotWidth, Engines
<1> QED BY <1>1, <1>2, <1>3, BundleHolds

LEMMA JoinedAgain ==
  ASSUME NEW b \in SUBSET (0..(BundleWidth - 1))
  PROVE  Join(Words(b)) = b
<1> DEFINE n == BundleWidth \div 32
<1>1. BundleWidth = 32 * n /\ n \in Nat
  BY BundleHolds
<1>2. DOMAIN Words(b) = 0..(n - 1)
  BY DEF Words
<1>3. \A x \in 0..(n - 1) : Words(b)[x] = {k \in 0..31 : k + 32 * x \in b}
  BY DEF Words, Field
<1> HIDE DEF n
<1>4. ASSUME NEW k \in Join(Words(b)) PROVE k \in b
  <2>1. PICK x \in 0..(n - 1) : k \in Shift(Words(b)[x], 32 * x)
    BY <1>2, <1>4 DEF Join
  <2>2. PICK c \in Words(b)[x] : k = c + 32 * x
    BY <2>1 DEF Shift
  <2> QED BY <2>2, <1>3
<1>5. ASSUME NEW k \in b PROVE k \in Join(Words(b))
  <2> DEFINE x == k \div 32
             c == k % 32
  <2>1. k \in Int /\ 0 <= k /\ k < 32 * n
    BY <1>1
  <2>2. x \in 0..(n - 1) /\ c \in 0..31 /\ k = c + 32 * x
    BY <2>1, <1>1
  <2> HIDE DEF x, c
  <2>3. c \in Words(b)[x]
    BY <2>2, <1>3
  <2>4. k \in Shift(Words(b)[x], 32 * x)
    BY <2>2, <2>3 DEF Shift
  <2> QED BY <2>2, <2>4, <1>2 DEF Join
<1> QED BY <1>4, <1>5

-----------------------------------------------------------------------------
(* What the encoders pack.                                                 *)

LEMMA PackField ==
  ASSUME NEW n \in Nat, NEW fields, DOMAIN fields = 1..n,
         \A k \in 1..n : fields[k][2] \in Nat /\ fields[k][3] \in Nat,
         \A j, k \in 1..n : j < k => fields[k][3] + fields[k][2] <= fields[j][3],
         NEW k \in 1..n
  PROVE  Field(Pack(fields), fields[k][3], fields[k][2]) = PackBits(fields[k][1], fields[k][2])
<1> DEFINE w == fields[k][2]  p == fields[k][3]
<1>1. \A j \in 1..n : PackBits(fields[j][1], fields[j][2]) \subseteq 0..(fields[j][2] - 1)
  BY DEF PackBits
<1>2. ASSUME NEW c \in 0..(w - 1)
      PROVE  c + p \in Pack(fields) <=> c \in PackBits(fields[k][1], w)
  <2>1. c \in PackBits(fields[k][1], w) => c + p \in Pack(fields)
    <3> SUFFICES ASSUME c \in PackBits(fields[k][1], w) PROVE c + p \in Pack(fields)
      OBVIOUS
    <3>1. c + p \in Shift(PackBits(fields[k][1], w), p)
      BY DEF Shift
    <3> HIDE DEF w, p
    <3> QED BY <3>1 DEF Pack, w, p
  <2>2. ASSUME c + p \in Pack(fields) PROVE c \in PackBits(fields[k][1], w)
    <3>1. PICK j \in 1..n : c + p \in Shift(PackBits(fields[j][1], fields[j][2]), fields[j][3])
      BY <2>2 DEF Pack
    <3>2. PICK b \in PackBits(fields[j][1], fields[j][2]) : c + p = b + fields[j][3]
      BY <3>1 DEF Shift
    <3>3. b \in 0..(fields[j][2] - 1)
      BY <1>1, <3>2
    <3>4. j = k
      <4> DEFINE q == fields[j][3]  v == fields[j][2]
      <4>1. p \in Nat /\ q \in Nat /\ w \in Nat /\ v \in Nat /\ c \in Int /\ b \in Int
        BY <3>3
      <4>2. b >= 0 /\ b < v /\ c >= 0 /\ c < w /\ c + p = b + q
        BY <3>2, <3>3, <4>1
      <4>3. (j < k => p + w <= q) /\ (k < j => q + v <= p)
        OBVIOUS
      <4> HIDE DEF p, q, w, v
      <4>4. ~ (j < k) /\ ~ (k < j)
        BY <4>1, <4>2, <4>3
      <4> QED BY <4>4
    <3> QED BY <3>2, <3>3, <3>4
  <2> QED BY <2>1, <2>2
<1> QED BY <1>1, <1>2 DEF Field

LEMMA PackWithin ==
  ASSUME NEW n \in Nat, NEW fields, DOMAIN fields = 1..n, NEW m \in Nat,
         \A k \in 1..n : fields[k][2] \in Nat /\ fields[k][3] \in Nat
                         /\ fields[k][2] + fields[k][3] <= m
  PROVE  Pack(fields) \subseteq 0..(m - 1)
<1> SUFFICES ASSUME NEW k \in 1..n, NEW b \in PackBits(fields[k][1], fields[k][2])
             PROVE  b + fields[k][3] \in 0..(m - 1)
  BY DEF Pack, Shift
<1> DEFINE w == fields[k][2]  p == fields[k][3]
<1>1. b \in 0..(w - 1)
  BY DEF PackBits
<1>2. w \in Nat /\ p \in Nat /\ w + p <= m
  OBVIOUS
<1> HIDE DEF w, p
<1>3. b + p \in 0..(m - 1)
  BY <1>1, <1>2
<1> QED BY <1>3 DEF p

LEMMA AluBits ==
    ASSUME NEW t,
           NEW bits, bits = EncodeAlu(t)
    PROVE  /\ Field(bits, 40, 1) = PackBits(1, 1)
           /\ Field(bits, 35, 5) = PackBits(AssemblerOpcodes.alu[t[1]], 5)
           /\ Field(bits, 24, 11) = PackBits(t[2], 11)
           /\ Field(bits, 13, 11) = PackBits(t[3], 11)
           /\ Field(bits, 2, 11) = PackBits(t[4], 11)
           /\ bits \subseteq 0..40
<1> DEFINE F == << <<1, 1, 40>>, <<AssemblerOpcodes.alu[t[1]], 5, 35>>, <<t[2], 11, 24>>,
                 <<t[3], 11, 13>>, <<t[4], 11, 2>> >>
<1>1. /\ DOMAIN F = 1..5
      /\ \A k \in 1..5 : F[k][2] \in Nat /\ F[k][3] \in Nat /\ F[k][2] + F[k][3] <= 41
      /\ \A j, k \in 1..5 : j < k => F[k][3] + F[k][2] <= F[j][3]
  OBVIOUS
<1> HIDE DEF F
<1>2. \A k \in 1..5 : Field(Pack(F), F[k][3], F[k][2]) = PackBits(F[k][1], F[k][2])
  BY <1>1, PackField
<1>3. Pack(F) = bits
  BY DEF F, EncodeAlu
<1>4. Pack(F) \subseteq 0..(41 - 1)
  BY <1>1, PackWithin
<1> QED BY <1>2, <1>3, <1>4 DEF F

LEMMA ValuBits ==
    ASSUME NEW name, NEW opcode, NEW d, NEW a, NEW b, NEW c, NEW ew, NEW dw, NEW sgn,
           opcode = IF name \in DOMAIN ValuExtraOpcodes THEN ValuExtraOpcodes[name]
                                                        ELSE AssemblerOpcodes.alu[name],
           NEW bits, bits = EncodeValuSlot(name, d, a, b, c, ew, dw, sgn)
    PROVE  /\ Field(bits, 56, 1) = PackBits(1, 1)
           /\ Field(bits, 51, 5) = PackBits(opcode, 5)
           /\ Field(bits, 40, 11) = PackBits(d, 11)
           /\ Field(bits, 29, 11) = PackBits(a, 11)
           /\ Field(bits, 18, 11) = PackBits(b, 11)
           /\ Field(bits, 7, 11) = PackBits(c, 11)
           /\ Field(bits, 4, 3) = PackBits(ew, 3)
           /\ Field(bits, 1, 3) = PackBits(dw, 3)
           /\ Field(bits, 0, 1) = PackBits(sgn, 1)
           /\ bits \subseteq 0..56
<1> DEFINE F == << <<1, 1, 56>>, <<opcode, 5, 51>>, <<d, 11, 40>>,
                 <<a, 11, 29>>, <<b, 11, 18>>, <<c, 11, 7>>,
                 <<ew, 3, 4>>, <<dw, 3, 1>>, <<sgn, 1, 0>> >>
<1>1. /\ DOMAIN F = 1..9
      /\ \A k \in 1..9 : F[k][2] \in Nat /\ F[k][3] \in Nat /\ F[k][2] + F[k][3] <= 57
      /\ \A j, k \in 1..9 : j < k => F[k][3] + F[k][2] <= F[j][3]
  OBVIOUS
<1> HIDE DEF F
<1>2. \A k \in 1..9 : Field(Pack(F), F[k][3], F[k][2]) = PackBits(F[k][1], F[k][2])
  BY <1>1, PackField
<1>3. Pack(F) = bits
  BY DEF F, EncodeValuSlot
<1>4. Pack(F) \subseteq 0..(57 - 1)
  BY <1>1, PackWithin
<1> QED BY <1>2, <1>3, <1>4 DEF F

LEMMA ConstBits ==
    ASSUME NEW t, t[1] = "const",
           NEW bits, bits = EncodeLoad(t)
    PROVE  /\ Field(bits, 48, 1) = PackBits(1, 1)
           /\ Field(bits, 44, 4) = PackBits(AssemblerOpcodes.load[t[1]], 4)
           /\ Field(bits, 33, 11) = PackBits(t[2], 11)
           /\ Field(bits, 0, 32) = PackBits(t[3], 32)
           /\ bits \subseteq 0..48
<1> DEFINE F == << <<1, 1, 48>>, <<AssemblerOpcodes.load[t[1]], 4, 44>>, <<t[2], 11, 33>>,
                 <<t[3], 32, 0>> >>
<1>1. /\ DOMAIN F = 1..4
      /\ \A k \in 1..4 : F[k][2] \in Nat /\ F[k][3] \in Nat /\ F[k][2] + F[k][3] <= 49
      /\ \A j, k \in 1..4 : j < k => F[k][3] + F[k][2] <= F[j][3]
  OBVIOUS
<1> HIDE DEF F
<1>2. \A k \in 1..4 : Field(Pack(F), F[k][3], F[k][2]) = PackBits(F[k][1], F[k][2])
  BY <1>1, PackField
<1>3. Pack(F) = bits
  BY DEF F, EncodeLoad
<1>4. Pack(F) \subseteq 0..(49 - 1)
  BY <1>1, PackWithin
<1> QED BY <1>2, <1>3, <1>4 DEF F

LEMMA LoadBits ==
    ASSUME NEW name, NEW d, NEW a, NEW off,
           NEW bits, bits = EncodeLoadSlot(name, d, a, off)
    PROVE  /\ Field(bits, 48, 1) = PackBits(1, 1)
           /\ Field(bits, 44, 4) = PackBits(AssemblerOpcodes.load[name], 4)
           /\ Field(bits, 33, 11) = PackBits(d, 11)
           /\ Field(bits, 22, 11) = PackBits(a, 11)
           /\ Field(bits, 19, 3) = PackBits(off, 3)
           /\ bits \subseteq 0..48
<1> DEFINE F == << <<1, 1, 48>>, <<AssemblerOpcodes.load[name], 4, 44>>, <<d, 11, 33>>,
                 <<a, 11, 22>>, <<off, 3, 19>> >>
<1>1. /\ DOMAIN F = 1..5
      /\ \A k \in 1..5 : F[k][2] \in Nat /\ F[k][3] \in Nat /\ F[k][2] + F[k][3] <= 49
      /\ \A j, k \in 1..5 : j < k => F[k][3] + F[k][2] <= F[j][3]
  OBVIOUS
<1> HIDE DEF F
<1>2. \A k \in 1..5 : Field(Pack(F), F[k][3], F[k][2]) = PackBits(F[k][1], F[k][2])
  BY <1>1, PackField
<1>3. Pack(F) = bits
  BY DEF F, EncodeLoadSlot
<1>4. Pack(F) \subseteq 0..(49 - 1)
  BY <1>1, PackWithin
<1> QED BY <1>2, <1>3, <1>4 DEF F

LEMMA StoreBits ==
    ASSUME NEW t,
           NEW bits, bits = EncodeStore(t)
    PROVE  /\ Field(bits, 28, 1) = PackBits(1, 1)
           /\ Field(bits, 25, 3) = PackBits(AssemblerOpcodes.store[t[1]], 3)
           /\ Field(bits, 14, 11) = PackBits(t[2], 11)
           /\ Field(bits, 3, 11) = PackBits(t[3], 11)
           /\ bits \subseteq 0..28
<1> DEFINE F == << <<1, 1, 28>>, <<AssemblerOpcodes.store[t[1]], 3, 25>>, <<t[2], 11, 14>>,
                 <<t[3], 11, 3>> >>
<1>1. /\ DOMAIN F = 1..4
      /\ \A k \in 1..4 : F[k][2] \in Nat /\ F[k][3] \in Nat /\ F[k][2] + F[k][3] <= 29
      /\ \A j, k \in 1..4 : j < k => F[k][3] + F[k][2] <= F[j][3]
  OBVIOUS
<1> HIDE DEF F
<1>2. \A k \in 1..4 : Field(Pack(F), F[k][3], F[k][2]) = PackBits(F[k][1], F[k][2])
  BY <1>1, PackField
<1>3. Pack(F) = bits
  BY DEF F, EncodeStore
<1>4. Pack(F) \subseteq 0..(29 - 1)
  BY <1>1, PackWithin
<1> QED BY <1>2, <1>3, <1>4 DEF F

LEMMA FlowBits ==
    ASSUME NEW name, NEW d, NEW a, NEW b, NEW imm,
           NEW bits, bits = EncodeFlowSlot(name, d, a, b, imm)
    PROVE  /\ Field(bits, 48, 1) = PackBits(1, 1)
           /\ Field(bits, 43, 5) = PackBits(AssemblerOpcodes.flow[name], 5)
           /\ Field(bits, 32, 11) = PackBits(d, 11)
           /\ Field(bits, 21, 11) = PackBits(a, 11)
           /\ Field(bits, 10, 11) = PackBits(b, 11)
           /\ Field(bits, 0, 10) = PackBits(imm, 10)
           /\ bits \subseteq 0..48
<1> DEFINE F == << <<1, 1, 48>>, <<AssemblerOpcodes.flow[name], 5, 43>>, <<d, 11, 32>>,
                 <<a, 11, 21>>, <<b, 11, 10>>, <<imm, 10, 0>> >>
<1>1. /\ DOMAIN F = 1..6
      /\ \A k \in 1..6 : F[k][2] \in Nat /\ F[k][3] \in Nat /\ F[k][2] + F[k][3] <= 49
      /\ \A j, k \in 1..6 : j < k => F[k][3] + F[k][2] <= F[j][3]
  OBVIOUS
<1> HIDE DEF F
<1>2. \A k \in 1..6 : Field(Pack(F), F[k][3], F[k][2]) = PackBits(F[k][1], F[k][2])
  BY <1>1, PackField
<1>3. Pack(F) = bits
  BY DEF F, EncodeFlowSlot
<1>4. Pack(F) \subseteq 0..(49 - 1)
  BY <1>1, PackWithin
<1> QED BY <1>2, <1>3, <1>4 DEF F

LEMMA MatrixBits ==
    ASSUME NEW t, Len(t) = 8,
           NEW bits, bits = EncodeMatrix(t)
    PROVE  /\ Field(bits, 64, 1) = PackBits(1, 1)
           /\ Field(bits, 59, 5) = PackBits(AssemblerOpcodes.matrix[t[1]], 5)
           /\ Field(bits, 48, 11) = PackBits(t[2], 11)
           /\ Field(bits, 37, 11) = PackBits(t[3], 11)
           /\ Field(bits, 26, 11) = PackBits(t[4], 11)
           /\ Field(bits, 15, 11) = PackBits(t[5], 11)
           /\ Field(bits, 11, 4) = PackBits(t[6], 4)
           /\ Field(bits, 7, 4) = PackBits(t[7], 4)
           /\ Field(bits, 1, 6) = PackBits(t[8], 6)
           /\ bits \subseteq 0..64
<1> DEFINE F == << <<1, 1, 64>>, <<AssemblerOpcodes.matrix[t[1]], 5, 59>>, <<t[2], 11, 48>>,
                 <<t[3], 11, 37>>, <<t[4], 11, 26>>, <<t[5], 11, 15>>,
                 <<t[6], 4, 11>>, <<t[7], 4, 7>>, <<t[8], 6, 1>> >>
<1>1. /\ DOMAIN F = 1..9
      /\ \A k \in 1..9 : F[k][2] \in Nat /\ F[k][3] \in Nat /\ F[k][2] + F[k][3] <= 65
      /\ \A j, k \in 1..9 : j < k => F[k][3] + F[k][2] <= F[j][3]
  OBVIOUS
<1> HIDE DEF F
<1>2. \A k \in 1..9 : Field(Pack(F), F[k][3], F[k][2]) = PackBits(F[k][1], F[k][2])
  BY <1>1, PackField
<1>3. Pack(F) = bits
  BY DEF F, EncodeMatrix, Nth
<1>4. Pack(F) \subseteq 0..(65 - 1)
  BY <1>1, PackWithin
<1> QED BY <1>2, <1>3, <1>4 DEF F

-----------------------------------------------------------------------------
(* What a slot carries.                                                    *)

LEMMA AluTuple ==
    ASSUME NEW op, NEW t, t = ToTuple("alu", op)
    PROVE  /\ t[1] = op.name /\ t[2] = Par(op, "dest", 0)
           /\ t[3] = Par(op, "src1", 0) /\ t[4] = Par(op, "src2", 0)
<1>1. t = <<op.name>> \o <<Par(op, "dest", 0), Par(op, "src1", 0), Par(op, "src2", 0)>>
  BY DEF ToTuple, TupleFields
<1> QED BY <1>1

LEMMA StoreTuple ==
    ASSUME NEW op, NEW t, t = ToTuple("store", op)
    PROVE  t[1] = op.name /\ t[2] = Par(op, "addrReg", 0) /\ t[3] = Par(op, "srcReg", 0)
<1>1. t = <<op.name>> \o <<Par(op, "addrReg", 0), Par(op, "srcReg", 0)>>
  BY DEF ToTuple, TupleFields
<1> QED BY <1>1

LEMMA MatrixTuple ==
    ASSUME NEW op, NEW t, t = ToTuple("matrix", op)
    PROVE  /\ Len(t) = 8 /\ t[1] = op.name /\ t[2] = Par(op, "dest", 0)
           /\ t[3] = Par(op, "srcA", 0) /\ t[4] = Par(op, "srcB", 0)
           /\ t[5] = Par(op, "srcC", 0) /\ t[6] = Par(op, "tileRows", 8)
           /\ t[7] = Par(op, "tileCols", 8) /\ t[8] = Par(op, "flags", 0)
<1>1. t = <<op.name>> \o
          <<Par(op, "dest", 0), Par(op, "srcA", 0), Par(op, "srcB", 0), Par(op, "srcC", 0),
            Par(op, "tileRows", 8), Par(op, "tileCols", 8), Par(op, "flags", 0)>>
  BY DEF ToTuple, TupleFields
<1> QED BY <1>1

Carries(e, op) ==
    LET bits == Encode(e, ToTuple(e, op))
    IN  /\ bits \subseteq 0..(SlotWidth[e] - 1)
        /\ \A f \in LooksAt(e, op) :
              Field(bits, Layout[e][f][1], Layout[e][f][2]) = PackBits(Meant(e, op, f), 32)

(* The two sides give every operation the same opcode, and it fits.        *)
LEMMA OpcodesAgree ==
    ASSUME NEW op
    PROVE  /\ Buildable("alu", op) => AssemblerOpcodes.alu[op.name] = HardwareOpcodes.alu[op.name]
                                      /\ HardwareOpcodes.alu[op.name] \in 0..31
           /\ Buildable("load", op) => AssemblerOpcodes.load[op.name] = HardwareOpcodes.load[op.name]
                                      /\ HardwareOpcodes.load[op.name] \in 0..15
           /\ Buildable("store", op) => AssemblerOpcodes.store[op.name] = HardwareOpcodes.store[op.name]
                                      /\ HardwareOpcodes.store[op.name] \in 0..7
           /\ Buildable("matrix", op) => AssemblerOpcodes.matrix[op.name] = HardwareOpcodes.matrix[op.name]
                                      /\ HardwareOpcodes.matrix[op.name] \in 0..31
           /\ Buildable("flow", op) => AssemblerOpcodes.flow[op.name] = HardwareOpcodes.flow[op.name]
                                      /\ HardwareOpcodes.flow[op.name] \in 0..31
           /\ Buildable("valu", op) =>
                /\ HardwareOpcodes.valu[op.name] =
                     IF op.name \in DOMAIN ValuExtraOpcodes THEN ValuExtraOpcodes[op.name]
                                                            ELSE AssemblerOpcodes.alu[op.name]
                /\ HardwareOpcodes.valu[op.name] \in 0..31
<1>1. Buildable("alu", op) => op.name \in DOMAIN HardwareOpcodes.alu /\ op.name \notin DOMAIN ValuExtraOpcodes
  BY DEF Buildable
<1>2. Buildable("valu", op) => op.name \in DOMAIN HardwareOpcodes.valu
  BY DEF Buildable
<1>3. Buildable("load", op) => op.name \in DOMAIN HardwareOpcodes.load
  BY DEF Buildable
<1>4. Buildable("store", op) => op.name \in DOMAIN HardwareOpcodes.store
  BY DEF Buildable
<1>5. Buildable("matrix", op) => op.name \in DOMAIN HardwareOpcodes.matrix
  BY DEF Buildable
<1>6. Buildable("flow", op) => op.name \in DOMAIN HardwareOpcodes.flow
  BY DEF Buildable
<1> QED BY <1>1, <1>2, <1>3, <1>4, <1>5, <1>6
       DEF AssemblerOpcodes, HardwareOpcodes, LaneOpcodes, ValuExtraOpcodes

(* A parameter that is required is there, and it is of its values.         *)
LEMMA Given ==
    ASSUME NEW e, NEW op, Buildable(e, op), NEW key \in Required(e, op.name), NEW d
    PROVE  Par(op, key, d) = op.params[key] /\ Par(op, key, d) \in Values(op.name, key)
BY SMT DEF Buildable, Par

(* The values of the parameters.                                           *)
Registers == {"dest", "src1", "src2", "src3", "addrReg", "srcReg", "srcA", "srcB", "srcC",
              "operandA", "operandB"}
LEMMA RegisterValues ==
    ASSUME NEW name, NEW key \in Registers
    PROVE  Values(name, key) = 0..2047
<1>1. /\ Values(name, "dest") = 0..2047 /\ Values(name, "src1") = 0..2047
      /\ Values(name, "src2") = 0..2047 /\ Values(name, "src3") = 0..2047
      /\ Values(name, "addrReg") = 0..2047 /\ Values(name, "srcReg") = 0..2047
      /\ Values(name, "srcA") = 0..2047 /\ Values(name, "srcB") = 0..2047
      /\ Values(name, "srcC") = 0..2047 /\ Values(name, "operandA") = 0..2047
      /\ Values(name, "operandB") = 0..2047
  BY SMT DEF Values
<1> QED BY <1>1 DEF Registers

LEMMA FieldValues ==
    ASSUME NEW name
    PROVE  /\ Values(name, "offset") = 0..7
           /\ Values(name, "tileRows") = 0..15 /\ Values(name, "tileCols") = 0..15
           /\ Values(name, "flags") = 0..63
           /\ Values(name, "signed") = {0, 1} /\ Values(name, "upper") = {0, 1}
           /\ Values(name, "ewidth") = {4, 8, 16, 32, 64}
           /\ Values(name, "dwidth") = {4, 8, 16, 32, 64}
BY SMT DEF Values

LEMMA ImmediateValues ==
    ASSUME NEW name
    PROVE  /\ name \in {"add_imm", "cond_jump_rel"} => Values(name, "immediate") = Relative
           /\ name \notin {"const", "add_imm", "cond_jump_rel"} =>
                Values(name, "immediate") = 0..1023
<1>1. name \in {"add_imm", "cond_jump_rel"} => Values(name, "immediate") = Relative
  BY SMT DEF Values
<1>2. name \notin {"const", "add_imm", "cond_jump_rel"} => Values(name, "immediate") = 0..1023
  BY SMT DEF Values
<1> QED BY <1>1, <1>2

(* A register an operation must name is the number of a register.          *)
LEMMA GivenRegister ==
    ASSUME NEW e, NEW op, Buildable(e, op), NEW key \in Required(e, op.name) \cap Registers
    PROVE  Par(op, key, 0) \in 0..2047
<1>1. Par(op, key, 0) \in Values(op.name, key)
  BY Given
<1>2. Values(op.name, key) = 0..2047
  BY RegisterValues
<1> QED BY <1>1, <1>2

LEMMA AluCarries ==
    ASSUME NEW op, Buildable("alu", op)
    PROVE  Carries("alu", op)
<1> DEFINE t == ToTuple("alu", op)
           bits == EncodeAlu(t)
<1>1. /\ Par(op, "dest", 0) \in 0..2047 /\ Par(op, "src1", 0) \in 0..2047
      /\ Par(op, "src2", 0) \in 0..2047
  <2>1. Required("alu", op.name) = {"dest", "src1", "src2"}
    BY DEF Required
  <2> QED BY <2>1, GivenRegister DEF Registers
<1>2. t[1] = op.name /\ t[2] = Par(op, "dest", 0) /\ t[3] = Par(op, "src1", 0)
      /\ t[4] = Par(op, "src2", 0)
  BY AluTuple
<1>3. /\ Field(bits, 40, 1) = PackBits(1, 1)
      /\ Field(bits, 35, 5) = PackBits(AssemblerOpcodes.alu[t[1]], 5)
      /\ Field(bits, 24, 11) = PackBits(t[2], 11)
      /\ Field(bits, 13, 11) = PackBits(t[3], 11)
      /\ Field(bits, 2, 11) = PackBits(t[4], 11)
      /\ bits \subseteq 0..40
  BY AluBits
<1> HIDE DEF bits, t
<1>4. /\ Field(bits, 40, 1) = PackBits(1, 32)
      /\ Field(bits, 35, 5) = PackBits(HardwareOpcodes.alu[op.name], 32)
      /\ Field(bits, 24, 11) = PackBits(Par(op, "dest", 0), 32)
      /\ Field(bits, 13, 11) = PackBits(Par(op, "src1", 0), 32)
      /\ Field(bits, 2, 11) = PackBits(Par(op, "src2", 0), 32)
  <2>1. AssemblerOpcodes.alu[op.name] = HardwareOpcodes.alu[op.name]
        /\ HardwareOpcodes.alu[op.name] \in 0..31
    BY OpcodesAgree
  <2>2. PackBits(HardwareOpcodes.alu[op.name], 5) = PackBits(HardwareOpcodes.alu[op.name], 32)
    BY <2>1, SmallNumbers
  <2>3. PackBits(1, 1) = PackBits(1, 32)
    BY SmallNumbers
  <2>4. /\ PackBits(Par(op, "dest", 0), 11) = PackBits(Par(op, "dest", 0), 32)
        /\ PackBits(Par(op, "src1", 0), 11) = PackBits(Par(op, "src1", 0), 32)
        /\ PackBits(Par(op, "src2", 0), 11) = PackBits(Par(op, "src2", 0), 32)
    BY <1>1, RegisterBits, TileBits, FlagBits
  <2> QED BY <1>2, <1>3, <2>1, <2>2, <2>3, <2>4
<1>5. LooksAt("alu", op) = {"valid", "opcode", "dest", "src1", "src2"}
  BY DEF LooksAt, Layout
<1>6. /\ Layout.alu.valid = <<40, 1>> /\ Layout.alu.opcode = <<35, 5>>
      /\ Layout.alu.dest = <<24, 11>> /\ Layout.alu.src1 = <<13, 11>>
      /\ Layout.alu.src2 = <<2, 11>>
  BY DEF Layout
<1>7. /\ Meant("alu", op, "valid") = 1 /\ Meant("alu", op, "opcode") = HardwareOpcodes.alu[op.name]
      /\ Meant("alu", op, "dest") = Par(op, "dest", 0)
      /\ Meant("alu", op, "src1") = Par(op, "src1", 0)
      /\ Meant("alu", op, "src2") = Par(op, "src2", 0)
  <2>1. op.name # "vcast"
    BY DEF Buildable, ValuExtraOpcodes
  <2> QED BY <2>1 DEF Meant
<1>8. \A f \in LooksAt("alu", op) :
         Field(bits, Layout.alu[f][1], Layout.alu[f][2]) = PackBits(Meant("alu", op, f), 32)
  BY <1>4, <1>5, <1>6, <1>7
<1>9. Encode("alu", ToTuple("alu", op)) = bits /\ SlotWidth.alu = 41
  BY DEF Encode, SlotWidth, bits, t
<1>10. bits \subseteq 0..(SlotWidth.alu - 1)
  BY <1>3, <1>9
<1> QED BY <1>8, <1>9, <1>10 DEF Carries

LEMMA StoreCarries ==
    ASSUME NEW op, Buildable("store", op)
    PROVE  Carries("store", op)
<1> DEFINE t == ToTuple("store", op)
           bits == EncodeStore(t)
<1>1. /\ Par(op, "addrReg", 0) \in 0..2047
      /\ Par(op, "srcReg", 0) \in 0..2047
  <2>1. Required("store", op.name) = {"addrReg", "srcReg"}
    BY DEF Required
  <2> QED BY <2>1, GivenRegister DEF Registers
<1>2. /\ t[1] = op.name
      /\ t[2] = Par(op, "addrReg", 0)
      /\ t[3] = Par(op, "srcReg", 0)
  BY StoreTuple
<1>3. /\ Field(bits, 28, 1) = PackBits(1, 1)
      /\ Field(bits, 25, 3) = PackBits(AssemblerOpcodes.store[t[1]], 3)
      /\ Field(bits, 14, 11) = PackBits(t[2], 11)
      /\ Field(bits, 3, 11) = PackBits(t[3], 11)
      /\ bits \subseteq 0..28
  BY StoreBits
<1> HIDE DEF bits, t
<1>4. /\ Field(bits, 28, 1) = PackBits(1, 32)
      /\ Field(bits, 25, 3) = PackBits(HardwareOpcodes.store[op.name], 32)
      /\ Field(bits, 14, 11) = PackBits(Par(op, "addrReg", 0), 32)
      /\ Field(bits, 3, 11) = PackBits(Par(op, "srcReg", 0), 32)
  <2>1. AssemblerOpcodes.store[op.name] = HardwareOpcodes.store[op.name]
        /\ HardwareOpcodes.store[op.name] \in 0..7
    BY OpcodesAgree
  <2>2. PackBits(HardwareOpcodes.store[op.name], 3) = PackBits(HardwareOpcodes.store[op.name], 32)
    BY <2>1, SmallNumbers
  <2>3. PackBits(1, 1) = PackBits(1, 32)
    BY SmallNumbers
  <2>4. /\ PackBits(Par(op, "addrReg", 0), 11) = PackBits(Par(op, "addrReg", 0), 32)
        /\ PackBits(Par(op, "srcReg", 0), 11) = PackBits(Par(op, "srcReg", 0), 32)
    BY <1>1, RegisterBits, TileBits, FlagBits
  <2> QED BY <1>2, <1>3, <2>1, <2>2, <2>3, <2>4
<1>5. LooksAt("store", op) = {"valid", "opcode", "addrReg", "srcReg"}
  BY DEF LooksAt, Layout
<1>6. /\ Layout.store.valid = <<28, 1>>
      /\ Layout.store.opcode = <<25, 3>>
      /\ Layout.store.addrReg = <<14, 11>>
      /\ Layout.store.srcReg = <<3, 11>>
  BY DEF Layout
<1>7. /\ Meant("store", op, "valid") = 1
      /\ Meant("store", op, "opcode") = HardwareOpcodes.store[op.name]
      /\ Meant("store", op, "addrReg") = Par(op, "addrReg", 0)
      /\ Meant("store", op, "srcReg") = Par(op, "srcReg", 0)
  BY DEF Meant
<1>8. \A f \in LooksAt("store", op) :
         Field(bits, Layout.store[f][1], Layout.store[f][2]) = PackBits(Meant("store", op, f), 32)
  BY <1>4, <1>5, <1>6, <1>7
<1>9. Encode("store", ToTuple("store", op)) = bits /\ SlotWidth.store = 29
  BY DEF Encode, SlotWidth, bits, t
<1>10. bits \subseteq 0..(SlotWidth.store - 1)
  BY <1>3, <1>9
<1> QED BY <1>8, <1>9, <1>10 DEF Carries

LEMMA MatrixCarries ==
    ASSUME NEW op, Buildable("matrix", op)
    PROVE  Carries("matrix", op)
<1> DEFINE t == ToTuple("matrix", op)
           bits == EncodeMatrix(t)
<1>1. /\ Par(op, "dest", 0) \in 0..2047
      /\ Par(op, "srcA", 0) \in 0..2047
      /\ Par(op, "srcB", 0) \in 0..2047
      /\ Par(op, "srcC", 0) \in 0..2047
      /\ Par(op, "tileRows", 8) \in 0..15
      /\ Par(op, "tileCols", 8) \in 0..15
      /\ Par(op, "flags", 0) \in 0..63
  <2>1. DOMAIN op.params \subseteq {"dest", "srcA", "srcB", "srcC", "tileRows", "tileCols", "flags"}
    BY DEF Buildable, Required, Optional
  <2>2. \A key \in DOMAIN op.params : op.params[key] \in Values(op.name, key)
    BY DEF Buildable
  <2>3. /\ \A key \in {"dest", "srcA", "srcB", "srcC"} : Values(op.name, key) = 0..2047
        /\ Values(op.name, "tileRows") = 0..15 /\ Values(op.name, "tileCols") = 0..15
        /\ Values(op.name, "flags") = 0..63
    <3>1. {"dest", "srcA", "srcB", "srcC"} \subseteq Registers
      BY DEF Registers
    <3> QED BY <3>1, RegisterValues, FieldValues
  <2>4. \A key \in {"dest", "srcA", "srcB", "srcC"} : Par(op, key, 0) \in 0..2047
    BY <2>2, <2>3 DEF Par
  <2>5. Par(op, "tileRows", 8) \in 0..15 /\ Par(op, "tileCols", 8) \in 0..15
    BY <2>2, <2>3 DEF Par
  <2>6. Par(op, "flags", 0) \in 0..63
    BY <2>2, <2>3 DEF Par
  <2> QED BY <2>4, <2>5, <2>6
<1>2. /\ Len(t) = 8
      /\ t[1] = op.name
      /\ t[2] = Par(op, "dest", 0)
      /\ t[3] = Par(op, "srcA", 0)
      /\ t[4] = Par(op, "srcB", 0)
      /\ t[5] = Par(op, "srcC", 0)
      /\ t[6] = Par(op, "tileRows", 8)
      /\ t[7] = Par(op, "tileCols", 8)
      /\ t[8] = Par(op, "flags", 0)
  BY MatrixTuple
<1>3. /\ Field(bits, 64, 1) = PackBits(1, 1)
      /\ Field(bits, 59, 5) = PackBits(AssemblerOpcodes.matrix[t[1]], 5)
      /\ Field(bits, 48, 11) = PackBits(t[2], 11)
      /\ Field(bits, 37, 11) = PackBits(t[3], 11)
      /\ Field(bits, 26, 11) = PackBits(t[4], 11)
      /\ Field(bits, 15, 11) = PackBits(t[5], 11)
      /\ Field(bits, 11, 4) = PackBits(t[6], 4)
      /\ Field(bits, 7, 4) = PackBits(t[7], 4)
      /\ Field(bits, 1, 6) = PackBits(t[8], 6)
      /\ bits \subseteq 0..64
  BY <1>2, MatrixBits
<1> HIDE DEF bits, t
<1>4. /\ Field(bits, 64, 1) = PackBits(1, 32)
      /\ Field(bits, 59, 5) = PackBits(HardwareOpcodes.matrix[op.name], 32)
      /\ Field(bits, 48, 11) = PackBits(Par(op, "dest", 0), 32)
      /\ Field(bits, 37, 11) = PackBits(Par(op, "srcA", 0), 32)
      /\ Field(bits, 26, 11) = PackBits(Par(op, "srcB", 0), 32)
      /\ Field(bits, 15, 11) = PackBits(Par(op, "srcC", 0), 32)
      /\ Field(bits, 11, 4) = PackBits(Par(op, "tileRows", 8), 32)
      /\ Field(bits, 7, 4) = PackBits(Par(op, "tileCols", 8), 32)
      /\ Field(bits, 1, 6) = PackBits(Par(op, "flags", 0), 32)
  <2>1. AssemblerOpcodes.matrix[op.name] = HardwareOpcodes.matrix[op.name]
        /\ HardwareOpcodes.matrix[op.name] \in 0..31
    BY OpcodesAgree
  <2>2. PackBits(HardwareOpcodes.matrix[op.name], 5) = PackBits(HardwareOpcodes.matrix[op.name], 32)
    BY <2>1, SmallNumbers
  <2>3. PackBits(1, 1) = PackBits(1, 32)
    BY SmallNumbers
  <2>4. /\ PackBits(Par(op, "dest", 0), 11) = PackBits(Par(op, "dest", 0), 32)
        /\ PackBits(Par(op, "srcA", 0), 11) = PackBits(Par(op, "srcA", 0), 32)
        /\ PackBits(Par(op, "srcB", 0), 11) = PackBits(Par(op, "srcB", 0), 32)
        /\ PackBits(Par(op, "srcC", 0), 11) = PackBits(Par(op, "srcC", 0), 32)
        /\ PackBits(Par(op, "tileRows", 8), 4) = PackBits(Par(op, "tileRows", 8), 32)
        /\ PackBits(Par(op, "tileCols", 8), 4) = PackBits(Par(op, "tileCols", 8), 32)
        /\ PackBits(Par(op, "flags", 0), 6) = PackBits(Par(op, "flags", 0), 32)
    BY <1>1, RegisterBits, TileBits, FlagBits
  <2> QED BY <1>2, <1>3, <2>1, <2>2, <2>3, <2>4
<1>5. LooksAt("matrix", op) = {"valid", "opcode", "dest", "srcA", "srcB", "srcC", "tileRows", "tileCols", "flags"}
  BY DEF LooksAt, Layout
<1>6. /\ Layout.matrix.valid = <<64, 1>>
      /\ Layout.matrix.opcode = <<59, 5>>
      /\ Layout.matrix.dest = <<48, 11>>
      /\ Layout.matrix.srcA = <<37, 11>>
      /\ Layout.matrix.srcB = <<26, 11>>
      /\ Layout.matrix.srcC = <<15, 11>>
      /\ Layout.matrix.tileRows = <<11, 4>>
      /\ Layout.matrix.tileCols = <<7, 4>>
      /\ Layout.matrix.flags = <<1, 6>>
  BY DEF Layout
<1>7. /\ Meant("matrix", op, "valid") = 1
      /\ Meant("matrix", op, "opcode") = HardwareOpcodes.matrix[op.name]
      /\ Meant("matrix", op, "dest") = Par(op, "dest", 0)
      /\ Meant("matrix", op, "srcA") = Par(op, "srcA", 0)
      /\ Meant("matrix", op, "srcB") = Par(op, "srcB", 0)
      /\ Meant("matrix", op, "srcC") = Par(op, "srcC", 0)
      /\ Meant("matrix", op, "tileRows") = Par(op, "tileRows", 8)
      /\ Meant("matrix", op, "tileCols") = Par(op, "tileCols", 8)
      /\ Meant("matrix", op, "flags") = Par(op, "flags", 0)
  BY DEF Meant
<1>8. \A f \in LooksAt("matrix", op) :
         Field(bits, Layout.matrix[f][1], Layout.matrix[f][2]) = PackBits(Meant("matrix", op, f), 32)
  BY <1>4, <1>5, <1>6, <1>7
<1>9. Encode("matrix", ToTuple("matrix", op)) = bits /\ SlotWidth.matrix = 65
  BY DEF Encode, SlotWidth, bits, t
<1>10. bits \subseteq 0..(SlotWidth.matrix - 1)
  BY <1>3, <1>9
<1> QED BY <1>8, <1>9, <1>10 DEF Carries

(* What is left of a slot of a load or of a flow operation: the fields the *)
(* operation has hold its parameters, whatever the encoder put elsewhere.  *)
LEMMA LoadSlots ==
    ASSUME NEW op, Buildable("load", op), op.name # "const"
    PROVE  \E a, off :
              /\ Encode("load", ToTuple("load", op)) =
                    EncodeLoadSlot(op.name, Par(op, "dest", 0), a, off)
              /\ "addrReg" \in Required("load", op.name) => a = Par(op, "addrReg", 0)
              /\ "offset" \in Required("load", op.name) => off = Par(op, "offset", 0)
<1> DEFINE t == ToTuple("load", op)
           copies == {"load_offset", "scopy_m2v", "scopy_v2m", "scopy_v2s", "scopy_s2v"}
<1>1. op.name \in {"wait_for_load", "load", "vload"} \cup copies
  BY DEF Buildable, HardwareOpcodes
<1>2. Encode("load", t) = EncodeLoad(t)
  BY DEF Encode
<1>3. CASE op.name = "wait_for_load"
  <2>1. LoadFields(op.name) = <<"dest">>
    BY <1>3 DEF LoadFields
  <2>2. t = <<op.name>> \o <<Par(op, "dest", 0)>>
    BY <2>1 DEF ToTuple, TupleFields
  <2>3. t[1] = op.name /\ t[2] = Par(op, "dest", 0)
    BY <2>2
  <2>4. EncodeLoad(t) = EncodeLoadSlot(op.name, Par(op, "dest", 0), 0, 0)
    BY <1>3, <2>3 DEF EncodeLoad
  <2>5. Required("load", op.name) = {"dest"}
    BY <1>3 DEF Required
  <2> QED BY <1>2, <2>4, <2>5
<1>4. CASE op.name \in {"load", "vload"}
  <2>1. LoadFields(op.name) = <<"dest", "addrReg">>
    BY <1>4 DEF LoadFields
  <2>2. t = <<op.name>> \o <<Par(op, "dest", 0), Par(op, "addrReg", 0)>>
    BY <2>1 DEF ToTuple, TupleFields
  <2>3. Len(t) = 3 /\ t[1] = op.name /\ t[2] = Par(op, "dest", 0) /\ t[3] = Par(op, "addrReg", 0)
    BY <2>2
  <2> HIDE DEF t
  <2>4. EncodeLoad(t) = EncodeLoadSlot(op.name, Par(op, "dest", 0), Par(op, "addrReg", 0), 0)
    BY <1>4, <2>3 DEF EncodeLoad, Nth
  <2>5. Required("load", op.name) = {"dest", "addrReg"}
    BY <1>4 DEF Required
  <2> QED BY <1>2, <2>4, <2>5 DEF t
<1>5. CASE op.name \in copies
  <2>1. LoadFields(op.name) = <<"dest", "addrReg", "offset">>
    BY <1>5 DEF LoadFields
  <2>2. t = <<op.name>> \o <<Par(op, "dest", 0), Par(op, "addrReg", 0), Par(op, "offset", 0)>>
    BY <2>1 DEF ToTuple, TupleFields
  <2>3. Len(t) = 4 /\ t[1] = op.name /\ t[2] = Par(op, "dest", 0)
        /\ t[3] = Par(op, "addrReg", 0) /\ t[4] = Par(op, "offset", 0)
    BY <2>2
  <2>4. EncodeLoad(t) = EncodeLoadSlot(op.name, Par(op, "dest", 0), Par(op, "addrReg", 0), Par(op, "offset", 0))
    BY <1>5, <2>3 DEF EncodeLoad, Nth
  <2> QED BY <1>2, <2>4
<1> QED BY <1>1, <1>3, <1>4, <1>5

LEMMA LoadCarries ==
    ASSUME NEW op, Buildable("load", op)
    PROVE  Carries("load", op)
<1> DEFINE t == ToTuple("load", op)
           bits == Encode("load", t)
<1>1. "dest" \in Required("load", op.name)
  BY DEF Required
<1>2. Par(op, "dest", 0) \in 0..2047
  BY <1>1, GivenRegister DEF Registers
<1>3. SlotWidth.load = 49 /\ Meant("load", op, "valid") = 1
      /\ Meant("load", op, "opcode") = HardwareOpcodes.load[op.name]
      /\ \A f \in {"dest", "addrReg", "offset", "immediate"} :
            Meant("load", op, f) = Par(op, f, 0)
  BY DEF SlotWidth, Meant
<1>4. /\ Layout.load.valid = <<48, 1>> /\ Layout.load.opcode = <<44, 4>>
      /\ Layout.load.dest = <<33, 11>> /\ Layout.load.addrReg = <<22, 11>>
      /\ Layout.load.offset = <<19, 3>> /\ Layout.load.immediate = <<0, 32>>
  BY DEF Layout
<1>5. LooksAt("load", op) = {"valid", "opcode"} \cup Required("load", op.name)
  BY DEF LooksAt
<1>8. AssemblerOpcodes.load[op.name] = HardwareOpcodes.load[op.name]
      /\ PackBits(HardwareOpcodes.load[op.name], 4) = PackBits(HardwareOpcodes.load[op.name], 32)
  <2>1. AssemblerOpcodes.load[op.name] = HardwareOpcodes.load[op.name]
        /\ HardwareOpcodes.load[op.name] \in 0..15
    BY OpcodesAgree
  <2> QED BY <2>1, SmallNumbers
<1>9. PackBits(1, 1) = PackBits(1, 32)
  BY SmallNumbers
<1>6. CASE op.name = "const"
  <2>1. LoadFields(op.name) = <<"dest", "immediate">>
    BY <1>6 DEF LoadFields
  <2>2. t = <<op.name>> \o <<Par(op, "dest", 0), Par(op, "immediate", 0)>>
    BY <2>1 DEF ToTuple, TupleFields
  <2>3. t[1] = op.name /\ t[2] = Par(op, "dest", 0) /\ t[3] = Par(op, "immediate", 0)
    BY <2>2
  <2> HIDE DEF t
  <2>4. bits = EncodeLoad(t)
    BY DEF Encode
  <2> HIDE DEF bits
  <2>5. /\ Field(bits, 48, 1) = PackBits(1, 1)
        /\ Field(bits, 44, 4) = PackBits(AssemblerOpcodes.load[op.name], 4)
        /\ Field(bits, 33, 11) = PackBits(Par(op, "dest", 0), 11)
        /\ Field(bits, 0, 32) = PackBits(Par(op, "immediate", 0), 32)
        /\ bits \subseteq 0..48
    BY <1>6, <2>3, <2>4, ConstBits
  <2>6. /\ Field(bits, 48, 1) = PackBits(1, 32)
        /\ Field(bits, 44, 4) = PackBits(HardwareOpcodes.load[op.name], 32)
        /\ Field(bits, 33, 11) = PackBits(Par(op, "dest", 0), 32)
    BY <1>2, <1>8, <1>9, <2>5, SmallNumbers
  <2>7. Required("load", op.name) = {"dest", "immediate"}
    BY <1>6 DEF Required
  <2>8. \A f \in LooksAt("load", op) :
           Field(bits, Layout.load[f][1], Layout.load[f][2]) = PackBits(Meant("load", op, f), 32)
    BY <1>3, <1>4, <1>5, <2>5, <2>6, <2>7
  <2> QED BY <1>3, <2>5, <2>8 DEF Carries, bits, t
<1>7. CASE op.name # "const"
  <2>1. PICK a, off :
          /\ bits = EncodeLoadSlot(op.name, Par(op, "dest", 0), a, off)
          /\ "addrReg" \in Required("load", op.name) => a = Par(op, "addrReg", 0)
          /\ "offset" \in Required("load", op.name) => off = Par(op, "offset", 0)
    BY <1>7, LoadSlots
  <2>2. Required("load", op.name) \subseteq {"dest", "addrReg", "offset"}
    BY <1>7 DEF Required
  <2>3. "addrReg" \in Required("load", op.name) => a \in 0..2047
    BY <2>1, GivenRegister DEF Registers
  <2>4. "offset" \in Required("load", op.name) => off \in 0..7
    <3>1. "offset" \in Required("load", op.name) =>
             Par(op, "offset", 0) \in Values(op.name, "offset")
      BY Given
    <3> QED BY <2>1, <3>1, FieldValues
  <2> HIDE DEF bits
  <2>5. /\ Field(bits, 48, 1) = PackBits(1, 1)
        /\ Field(bits, 44, 4) = PackBits(AssemblerOpcodes.load[op.name], 4)
        /\ Field(bits, 33, 11) = PackBits(Par(op, "dest", 0), 11)
        /\ Field(bits, 22, 11) = PackBits(a, 11)
        /\ Field(bits, 19, 3) = PackBits(off, 3)
        /\ bits \subseteq 0..48
    BY <2>1, LoadBits
  <2>6. /\ Field(bits, 48, 1) = PackBits(1, 32)
        /\ Field(bits, 44, 4) = PackBits(HardwareOpcodes.load[op.name], 32)
        /\ Field(bits, 33, 11) = PackBits(Par(op, "dest", 0), 32)
    BY <1>2, <1>8, <1>9, <2>5, SmallNumbers
  <2>7. "addrReg" \in Required("load", op.name) =>
           Field(bits, 22, 11) = PackBits(Par(op, "addrReg", 0), 32)
    BY <2>1, <2>3, <2>5, SmallNumbers
  <2>8. "offset" \in Required("load", op.name) =>
           Field(bits, 19, 3) = PackBits(Par(op, "offset", 0), 32)
    BY <2>1, <2>4, <2>5, SmallNumbers
  <2>9. \A f \in LooksAt("load", op) :
           Field(bits, Layout.load[f][1], Layout.load[f][2]) = PackBits(Meant("load", op, f), 32)
    BY <1>3, <1>4, <1>5, <2>2, <2>6, <2>7, <2>8
  <2> QED BY <1>3, <2>5, <2>9 DEF Carries, bits, t
<1> QED BY <1>6, <1>7

LEMMA FlowSlots ==
    ASSUME NEW op, Buildable("flow", op)
    PROVE  \E d, a, b, imm :
              /\ Encode("flow", ToTuple("flow", op)) = EncodeFlowSlot(op.name, d, a, b, imm)
              /\ "dest" \in Required("flow", op.name) => d = Par(op, "dest", 0)
              /\ "operandA" \in Required("flow", op.name) => a = Par(op, "operandA", 0)
              /\ "operandB" \in Required("flow", op.name) => b = Par(op, "operandB", 0)
              /\ "immediate" \in Required("flow", op.name) => imm = Par(op, "immediate", 0)
<1> DEFINE t == ToTuple("flow", op)
<1>1. op.name \in {"select", "vselect", "add_imm", "cond_jump", "cond_jump_rel", "jump",
                   "jump_indirect", "coreid", "halt"}
  BY DEF Buildable, HardwareOpcodes
<1>2. Encode("flow", t) = EncodeFlow(t)
  BY DEF Encode
<1>3. CASE op.name \in {"select", "vselect"}
  <2>1. FlowFields(op.name) = <<"dest", "operandA", "operandB", "immediate">>
    BY <1>3 DEF FlowFields
  <2>2. t = <<op.name>> \o <<Par(op, "dest", 0), Par(op, "operandA", 0), Par(op, "operandB", 0), Par(op, "immediate", 0)>>
    BY <2>1 DEF ToTuple, TupleFields
  <2>3. t[1] = op.name /\ t[2] = Par(op, "dest", 0)
        /\ t[3] = Par(op, "operandA", 0) /\ t[4] = Par(op, "operandB", 0) /\ t[5] = Par(op, "immediate", 0)
    BY <2>2
  <2>4. Required("flow", op.name) = {"dest", "operandA", "operandB", "immediate"}
    BY <1>3 DEF Required
  <2> HIDE DEF t
  <2>5. EncodeFlow(t) =
           EncodeFlowSlot(op.name, Par(op, "dest", 0), Par(op, "operandA", 0), Par(op, "operandB", 0), Par(op, "immediate", 0))
    BY <1>3, <2>3 DEF EncodeFlow
  <2> QED BY <1>2, <2>4, <2>5 DEF t
<1>4. CASE op.name = "add_imm"
  <2>1. FlowFields(op.name) = <<"dest", "operandA", "immediate">>
    BY <1>4 DEF FlowFields
  <2>2. t = <<op.name>> \o <<Par(op, "dest", 0), Par(op, "operandA", 0), Par(op, "immediate", 0)>>
    BY <2>1 DEF ToTuple, TupleFields
  <2>3. t[1] = op.name /\ t[2] = Par(op, "dest", 0)
        /\ t[3] = Par(op, "operandA", 0) /\ t[4] = Par(op, "immediate", 0)
    BY <2>2
  <2>4. Required("flow", op.name) = {"dest", "operandA", "immediate"}
    BY <1>4 DEF Required
  <2> HIDE DEF t
  <2>5. EncodeFlow(t) =
           EncodeFlowSlot(op.name, Par(op, "dest", 0), Par(op, "operandA", 0), 0, Par(op, "immediate", 0))
    BY <1>4, <2>3 DEF EncodeFlow
  <2> QED BY <1>2, <2>4, <2>5 DEF t
<1>5. CASE op.name \in {"cond_jump", "cond_jump_rel"}
  <2>1. FlowFields(op.name) = <<"operandA", "immediate">>
    BY <1>5 DEF FlowFields
  <2>2. t = <<op.name>> \o <<Par(op, "operandA", 0), Par(op, "immediate", 0)>>
    BY <2>1 DEF ToTuple, TupleFields
  <2>3. t[1] = op.name /\ t[2] = Par(op, "operandA", 0) /\ t[3] = Par(op, "immediate", 0)
    BY <2>2
  <2>4. Required("flow", op.name) = {"operandA", "immediate"}
    BY <1>5 DEF Required
  <2> HIDE DEF t
  <2>5. EncodeFlow(t) =
           EncodeFlowSlot(op.name, 0, Par(op, "operandA", 0), 0, Par(op, "immediate", 0))
    BY <1>5, <2>3 DEF EncodeFlow
  <2> QED BY <1>2, <2>4, <2>5 DEF t
<1>6. CASE op.name = "jump"
  <2>1. FlowFields(op.name) = <<"immediate">>
    BY <1>6 DEF FlowFields
  <2>2. t = <<op.name>> \o <<Par(op, "immediate", 0)>>
    BY <2>1 DEF ToTuple, TupleFields
  <2>3. t[1] = op.name /\ t[2] = Par(op, "immediate", 0)
    BY <2>2
  <2>4. Required("flow", op.name) = {"immediate"}
    BY <1>6 DEF Required
  <2> HIDE DEF t
  <2>5. EncodeFlow(t) = EncodeFlowSlot(op.name, 0, 0, 0, Par(op, "immediate", 0))
    BY <1>6, <2>3 DEF EncodeFlow
  <2> QED BY <1>2, <2>4, <2>5 DEF t
<1>7. CASE op.name = "jump_indirect"
  <2>1. FlowFields(op.name) = <<"operandA">>
    BY <1>7 DEF FlowFields
  <2>2. t = <<op.name>> \o <<Par(op, "operandA", 0)>>
    BY <2>1 DEF ToTuple, TupleFields
  <2>3. t[1] = op.name /\ t[2] = Par(op, "operandA", 0)
    BY <2>2
  <2>4. Required("flow", op.name) = {"operandA"}
    BY <1>7 DEF Required
  <2> HIDE DEF t
  <2>5. EncodeFlow(t) = EncodeFlowSlot(op.name, 0, Par(op, "operandA", 0), 0, 0)
    BY <1>7, <2>3 DEF EncodeFlow
  <2> QED BY <1>2, <2>4, <2>5 DEF t
<1>8. CASE op.name = "coreid"
  <2>1. FlowFields(op.name) = <<"dest">>
    BY <1>8 DEF FlowFields
  <2>2. t = <<op.name>> \o <<Par(op, "dest", 0)>>
    BY <2>1 DEF ToTuple, TupleFields
  <2>3. t[1] = op.name /\ t[2] = Par(op, "dest", 0)
    BY <2>2
  <2>4. Required("flow", op.name) = {"dest"}
    BY <1>8 DEF Required
  <2> HIDE DEF t
  <2>5. EncodeFlow(t) = EncodeFlowSlot(op.name, Par(op, "dest", 0), 0, 0, 0)
    BY <1>8, <2>3 DEF EncodeFlow
  <2> QED BY <1>2, <2>4, <2>5 DEF t
<1>9. CASE op.name = "halt"
  <2>1. FlowFields(op.name) = <<>>
    BY <1>9 DEF FlowFields
  <2>2. t = <<op.name>> \o <<>>
    BY <2>1 DEF ToTuple, TupleFields
  <2>3. t[1] = op.name
    BY <2>2
  <2>4. Required("flow", op.name) = {}
    BY <1>9 DEF Required
  <2> HIDE DEF t
  <2>5. EncodeFlow(t) = EncodeFlowSlot(op.name, 0, 0, 0, 0)
    BY <1>9, <2>3 DEF EncodeFlow
  <2> QED BY <1>2, <2>4, <2>5 DEF t
<1> QED BY <1>1, <1>3, <1>4, <1>5, <1>6, <1>7, <1>8, <1>9

LEMMA FlowCarries ==
    ASSUME NEW op, Buildable("flow", op)
    PROVE  Carries("flow", op)
<1> DEFINE t == ToTuple("flow", op)
           bits == Encode("flow", t)
           needs == Required("flow", op.name)
<1>1. PICK d, a, b, imm :
        /\ bits = EncodeFlowSlot(op.name, d, a, b, imm)
        /\ "dest" \in needs => d = Par(op, "dest", 0)
        /\ "operandA" \in needs => a = Par(op, "operandA", 0)
        /\ "operandB" \in needs => b = Par(op, "operandB", 0)
        /\ "immediate" \in needs => imm = Par(op, "immediate", 0)
  BY FlowSlots
<1>2. /\ "dest" \in needs => Par(op, "dest", 0) \in 0..2047
      /\ "operandA" \in needs => Par(op, "operandA", 0) \in 0..2047
      /\ "operandB" \in needs => Par(op, "operandB", 0) \in 0..2047
  BY GivenRegister DEF Registers
<1>3. "immediate" \in needs => op.params.immediate \in Int /\ Par(op, "immediate", 0) = op.params.immediate
  <2>1. op.name # "const"
    BY DEF Buildable, HardwareOpcodes
  <2>2. Values(op.name, "immediate") \subseteq Int
    <3>1. op.name \in {"add_imm", "cond_jump_rel"} => Values(op.name, "immediate") = Relative
      BY ImmediateValues
    <3>2. op.name \notin {"const", "add_imm", "cond_jump_rel"} =>
             Values(op.name, "immediate") = 0..1023
      BY ImmediateValues
    <3>3. Relative \subseteq Int /\ 0..1023 \subseteq Int
      BY DEF Relative
    <3>4. CASE op.name \in {"add_imm", "cond_jump_rel"}
      BY <3>1, <3>3, <3>4
    <3>5. CASE op.name \notin {"const", "add_imm", "cond_jump_rel"}
      BY <3>2, <3>3, <3>5
    <3> QED BY <2>1, <3>4, <3>5
  <2>3. "immediate" \in needs => Par(op, "immediate", 0) = op.params.immediate
                                /\ Par(op, "immediate", 0) \in Values(op.name, "immediate")
    BY Given
  <2> QED BY <2>2, <2>3
<1>4. AssemblerOpcodes.flow[op.name] = HardwareOpcodes.flow[op.name]
      /\ PackBits(HardwareOpcodes.flow[op.name], 5) = PackBits(HardwareOpcodes.flow[op.name], 32)
  <2>1. AssemblerOpcodes.flow[op.name] = HardwareOpcodes.flow[op.name]
        /\ HardwareOpcodes.flow[op.name] \in 0..31
    BY OpcodesAgree
  <2> QED BY <2>1, SmallNumbers
<1>5. PackBits(1, 1) = PackBits(1, 32)
  BY SmallNumbers
<1>6. needs \subseteq {"dest", "operandA", "operandB", "immediate"}
  BY DEF Required
<1> HIDE DEF needs, bits
<1>7. /\ Field(bits, 48, 1) = PackBits(1, 1)
      /\ Field(bits, 43, 5) = PackBits(AssemblerOpcodes.flow[op.name], 5)
      /\ Field(bits, 32, 11) = PackBits(d, 11)
      /\ Field(bits, 21, 11) = PackBits(a, 11)
      /\ Field(bits, 10, 11) = PackBits(b, 11)
      /\ Field(bits, 0, 10) = PackBits(imm, 10)
      /\ bits \subseteq 0..48
  BY <1>1, FlowBits
<1>8. Field(bits, 48, 1) = PackBits(1, 32)
      /\ Field(bits, 43, 5) = PackBits(HardwareOpcodes.flow[op.name], 32)
  BY <1>4, <1>5, <1>7
<1>9. "dest" \in needs => Field(bits, 32, 11) = PackBits(Par(op, "dest", 0), 32)
  BY <1>1, <1>2, <1>7, RegisterBits
<1>10. "operandA" \in needs => Field(bits, 21, 11) = PackBits(Par(op, "operandA", 0), 32)
  BY <1>1, <1>2, <1>7, RegisterBits
<1>11. "operandB" \in needs => Field(bits, 10, 11) = PackBits(Par(op, "operandB", 0), 32)
  BY <1>1, <1>2, <1>7, RegisterBits
<1>12. "immediate" \in needs => Field(bits, 0, 10) = PackBits(op.params.immediate % 1024, 32)
  <2> SUFFICES ASSUME "immediate" \in needs
               PROVE  Field(bits, 0, 10) = PackBits(op.params.immediate % 1024, 32)
    OBVIOUS
  <2>1. imm = op.params.immediate /\ imm \in Int
    BY <1>1, <1>3
  <2>2. PackBits(imm, 10) = PackBits(imm % 1024, 10)
    BY <2>1, LowBits
  <2>3. imm % 1024 \in 0..1023
    BY <2>1
  <2>4. PackBits(imm % 1024, 10) = PackBits(imm % 1024, 32)
    BY <2>3, SmallNumbers
  <2> QED BY <1>7, <2>1, <2>2, <2>4
<1>13. /\ Layout.flow.valid = <<48, 1>> /\ Layout.flow.opcode = <<43, 5>>
       /\ Layout.flow.dest = <<32, 11>> /\ Layout.flow.operandA = <<21, 11>>
       /\ Layout.flow.operandB = <<10, 11>> /\ Layout.flow.immediate = <<0, 10>>
  BY DEF Layout
<1>14. /\ Meant("flow", op, "valid") = 1
       /\ Meant("flow", op, "opcode") = HardwareOpcodes.flow[op.name]
       /\ Meant("flow", op, "dest") = Par(op, "dest", 0)
       /\ Meant("flow", op, "operandA") = Par(op, "operandA", 0)
       /\ Meant("flow", op, "operandB") = Par(op, "operandB", 0)
       /\ Meant("flow", op, "immediate") = op.params.immediate % 1024
  BY DEF Meant
<1>15. LooksAt("flow", op) = {"valid", "opcode"} \cup needs
  BY DEF LooksAt, needs
<1>16. \A f \in LooksAt("flow", op) :
          Field(bits, Layout.flow[f][1], Layout.flow[f][2]) = PackBits(Meant("flow", op, f), 32)
  <2> DEFINE Right(f) ==
        Field(bits, Layout.flow[f][1], Layout.flow[f][2]) = PackBits(Meant("flow", op, f), 32)
  <2>1. Right("valid") /\ Right("opcode")
    BY <1>8, <1>13, <1>14
  <2>2. "dest" \in needs => Right("dest")
    BY <1>9, <1>13, <1>14
  <2>3. "operandA" \in needs => Right("operandA")
    BY <1>10, <1>13, <1>14
  <2>4. "operandB" \in needs => Right("operandB")
    BY <1>11, <1>13, <1>14
  <2>5. "immediate" \in needs => Right("immediate")
    BY <1>12, <1>13, <1>14
  <2> HIDE DEF Right
  <2>6. \A f \in LooksAt("flow", op) : Right(f)
    BY <1>6, <1>15, <2>1, <2>2, <2>3, <2>4, <2>5
  <2> QED BY <2>6 DEF Right
<1>17. SlotWidth.flow = 49
  BY DEF SlotWidth
<1> QED BY <1>7, <1>16, <1>17 DEF Carries, bits, t

(* The widths: the assembler's code is the engine's, and fits.             *)
LEMMA WidthsAgree ==
    ASSUME NEW v, v \in {4, 8, 16, 32, 64}
    PROVE  Ew(v) = ElemWidth[v] /\ ElemWidth[v] \in 0..7
BY DEF Ew, WidthCode, ElemWidth

(* The three tails of a vector operation, told apart again by the length   *)
(* of the tuple: what the scheduler left out is what the assembler adds.   *)
LEMMA ValuSlots ==
    ASSUME NEW op, Buildable("valu", op),
           NEW ew, ew = Par(op, "ewidth", 32), ew \in {4, 8, 16, 32, 64},
           NEW dw, dw = Par(op, "dwidth", IF op.name = "vcast" THEN 32 ELSE ew),
           dw \in {4, 8, 16, 32, 64},
           NEW sgn, sgn = Par(op, "signed", 0), sgn \in {0, 1},
           Par(op, "upper", 0) \in {0, 1}
    PROVE  \E b, c :
              /\ Encode("valu", ToTuple("valu", op)) =
                    EncodeValuSlot(op.name, op.params.dest, op.params.src1, b, c,
                                   Ew(ew), Ew(dw), sgn)
              /\ op.name = "vbroadcast" => c = op.params.src1
              /\ op.name = "vcast" => b = Par(op, "upper", 0)
              /\ op.name \notin {"vbroadcast", "vcast"} => b = op.params.src2
              /\ op.name = "multiply_add" => c = op.params.src3
<1> DEFINE t == ToTuple("valu", op)
           head == <<op.name, op.params.dest, op.params.src1>>
<1>1. Encode("valu", t) = EncodeValu(t)
  BY DEF Encode
<1>2. t = ToValuTuple(op)
  BY DEF ToTuple
<1>3. CASE op.name = "vbroadcast"
  <2>1. dw = ew /\ sgn = 0
    <3>1. "dwidth" \notin DOMAIN op.params /\ "signed" \notin DOMAIN op.params
      <4>1. DOMAIN op.params \subseteq Required("valu", op.name) \cup Optional("valu", op.name)
        BY DEF Buildable
      <4>2. Required("valu", op.name) = {"dest", "src1"} /\ Optional("valu", op.name) = {"ewidth"}
        BY <1>3 DEF Required, Optional
      <4> QED BY <4>1, <4>2
    <3> QED BY <1>3, <3>1 DEF Par
  <2>2. t = head \o (IF ew # 32 THEN <<ew>> ELSE <<>>)
    BY <1>2, <1>3 DEF ToValuTuple
  <2>3. t[1] = op.name /\ t[2] = op.params.dest /\ t[3] = op.params.src1 /\ Nth(t, 4, 32) = ew
    <3>1. CASE ew # 32
      <4>1. t = head \o <<ew>>
        BY <2>2, <3>1
      <4> HIDE DEF t
      <4> QED BY <4>1 DEF Nth
    <3>2. CASE ew = 32
      <4>1. t = head \o <<>>
        BY <2>2, <3>2
      <4> HIDE DEF t
      <4> QED BY <3>2, <4>1 DEF Nth
    <3> QED BY <3>1, <3>2
  <2> HIDE DEF t
  <2>4. EncodeValu(t) = EncodeValuSlot(op.name, op.params.dest, op.params.src1, 0, op.params.src1,
                                       Ew(ew), Ew(dw), sgn)
    BY <1>3, <2>1, <2>3 DEF EncodeValu
  <2> QED BY <1>1, <1>3, <2>4 DEF t
<1>4. CASE op.name = "vcast"
  <2> DEFINE up == Par(op, "upper", 0)
  <2> DEFINE tail == IF up = 1 THEN <<sgn, 1>> ELSE IF sgn = 1 THEN <<1>> ELSE <<>>
  <2>1. t = head \o <<ew, dw>> \o tail
    BY <1>2, <1>4 DEF ToValuTuple
  <2> HIDE DEF up
  <2>2. /\ t[1] = op.name /\ t[2] = op.params.dest /\ t[3] = op.params.src1
        /\ Nth(t, 4, 32) = ew /\ Nth(t, 5, 32) = dw /\ Nth(t, 6, 0) = sgn
        /\ Nth(t, 7, 0) = up
    <3>1. CASE up = 1
      <4>0. tail = <<sgn, 1>>
        BY <3>1
      <4> HIDE DEF tail
      <4>1. t = head \o <<ew, dw>> \o <<sgn, 1>>
        BY <2>1, <4>0
      <4> HIDE DEF t
      <4> QED BY <3>1, <4>1 DEF Nth
    <3>2. CASE up = 0 /\ sgn = 1
      <4>0. tail = <<1>>
        BY <3>2
      <4> HIDE DEF tail
      <4>1. t = head \o <<ew, dw>> \o <<1>>
        BY <2>1, <4>0
      <4> HIDE DEF t
      <4> QED BY <3>2, <4>1 DEF Nth
    <3>3. CASE up = 0 /\ sgn = 0
      <4>0. tail = <<>>
        BY <3>3
      <4> HIDE DEF tail
      <4>1. t = head \o <<ew, dw>> \o <<>>
        BY <2>1, <4>0
      <4> HIDE DEF t
      <4> QED BY <3>3, <4>1 DEF Nth
    <3> QED BY <3>1, <3>2, <3>3 DEF up
  <2> HIDE DEF t
  <2>3. EncodeValu(t) = EncodeValuSlot(op.name, op.params.dest, op.params.src1, up, 0,
                                       Ew(ew), Ew(dw), sgn)
    BY <1>4, <2>2 DEF EncodeValu
  <2> QED BY <1>1, <1>4, <2>3 DEF t, up
<1>5. CASE op.name = "multiply_add"
  <2> DEFINE args == head \o <<op.params.src2, op.params.src3>>
             tail == CASE dw # ew -> <<ew, dw, sgn>>
                       [] dw = ew /\ sgn = 1 -> <<ew, sgn>>
                       [] dw = ew /\ sgn = 0 /\ ew # 32 -> <<ew>>
                       [] OTHER -> <<>>
  <2>1. t = args \o (IF dw = ew /\ sgn = 1 THEN <<ew, ew, sgn>> ELSE tail)
    BY <1>2, <1>5 DEF ToValuTuple
  <2>2. /\ t[1] = op.name /\ t[2] = op.params.dest /\ t[3] = op.params.src1
        /\ t[4] = op.params.src2 /\ t[5] = op.params.src3
        /\ Nth(t, 6, 32) = ew /\ Nth(t, 8, 0) = sgn
        /\ (IF Len(t) >= 7 THEN Ew(t[7]) ELSE Ew(Nth(t, 6, 32))) = Ew(dw)
    <3>1. CASE dw = ew /\ sgn = 1
      <4>1. t = args \o <<ew, ew, sgn>>
        BY <2>1, <3>1
      <4> HIDE DEF t
      <4> QED BY <3>1, <4>1 DEF Nth
    <3>2. CASE dw # ew
      <4>0. tail = <<ew, dw, sgn>>
        BY <3>2
      <4> HIDE DEF tail
      <4>1. t = args \o <<ew, dw, sgn>>
        BY <2>1, <3>2, <4>0
      <4> HIDE DEF t
      <4> QED BY <3>2, <4>1 DEF Nth
    <3>3. CASE dw = ew /\ sgn = 0 /\ ew # 32
      <4>0. tail = <<ew>>
        BY <3>3
      <4> HIDE DEF tail
      <4>1. t = args \o <<ew>>
        <5>1. ~ (dw = ew /\ sgn = 1)
          BY <3>3
        <5> QED BY <2>1, <4>0, <5>1
      <4> HIDE DEF t
      <4> QED BY <3>3, <4>1 DEF Nth
    <3>4. CASE dw = ew /\ sgn = 0 /\ ew = 32
      <4>0. tail = <<>>
        BY <3>4
      <4> HIDE DEF tail
      <4>1. t = args \o <<>>
        <5>1. ~ (dw = ew /\ sgn = 1)
          BY <3>4
        <5> QED BY <2>1, <4>0, <5>1
      <4> HIDE DEF t
      <4> QED BY <3>4, <4>1 DEF Nth
    <3> QED BY <3>1, <3>2, <3>3, <3>4
  <2> HIDE DEF t
  <2>3. EncodeValu(t) = EncodeValuSlot(op.name, op.params.dest, op.params.src1, op.params.src2,
                                       op.params.src3, Ew(ew), Ew(dw), sgn)
    BY <1>5, <2>2 DEF EncodeValu
  <2> QED BY <1>1, <1>5, <2>3 DEF t
<1>6. CASE op.name \notin {"vbroadcast", "vcast", "multiply_add"}
  <2> DEFINE args == head \o <<op.params.src2>>
             tail == CASE dw # ew -> <<ew, dw, sgn>>
                       [] dw = ew /\ sgn = 1 -> <<ew, sgn>>
                       [] dw = ew /\ sgn = 0 /\ ew # 32 -> <<ew>>
                       [] OTHER -> <<>>
  <2>1. t = args \o tail
    BY <1>2, <1>6 DEF ToValuTuple
  <2>2. /\ t[1] = op.name /\ t[2] = op.params.dest /\ t[3] = op.params.src1
        /\ t[4] = op.params.src2 /\ Nth(t, 5, 32) = ew
        /\ Widening(t) => t[6] = dw /\ Nth(t, 7, 0) = sgn
        /\ ~ Widening(t) => ew = dw /\ Nth(t, 6, 0) = sgn
    <3>1. CASE dw # ew
      <4>0. tail = <<ew, dw, sgn>>
        BY <3>1
      <4> HIDE DEF tail
      <4>1. t = args \o <<ew, dw, sgn>>
        BY <2>1, <3>1, <4>0
      <4> HIDE DEF t
      <4> QED BY <3>1, <4>1 DEF Nth, Widening
    <3>2. CASE dw = ew /\ sgn = 1
      <4>0. tail = <<ew, sgn>>
        BY <3>2
      <4> HIDE DEF tail
      <4>1. t = args \o <<ew, sgn>>
        BY <2>1, <3>2, <4>0
      <4> HIDE DEF t
      <4> QED BY <3>2, <4>1 DEF Nth, Widening
    <3>3. CASE dw = ew /\ sgn = 0 /\ ew # 32
      <4>0. tail = <<ew>>
        BY <3>3
      <4> HIDE DEF tail
      <4>1. t = args \o <<ew>>
        BY <2>1, <3>3, <4>0
      <4> HIDE DEF t
      <4> QED BY <3>3, <4>1 DEF Nth, Widening
    <3>4. CASE dw = ew /\ sgn = 0 /\ ew = 32
      <4>0. tail = <<>>
        BY <3>4
      <4> HIDE DEF tail
      <4>1. t = args \o <<>>
        BY <2>1, <3>4, <4>0
      <4> HIDE DEF t
      <4> QED BY <3>4, <4>1 DEF Nth, Widening
    <3> QED BY <3>1, <3>2, <3>3, <3>4
  <2> HIDE DEF t
  <2>3. EncodeValu(t) = EncodeValuSlot(op.name, op.params.dest, op.params.src1, op.params.src2,
                                       0, Ew(ew), Ew(dw), sgn)
    BY <1>6, <2>2 DEF EncodeValu
  <2> QED BY <1>1, <1>6, <2>3 DEF t
<1> QED BY <1>3, <1>4, <1>5, <1>6

LEMMA ValuCarries ==
    ASSUME NEW op, Buildable("valu", op)
    PROVE  Carries("valu", op)
<1> DEFINE t == ToTuple("valu", op)
           bits == Encode("valu", t)
           needs == Required("valu", op.name)
           ew == Par(op, "ewidth", 32)
           dw == Par(op, "dwidth", IF op.name = "vcast" THEN 32 ELSE ew)
           sgn == Par(op, "signed", 0)
           code == HardwareOpcodes.valu[op.name]
<1>1. \A key \in DOMAIN op.params : op.params[key] \in Values(op.name, key)
  BY DEF Buildable
<1>2. /\ Values(op.name, "signed") = {0, 1} /\ Values(op.name, "upper") = {0, 1}
      /\ Values(op.name, "ewidth") = {4, 8, 16, 32, 64}
      /\ Values(op.name, "dwidth") = {4, 8, 16, 32, 64}
  BY FieldValues
<1>3. ew \in {4, 8, 16, 32, 64}
  BY <1>1, <1>2 DEF Par
<1>4. dw \in {4, 8, 16, 32, 64}
  <2> HIDE DEF ew
  <2> QED BY <1>1, <1>2, <1>3 DEF Par
<1>5. sgn \in {0, 1} /\ Par(op, "upper", 0) \in {0, 1}
  BY <1>1, <1>2 DEF Par
<1>6. needs = {"dest", "src1"} \cup
              (IF op.name \in {"vbroadcast", "vcast"} THEN {} ELSE {"src2"}) \cup
              (IF op.name = "multiply_add" THEN {"src3"} ELSE {})
  BY DEF Required
<1>7. ASSUME NEW key \in needs PROVE op.params[key] \in 0..2047 /\ Par(op, key, 0) = op.params[key]
  <2>1. key \in Registers
    BY <1>6, <1>7 DEF Registers
  <2>2. Par(op, key, 0) \in 0..2047
    BY <1>7, <2>1, GivenRegister
  <2>3. Par(op, key, 0) = op.params[key]
    BY <1>7, Given
  <2> QED BY <2>2, <2>3
<1>8. PICK b, c :
        /\ bits = EncodeValuSlot(op.name, op.params.dest, op.params.src1, b, c,
                                 Ew(ew), Ew(dw), sgn)
        /\ op.name = "vbroadcast" => c = op.params.src1
        /\ op.name = "vcast" => b = Par(op, "upper", 0)
        /\ op.name \notin {"vbroadcast", "vcast"} => b = op.params.src2
        /\ op.name = "multiply_add" => c = op.params.src3
  <2> HIDE DEF ew, dw, sgn
  <2>1. /\ ew = Par(op, "ewidth", 32) /\ sgn = Par(op, "signed", 0)
        /\ dw = Par(op, "dwidth", IF op.name = "vcast" THEN 32 ELSE ew)
    BY DEF ew, dw, sgn
  <2> QED BY <1>3, <1>4, <1>5, <2>1, ValuSlots
<1>9. code = (IF op.name \in DOMAIN ValuExtraOpcodes THEN ValuExtraOpcodes[op.name]
                                                     ELSE AssemblerOpcodes.alu[op.name])
      /\ code \in 0..31
  BY OpcodesAgree
<1>10. /\ Meant("valu", op, "valid") = 1 /\ Meant("valu", op, "opcode") = code
       /\ Meant("valu", op, "ewidth") = ElemWidth[ew]
       /\ Meant("valu", op, "dwidth") = ElemWidth[dw]
       /\ Meant("valu", op, "signed") = sgn
       /\ Meant("valu", op, "dest") = Par(op, "dest", 0)
       /\ Meant("valu", op, "src1") = Par(op, "src1", 0)
       /\ Meant("valu", op, "src2") = IF op.name = "vcast" THEN Par(op, "upper", 0)
                                                         ELSE Par(op, "src2", 0)
       /\ Meant("valu", op, "src3") = IF op.name = "vbroadcast" THEN op.params.src1
                                                              ELSE Par(op, "src3", 0)
  BY DEF Meant
<1>11. LooksAt("valu", op) =
         {"valid", "opcode", "ewidth", "dwidth", "signed"} \cup needs \cup
         (IF op.name = "vbroadcast" THEN {"src3"} ELSE {}) \cup
         (IF op.name = "vcast" THEN {"src2"} ELSE {})
  BY DEF LooksAt
<1> HIDE DEF needs, bits, ew, dw, sgn, code, t
<1>12. /\ Field(bits, 56, 1) = PackBits(1, 1)
       /\ Field(bits, 51, 5) = PackBits(code, 5)
       /\ Field(bits, 40, 11) = PackBits(op.params.dest, 11)
       /\ Field(bits, 29, 11) = PackBits(op.params.src1, 11)
       /\ Field(bits, 18, 11) = PackBits(b, 11)
       /\ Field(bits, 7, 11) = PackBits(c, 11)
       /\ Field(bits, 4, 3) = PackBits(Ew(ew), 3)
       /\ Field(bits, 1, 3) = PackBits(Ew(dw), 3)
       /\ Field(bits, 0, 1) = PackBits(sgn, 1)
       /\ bits \subseteq 0..56
  BY <1>8, <1>9, ValuBits
<1>13. /\ Layout.valu.valid = <<56, 1>> /\ Layout.valu.opcode = <<51, 5>>
       /\ Layout.valu.dest = <<40, 11>> /\ Layout.valu.src1 = <<29, 11>>
       /\ Layout.valu.src2 = <<18, 11>> /\ Layout.valu.src3 = <<7, 11>>
       /\ Layout.valu.ewidth = <<4, 3>> /\ Layout.valu.dwidth = <<1, 3>>
       /\ Layout.valu.signed = <<0, 1>>
  BY DEF Layout
<1> DEFINE Right(f) ==
      Field(bits, Layout.valu[f][1], Layout.valu[f][2]) = PackBits(Meant("valu", op, f), 32)
<1>14. Right("valid") /\ Right("opcode")
  <2>1. PackBits(code, 5) = PackBits(code, 32) /\ PackBits(1, 1) = PackBits(1, 32)
    BY <1>9, SmallNumbers
  <2> QED BY <1>10, <1>12, <1>13, <2>1
<1>15. Right("ewidth") /\ Right("dwidth") /\ Right("signed")
  <2>1. Ew(ew) = ElemWidth[ew] /\ PackBits(Ew(ew), 3) = PackBits(Ew(ew), 32)
    BY <1>3, WidthsAgree, SmallNumbers
  <2>2. Ew(dw) = ElemWidth[dw] /\ PackBits(Ew(dw), 3) = PackBits(Ew(dw), 32)
    BY <1>4, WidthsAgree, SmallNumbers
  <2>3. PackBits(sgn, 1) = PackBits(sgn, 32)
    BY <1>5, SmallNumbers
  <2> QED BY <1>10, <1>12, <1>13, <2>1, <2>2, <2>3
<1>16. Right("dest") /\ Right("src1")
  <2>1. "dest" \in needs /\ "src1" \in needs
    BY <1>6
  <2>2. PackBits(op.params.dest, 11) = PackBits(op.params.dest, 32)
        /\ PackBits(op.params.src1, 11) = PackBits(op.params.src1, 32)
    BY <1>7, <2>1, RegisterBits
  <2> QED BY <1>7, <1>10, <1>12, <1>13, <2>1, <2>2
<1>17. "src2" \in LooksAt("valu", op) => Right("src2")
  <2>1. CASE op.name = "vcast"
    <3>1. b \in 0..2047
      BY <1>5, <1>8, <2>1
    <3>2. PackBits(b, 11) = PackBits(b, 32)
      BY <3>1, RegisterBits
    <3> QED BY <1>8, <1>10, <1>12, <1>13, <2>1, <3>2
  <2>2. CASE op.name \notin {"vbroadcast", "vcast"}
    <3>1. "src2" \in needs
      BY <1>6, <2>2
    <3>2. b = op.params.src2 /\ b = Par(op, "src2", 0) /\ b \in 0..2047
      BY <1>7, <1>8, <2>2, <3>1
    <3>3. PackBits(b, 11) = PackBits(b, 32)
      BY <3>2, RegisterBits
    <3> QED BY <1>10, <1>12, <1>13, <2>2, <3>2, <3>3
  <2>3. CASE op.name = "vbroadcast"
    BY <1>6, <1>11, <2>3
  <2> QED BY <2>1, <2>2, <2>3
<1>18. "src3" \in LooksAt("valu", op) => Right("src3")
  <2>1. CASE op.name = "vbroadcast"
    <3>1. "src1" \in needs
      BY <1>6
    <3>2. c = op.params.src1 /\ c \in 0..2047
      BY <1>7, <1>8, <2>1, <3>1
    <3>3. PackBits(c, 11) = PackBits(c, 32)
      BY <3>2, RegisterBits
    <3> QED BY <1>10, <1>12, <1>13, <2>1, <3>2, <3>3
  <2>2. CASE op.name = "multiply_add"
    <3>1. "src3" \in needs
      BY <1>6, <2>2
    <3>2. c = op.params.src3 /\ c = Par(op, "src3", 0) /\ c \in 0..2047
      BY <1>7, <1>8, <2>2, <3>1
    <3>3. PackBits(c, 11) = PackBits(c, 32)
      BY <3>2, RegisterBits
    <3> QED BY <1>10, <1>12, <1>13, <2>2, <3>2, <3>3
  <2>3. CASE op.name \notin {"vbroadcast", "multiply_add"}
    BY <1>6, <1>11, <2>3
  <2> QED BY <2>1, <2>2, <2>3
<1> HIDE DEF Right
<1>19. \A f \in LooksAt("valu", op) : Right(f)
  BY <1>6, <1>11, <1>14, <1>15, <1>16, <1>17, <1>18
<1>20. SlotWidth.valu = 57
  BY DEF SlotWidth
<1> QED BY <1>12, <1>19, <1>20 DEF Carries, Right, bits, t

-----------------------------------------------------------------------------
(* The bundle.                                                             *)

(* Every operation fits its slot and reads as it was meant.                *)
LEMMA EveryOperationCarries ==
    ASSUME NEW e \in Engines, NEW op, Buildable(e, op)
    PROVE  Carries(e, op)
<1>1. CASE e = "alu"
  BY <1>1, AluCarries
<1>2. CASE e = "valu"
  BY <1>2, ValuCarries
<1>3. CASE e = "load"
  BY <1>3, LoadCarries
<1>4. CASE e = "store"
  BY <1>4, StoreCarries
<1>5. CASE e = "matrix"
  BY <1>5, MatrixCarries
<1>6. CASE e = "flow"
  BY <1>6, FlowCarries
<1> QED BY <1>1, <1>2, <1>3, <1>4, <1>5, <1>6 DEF Engines

(* A field within a slot of the bundle is that field of what was put in    *)
(* that slot, whatever the other slots hold.                               *)
LEMMA SlotRead ==
    ASSUME NEW I,
           \A g \in Engines : DOMAIN I[g] \subseteq 1..Count[g],
           \A g \in Engines : \A j \in DOMAIN I[g] :
              Encode(g, I[g][j]) \subseteq 0..(SlotWidth[g] - 1),
           NEW e \in Engines, NEW i \in 1..Count[e],
           NEW lo \in Nat, NEW w \in Nat, lo + w <= SlotWidth[e]
    PROVE  Field(Assemble(I), Start(e, i) + lo, w) =
             IF i \in DOMAIN I[e] THEN Field(Encode(e, I[e][i]), lo, w) ELSE {}
<1> DEFINE s == Start(e, i)
           n == SlotWidth[e]
<1>1. s \in Nat /\ s + n <= BundleWidth /\ n \in Nat /\ BundleWidth \in Nat
  <2>1. n \in Nat
    BY DEF SlotWidth, Engines
  <2> QED BY <2>1, SlotsApart, BundleHolds
<1>2. ASSUME NEW k \in 0..(w - 1), i \in DOMAIN I[e], k + lo \in Encode(e, I[e][i])
      PROVE  k + (s + lo) \in Assemble(I)
  <2>1. (k + lo) + s \in Shift(Encode(e, I[e][i]), s)
    BY <1>2 DEF Shift
  <2>2. (k + lo) + s = k + (s + lo) /\ k + (s + lo) \in 0..(BundleWidth - 1)
    <3> HIDE DEF s, n
    <3>1. lo + w <= n
      BY DEF n
    <3> QED BY <1>1, <3>1
  <2> HIDE DEF n
  <2>3. k + (s + lo) \in UNION {Shift(Encode(e, I[e][j]), Start(e, j)) : j \in DOMAIN I[e]}
    BY <1>2, <2>1, <2>2
  <2> QED BY <2>2, <2>3 DEF Assemble
<1>3. ASSUME NEW k \in 0..(w - 1), k + (s + lo) \in Assemble(I)
      PROVE  i \in DOMAIN I[e] /\ k + lo \in Encode(e, I[e][i])
  <2>1. PICK g \in Engines : \E j \in DOMAIN I[g] :
            k + (s + lo) \in Shift(Encode(g, I[g][j]), Start(g, j))
    BY <1>3 DEF Assemble
  <2>2. PICK j \in DOMAIN I[g] : k + (s + lo) \in Shift(Encode(g, I[g][j]), Start(g, j))
    BY <2>1
  <2> DEFINE r == Start(g, j)
             m == SlotWidth[g]
  <2>3. PICK c \in Encode(g, I[g][j]) : k + (s + lo) = c + r
    BY <2>2 DEF Shift
  <2>4. j \in 1..Count[g] /\ c \in 0..(m - 1)
    BY <2>3
  <2>5. r \in Nat /\ ((e = g /\ i = j) \/ s + n <= r \/ r + m <= s)
    BY <2>4, SlotsApart
  <2>6. m \in Nat /\ lo + w <= n
    BY DEF SlotWidth, Engines
  <2> HIDE DEF s, n, r, m
  <2>7. ~ (s + n <= r) /\ ~ (r + m <= s)
    BY <1>1, <2>3, <2>4, <2>5, <2>6
  <2>8. e = g /\ i = j
    BY <2>5, <2>7
  <2>9. r = s
    BY <2>8 DEF r, s
  <2>10. c = k + lo
    BY <1>1, <2>3, <2>4, <2>5, <2>9
  <2> QED BY <2>3, <2>8, <2>10
<1> HIDE DEF s, n
<1> QED BY <1>2, <1>3 DEF Field, s

-----------------------------------------------------------------------------
(* The instruction a program has put together so far: the operations of a  *)
(* bundle are ones that can be built, and no more of them than slots.      *)
Holds(e, ops) ==
    /\ ops \in Seq(Menu[e])
    /\ Len(ops) <= Count[e]
Held ==
    /\ DOMAIN instr = Engines
    /\ \A e \in Engines : Holds(e, instr[e])

LEMMA HeldInv == Spec => []Held
<1>1. Init => Held
  BY CodecAssumption DEF Init, Held, Holds
<1>2. Held /\ [Next]_instr => Held'
  <2> SUFFICES ASSUME Held, [Next]_instr PROVE Held'
    OBVIOUS
  <2>1. CASE UNCHANGED instr
    BY <2>1 DEF Held, Holds
  <2>2. ASSUME NEW e \in Engines, NEW op \in Menu[e],
               instr' = [instr EXCEPT ![e] = Append(@, op)], ~ Refused(instr')
        PROVE  Held'
    <3>1. DOMAIN instr' = Engines
      BY <2>2 DEF Held
    <3>2. ASSUME NEW g \in Engines PROVE instr'[g] \in Seq(Menu[g])
      <4>1. CASE g = e
        <5>1. instr'[g] = Append(instr[g], op)
          BY <2>2, <4>1 DEF Held
        <5>2. instr[g] \in Seq(Menu[g]) /\ op \in Menu[g]
          BY <4>1 DEF Held, Holds
        <5>3. ASSUME NEW S, NEW q \in Seq(S), NEW x \in S PROVE Append(q, x) \in Seq(S)
          OBVIOUS
        <5>4. Append(instr[g], op) \in Seq(Menu[g])
          BY <5>2, <5>3
        <5> QED BY <5>1, <5>4
      <4>2. CASE g # e
        BY <2>2, <4>2 DEF Held, Holds
      <4> QED BY <4>1, <4>2
    <3>3. ASSUME NEW g \in Engines PROVE Len(instr'[g]) <= Count[g]
      <4>1. Len(instr'[g]) \in Nat /\ Count[g] \in Nat
        BY <3>2, CodecAssumption
      <4>2. ~ (Len(instr'[g]) > Count[g])
        BY <2>2 DEF Refused
      <4> QED BY <4>1, <4>2
    <3> QED BY <3>1, <3>2, <3>3 DEF Held, Holds
  <2> QED BY <2>1, <2>2 DEF Next
<1> QED BY <1>1, <1>2, PTL DEF Spec

(* What the operations of an instruction become: as many tuples, each of a *)
(* slot's size.                                                            *)
LEMMA TuplesFit ==
    ASSUME Held
    PROVE  /\ \A g \in Engines : DOMAIN Tuples[g] = DOMAIN instr[g]
           /\ \A g \in Engines : DOMAIN Tuples[g] \subseteq 1..Count[g]
           /\ \A g \in Engines : \A j \in DOMAIN Tuples[g] :
                 Carries(g, instr[g][j]) /\ Tuples[g][j] = ToTuple(g, instr[g][j])
<1>1. ASSUME NEW g \in Engines PROVE DOMAIN Tuples[g] = DOMAIN instr[g]
  BY DEF Tuples
<1>2. ASSUME NEW g \in Engines PROVE DOMAIN instr[g] \subseteq 1..Count[g]
  <2>1. instr[g] \in Seq(Menu[g]) /\ Len(instr[g]) <= Count[g] /\ Count[g] \in Nat
    BY CodecAssumption DEF Held, Holds
  <2> QED BY <2>1
<1>3. ASSUME NEW g \in Engines, NEW j \in DOMAIN instr[g]
      PROVE  Carries(g, instr[g][j]) /\ Tuples[g][j] = ToTuple(g, instr[g][j])
  <2>1. instr[g][j] \in Menu[g]
    <3>1. instr[g] \in Seq(Menu[g])
      BY DEF Held, Holds
    <3> QED BY <3>1
  <2>2. Buildable(g, instr[g][j])
    BY <2>1, CodecAssumption
  <2> QED BY <2>2, EveryOperationCarries DEF Tuples
<1> QED BY <1>1, <1>2, <1>3

(* The decoder's tables: every field an engine looks at is inside its slot. *)
LEMMA FieldsInside ==
    ASSUME NEW e \in Engines, NEW f \in DOMAIN Layout[e]
    PROVE  /\ Layout[e][f][1] \in Nat /\ Layout[e][f][2] \in Nat
           /\ Layout[e][f][1] + Layout[e][f][2] <= SlotWidth[e]
<1>1. CASE e = "alu"
  BY <1>1 DEF Layout, SlotWidth
<1>2. CASE e = "valu"
  BY <1>2 DEF Layout, SlotWidth
<1>3. CASE e = "load"
  BY <1>3 DEF Layout, SlotWidth
<1>4. CASE e = "store"
  BY <1>4 DEF Layout, SlotWidth
<1>5. CASE e = "matrix"
  BY <1>5 DEF Layout, SlotWidth
<1>6. CASE e = "flow"
  BY <1>6 DEF Layout, SlotWidth
<1> QED BY <1>1, <1>2, <1>3, <1>4, <1>5, <1>6 DEF Engines

LEMMA LooksAtFields ==
    ASSUME NEW e \in Engines, NEW op
    PROVE  LooksAt(e, op) \subseteq DOMAIN Layout[e] /\ "valid" \in DOMAIN Layout[e]
<1>1. CASE e \in {"alu", "store", "matrix"}
  BY <1>1 DEF LooksAt, Layout
<1>2. CASE e = "valu"
  BY <1>2 DEF LooksAt, Layout, Required
<1>3. CASE e = "load"
  BY <1>3 DEF LooksAt, Layout, Required
<1>4. CASE e = "flow"
  BY <1>4 DEF LooksAt, Layout, Required
<1> QED BY <1>1, <1>2, <1>3, <1>4 DEF Engines

LEMMA HeldDecodes == Held => DecodesWhatWasMeant
<1> SUFFICES ASSUME Held PROVE DecodesWhatWasMeant
  OBVIOUS
<1>1. Stored = Assemble(Tuples)
  <2>1. Assemble(Tuples) \in SUBSET (0..(BundleWidth - 1))
    BY DEF Assemble
  <2> QED BY <2>1, JoinedAgain DEF Stored
<1>2. ASSUME NEW e \in Engines, NEW i \in 1..Count[e], NEW f \in DOMAIN Layout[e]
      PROVE  Decoded(Stored, e, i, f) =
               IF i \in DOMAIN instr[e]
               THEN Field(Encode(e, ToTuple(e, instr[e][i])), Layout[e][f][1], Layout[e][f][2])
               ELSE {}
  <2>1. \A g \in Engines : \A j \in DOMAIN Tuples[g] :
           Encode(g, Tuples[g][j]) \subseteq 0..(SlotWidth[g] - 1)
    BY TuplesFit DEF Carries
  <2>2. /\ Layout[e][f][1] \in Nat /\ Layout[e][f][2] \in Nat
        /\ Layout[e][f][1] + Layout[e][f][2] <= SlotWidth[e]
    BY FieldsInside
  <2>3. Field(Assemble(Tuples), Start(e, i) + Layout[e][f][1], Layout[e][f][2]) =
          IF i \in DOMAIN Tuples[e]
          THEN Field(Encode(e, Tuples[e][i]), Layout[e][f][1], Layout[e][f][2]) ELSE {}
    BY <2>1, <2>2, TuplesFit, SlotRead
  <2>4. BitOffset(e, i) = Start(e, i)
    BY DecoderAgrees
  <2> QED BY <1>1, <2>3, <2>4, TuplesFit DEF Decoded
<1>3. ASSUME NEW e \in Engines, NEW i \in 1..Count[e], i \in DOMAIN instr[e],
             NEW f \in LooksAt(e, instr[e][i])
      PROVE  Decoded(Stored, e, i, f) = PackBits(Meant(e, instr[e][i], f), 32)
  <2>1. f \in DOMAIN Layout[e]
    BY LooksAtFields
  <2>2. Carries(e, instr[e][i])
    BY <1>3, TuplesFit
  <2> QED BY <1>2, <1>3, <2>1, <2>2 DEF Carries
<1>4. ASSUME NEW e \in Engines, NEW i \in 1..Count[e], i \notin DOMAIN instr[e]
      PROVE  Decoded(Stored, e, i, "valid") = {}
  BY <1>2, <1>4, LooksAtFields
<1> QED BY <1>3, <1>4 DEF DecodesWhatWasMeant

(* Whatever operations the bundle is filled with, on any number of slots,  *)
(* the engines find in their slots what the operations meant, and no       *)
(* operation where none was put.                                           *)
THEOREM BundleDecodes == Spec => []DecodesWhatWasMeant
BY HeldInv, HeldDecodes, PTL
=============================================================================

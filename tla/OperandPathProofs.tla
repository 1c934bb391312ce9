------------------------- MODULE OperandPathProofs -------------------------
(***************************************************************************)
(* For every program, every number of banks and registers and every order  *)
(* of holds, bubbles and answers: as long as no bank is asked for two      *)
(* writes in a cycle, operands are those the program means, no write is    *)
(* lost and a copy takes the vector the program means, but for the lanes   *)
(* the bundles frozen behind it spoil.  Two writes of a bank meet only by  *)
(* the answer of a load, and never if programs keep off its bank.          *)
(*                                                                         *)
(* The proof follows one function, AfterEx: what each register will hold   *)
(* once everything up to the bundle in EX has taken effect.  A hold and a  *)
(* bubble leave it alone; an advance adds the results of one bundle.       *)
(***************************************************************************)
EXTENDS OperandPath, TLAPS

Kinds == Ops \cup {"none"}

(* A bundle of the program, or Bubble.                                     *)
Sound(b) ==
  /\ b.op \in Kinds /\ b.reads \in Seq(Registers) /\ b.dest \in Registers
  /\ b.id \in 0 .. MaxBundles
  /\ IF b.op = "none" THEN b = Bubble ELSE b.id # 0
  /\ b.op \in {"valu", "vstore"} => Len(b.reads) = 2
  /\ b.op = "copy" => Len(b.reads) = 1
  /\ b.op \in {"const", "wait"} => b.reads = << >>
  /\ b.wants = [i \in DOMAIN Sources(b) |-> b.wants[i]]

-----------------------------------------------------------------------------
(* The parts of the invariant.                                             *)
Types ==
  /\ mem \in [Registers -> 0 .. MaxBundles]
  /\ meant \in [Registers -> 0 .. MaxBundles]
  /\ heldValid \in BOOLEAN /\ wasHeld \in BOOLEAN
  /\ track \in [Registers -> 0 .. 3]
  /\ flight = Nothing \/ flight \in [dest : Registers, val : 1 .. MaxBundles]
  /\ wb \subseteq [addr : Registers, val : 1 .. MaxBundles, port : 1 .. 5]
  /\ copy = [lanes |-> copy.lanes, wants |-> copy.wants, next |-> copy.next, read |-> copy.read]
  /\ copy.next \in 0 .. Lanes
  /\ count \in 0 .. MaxBundles
  /\ owed \subseteq Registers
  /\ Sound(decode) /\ Sound(ex)

(* What a register holds at the end of this cycle, or will once the load   *)
(* in flight is answered; and once the bundle in EX is done as well.       *)
Arriving ==
  [r \in Registers |-> IF \E w \in wb : w.addr = r
                       THEN (CHOOSE w \in wb : w.addr = r).val ELSE mem[r]]
Value == [r \in Registers |-> IF flight.dest = r THEN flight.val ELSE Arriving[r]]
AfterEx == [r \in Registers |-> IF r \in Dests(ex) THEN ex.id ELSE Value[r]]

(* The program's registers and the operands of the bundle in decode.       *)
MeantFollows ==
  \A r \in Registers : meant[r] = IF r \in Dests(decode) THEN decode.id ELSE AfterEx[r]
DecodeFollows ==
  \A i \in DOMAIN Sources(decode) : decode.wants[i] = AfterEx[Sources(decode)[i]]

(* The operands of the bundle in EX: in the snapshot, or on its first      *)
(* cycle in what was read and what is written now.                         *)
SnapshotTaken == heldValid <=> wasHeld /\ ex # Bubble
Fresh(o, v) ==
  /\ \A w \in wb : w.addr = o.addr => w.val = v
  /\ (\A w \in wb : w.addr # o.addr) => o.val = v
OperandsReady ==
  ex.op \notin {"none", "copy"} =>
    IF heldValid THEN held = ex.wants
    ELSE /\ prev = [i \in DOMAIN ex.wants |-> prev[i]]
         /\ \A i \in DOMAIN ex.wants : Fresh(prev[i], ex.wants[i])

(* A register that is loaded is owed until its wait has left EX, and       *)
(* nobody behind the load uses it before, nor writes to its bank unless    *)
(* the program takes that liberty.                                         *)
Clear(r, b) ==
  /\ \A i \in DOMAIN Sources(b) : Sources(b)[i] # r
  /\ r \notin Dests(b)
  /\ "loadBank" \in Liberties \/ \A d \in Dests(b) : BankOf(d) # BankOf(r)
WaitsFor(b, r) == b.op = "wait" /\ b.dest = r
LoadsApart ==
  /\ flight # Nothing =>
       /\ Clear(flight.dest, ex)
       /\ WaitsFor(ex, flight.dest) \/ Clear(flight.dest, decode)
       /\ WaitsFor(ex, flight.dest) \/ WaitsFor(decode, flight.dest) \/ flight.dest \in owed
  /\ ex.op = "load" =>
       /\ Clear(ex.dest, decode)
       /\ WaitsFor(decode, ex.dest) \/ ex.dest \in owed
  /\ decode.op = "load" => decode.dest \in owed

(* A copy starts with its lanes as the program means them, and reads them  *)
(* so unless a vector operation in decode has its port or a CONST held in  *)
(* EX writes the lane.                                                     *)
Overwritten(r) == ex.op = "const" /\ ex.dest = r
CopyReady ==
  ex.op = "copy" => \A i \in DOMAIN Sources(ex) : ex.wants[i] = Value[Sources(ex)[i]]
CopyUnderWay ==
  Copying =>
    /\ copy.lanes \in [1 .. Lanes -> Registers]
    /\ \A i \in 1 .. Lanes :
         /\ flight.dest # copy.lanes[i]
         /\ Overwritten(copy.lanes[i]) \/ copy.wants[i] = Value[copy.lanes[i]]
    /\ copy.read # << >> =>
         /\ copy.next # 0 /\ copy.read[1].addr = copy.lanes[copy.next]
         /\ \/ Fresh(copy.read[1], copy.wants[copy.next])
            \/ decode.op = "valu"
            \/ Overwritten(copy.read[1].addr)

IInv ==
  /\ Types /\ OnePerBank
  /\ MeantFollows /\ DecodeFollows
  /\ SnapshotTaken /\ OperandsReady
  /\ LoadsApart
  /\ CopyReady /\ CopyUnderWay
-----------------------------------------------------------------------------
(* Registers and banks.                                                    *)
LEMMA DivisionFacts ==
  ASSUME NEW n \in Nat, NEW a \in Nat \ {0}
  PROVE  n \div a \in Nat /\ n % a \in 0..(a - 1) /\ n = a * (n \div a) + (n % a)
OBVIOUS

LEMMA LaneInRegisters ==
  ASSUME NEW r \in Registers, NEW l \in 1 .. Lanes
  PROVE  LanesFrom(r)[l] \in Registers
<1>1. r + l - 1 \in Nat /\ NRegisters \in Nat \ {0}
  BY OperandAssumption DEF Registers
<1>2. (r + l - 1) % NRegisters \in 0 .. NRegisters - 1
  BY <1>1, DivisionFacts
<1> QED
  BY <1>2 DEF LanesFrom, Registers

(* The remainder by the number of banks survives the wrap-around.          *)
LEMMA WrapKeepsBank ==
  ASSUME NEW n \in Nat
  PROVE  \E q \in Int : BankOf(n % NRegisters) = n - NBanks * q
<1>1. NRegisters \in Nat \ {0} /\ NBanks \in Nat \ {0} /\ NRegisters % NBanks = 0
  BY OperandAssumption
<1> DEFINE k == NRegisters \div NBanks
           d == n \div NRegisters
           m == n % NRegisters
           e == m \div NBanks
<1>2. k \in Nat /\ NRegisters = NBanks * k
  BY <1>1, DivisionFacts
<1>3. d \in Nat /\ m \in Nat /\ n = NRegisters * d + m
  BY <1>1, DivisionFacts
<1>4. e \in Nat /\ m % NBanks \in Nat /\ m = NBanks * e + (m % NBanks)
  BY <1>1, <1>3, DivisionFacts
<1> HIDE DEF k, d, m, e
<1>5. NRegisters * d = NBanks * (k * d) /\ k * d \in Nat
  BY <1>1, <1>2, <1>3
<1>6. NBanks * (k * d + e) = NBanks * (k * d) + NBanks * e /\ k * d + e \in Int
  BY <1>1, <1>4, <1>5
<1>7. m % NBanks = n - NBanks * (k * d + e)
  BY <1>1, <1>3, <1>4, <1>5, <1>6
<1> QED
  BY <1>6, <1>7 DEF BankOf, m

(* The lanes of a vector lie in different banks.                           *)
LEMMA LanesInBanks ==
  ASSUME NEW r \in Registers, NEW k \in 1 .. Lanes, NEW l \in 1 .. Lanes,
         BankOf(LanesFrom(r)[k]) = BankOf(LanesFrom(r)[l])
  PROVE  k = l
<1>1. /\ r \in Nat /\ k \in Nat /\ l \in Nat /\ Lanes \in Nat /\ NBanks \in Nat \ {0}
      /\ r + k - 1 \in Nat /\ r + l - 1 \in Nat /\ Lanes <= NBanks
  BY OperandAssumption DEF Registers
<1>0. /\ LanesFrom(r)[k] = (r + k - 1) % NRegisters
      /\ LanesFrom(r)[l] = (r + l - 1) % NRegisters
  BY DEF LanesFrom
<1>2. PICK p \in Int : BankOf((r + k - 1) % NRegisters) = (r + k - 1) - NBanks * p
  BY <1>1, WrapKeepsBank
<1>3. PICK q \in Int : BankOf((r + l - 1) % NRegisters) = (r + l - 1) - NBanks * q
  BY <1>1, WrapKeepsBank
<1>4. NBanks * p \in Int /\ NBanks * q \in Int /\ k - l = NBanks * p - NBanks * q
  <2>1. NBanks * p \in Int /\ NBanks * q \in Int
    BY <1>1
  <2>2. (r + k - 1) - NBanks * p = (r + l - 1) - NBanks * q
    BY <1>0, <1>2, <1>3
  <2> QED
    BY <2>1, <2>2, <1>1
<1>5. k - l < NBanks /\ l - k < NBanks
  BY <1>1
<1>6. p - q \in Int /\ NBanks * (p - q) = NBanks * p - NBanks * q
  BY <1>1
<1>7. p - q = 0
  <2>1. CASE p - q >= 1
    <3>1. NBanks * (p - q) >= NBanks
      BY <2>1, <1>1, <1>6
    <3> QED
      BY <3>1, <1>1, <1>4, <1>5, <1>6
  <2>2. CASE p - q <= -1
    <3>1. NBanks * (q - p) >= NBanks /\ NBanks * (q - p) = NBanks * q - NBanks * p
      BY <2>2, <1>1, <1>6
    <3> QED
      BY <3>1, <1>1, <1>4, <1>5, <1>6
  <2> QED
    BY <2>1, <2>2, <1>6
<1> QED
  BY <1>1, <1>4, <1>6, <1>7

-----------------------------------------------------------------------------
LEMMA FunctionIsSequence ==
  ASSUME NEW S, NEW n \in Nat, NEW f \in [1 .. n -> S]
  PROVE  f \in Seq(S)
OBVIOUS

LEMMA ElementsInSet ==
  ASSUME NEW S, NEW s \in Seq(S), NEW i \in DOMAIN s
  PROVE  s[i] \in S
OBVIOUS

LEMMA ConcatenationInSet ==
  ASSUME NEW S, NEW s \in Seq(S), NEW t \in Seq(S)
  PROVE  s \o t \in Seq(S)
OBVIOUS

(* What a bundle reads and writes.                                         *)
PortReads == [addr : Registers, port : {"A", "B"}]

LEMMA OnInSequence ==
  ASSUME NEW port \in {"A", "B"}, NEW r \in Registers
  PROVE  On(port, LanesFrom(r)) \in Seq(PortReads) /\ On(port, <<r>>) \in Seq(PortReads)
<1>1. Lanes \in Nat /\ DOMAIN LanesFrom(r) = 1 .. Lanes
  BY OperandAssumption DEF LanesFrom
<1>2. On(port, LanesFrom(r)) = [i \in 1 .. Lanes |-> [addr |-> LanesFrom(r)[i], port |-> port]]
  BY <1>1 DEF On
<1>3. On(port, LanesFrom(r)) \in [1 .. Lanes -> PortReads]
  BY <1>2, LaneInRegisters DEF PortReads
<1>4. On(port, <<r>>) \in [1 .. 1 -> PortReads]
  BY DEF On, PortReads
<1> QED
  BY <1>1, <1>3, <1>4, FunctionIsSequence

LEMMA PortsInRegisters ==
  ASSUME NEW b, Sound(b)
  PROVE  \A i \in DOMAIN Presented(b) : Presented(b)[i].addr \in Registers
<1>1. CASE Presented(b) \in Seq(PortReads)
  <2>1. \A i \in DOMAIN Presented(b) : Presented(b)[i] \in PortReads
    BY <1>1, ElementsInSet
  <2> QED
    BY <2>1 DEF PortReads
<1>3. CASE b.op = "valu"
  <2>1. b.reads[1] \in Registers /\ b.reads[2] \in Registers
    BY <1>3 DEF Sound
  <2>2. Presented(b) \in Seq(PortReads)
    BY <1>3, <2>1, OnInSequence, ConcatenationInSet DEF Presented
  <2> QED
    BY <2>2, <1>1
<1>4. CASE b.op = "vstore"
  <2>1. b.reads[1] \in Registers /\ b.reads[2] \in Registers
    BY <1>4 DEF Sound
  <2>2. Presented(b) \in Seq(PortReads)
    BY <1>4, <2>1, OnInSequence, ConcatenationInSet DEF Presented
  <2> QED
    BY <2>2, <1>1
<1>5. CASE b.op = "copy"
  BY <1>5 DEF Presented
<1>6. CASE b.op \notin {"valu", "vstore", "copy"}
  <2>1. Presented(b) = ScalarReads(b.reads)
    BY <1>6 DEF Presented
  <2>2. \A i \in DOMAIN b.reads : b.reads[i] \in Registers
    BY DEF Sound
  <2> QED
    BY <2>1, <2>2 DEF ScalarReads
<1> QED
  BY <1>3, <1>4, <1>5, <1>6

LEMMA SourcesInRegisters ==
  ASSUME NEW b, Sound(b)
  PROVE  /\ \A i \in DOMAIN Sources(b) : Sources(b)[i] \in Registers
         /\ b.op # "copy" => /\ DOMAIN Sources(b) = DOMAIN Presented(b)
                             /\ \A i \in DOMAIN Sources(b) :
                                  Sources(b)[i] = Presented(b)[i].addr
<1>1. CASE b.op = "copy"
  <2>1. b.reads[1] \in Registers
    BY <1>1 DEF Sound
  <2> QED
    BY <1>1, <2>1, LaneInRegisters DEF Sources, LanesFrom
<1>2. CASE b.op # "copy"
  BY <1>2, PortsInRegisters DEF Sources
<1> QED
  BY <1>1, <1>2

LEMMA SameBundleSameUse ==
  ASSUME NEW b, NEW c, b.op = c.op, b.reads = c.reads, b.dest = c.dest
  PROVE  Sources(b) = Sources(c) /\ Dests(b) = Dests(c)
BY DEF Sources, Dests, Presented

(* A bundle writes registers of different banks.                           *)
LEMMA DestsInBanks ==
  ASSUME NEW b, b.op \in Kinds, b.dest \in Registers
  PROVE  /\ Dests(b) \subseteq Registers
         /\ \A c, d \in Dests(b) : BankOf(c) = BankOf(d) => c = d
         /\ b.op \in {"alu", "const", "flow", "load"} => Dests(b) = {b.dest}
         /\ b.op \in {"none", "vstore", "wait", "copy"} => Dests(b) = {}
<1>1. CASE b.op = "valu"
  <2>1. Dests(b) = {LanesFrom(b.dest)[l] : l \in 1 .. Lanes}
    BY <1>1 DEF Dests, ToSet, LanesFrom
  <2> QED
    BY <1>1, <2>1, LaneInRegisters, LanesInBanks
<1>2. CASE b.op # "valu"
  BY <1>2 DEF Dests, Kinds, Ops
<1> QED
  BY <1>1, <1>2

-----------------------------------------------------------------------------
LEMMA RegistersAreNotNothing == \A r \in Registers : Nothing.dest # r
BY OperandAssumption DEF Nothing, Registers

(* The write of a bank that has one is the last to it.                     *)
LEMMA WinnerOfOne ==
  ASSUME NEW ws, NEW w \in ws, w.port \in Int, \A v \in ws : v = w
  PROVE  Winner(ws) = w
<1>1. ws = {w}
  OBVIOUS
<1>2. \A v \in ws : v.port <= w.port
  BY <1>1
<1> QED
  BY <1>1, <1>2 DEF Winner

LEMMA ArrivingFacts ==
  ASSUME Types, OnePerBank
  PROVE  /\ Arriving \in [Registers -> 0 .. MaxBundles]
         /\ \A w \in wb : Arriving[w.addr] = w.val
         /\ \A r \in Registers : (\A w \in wb : w.addr # r) => Arriving[r] = mem[r]
<1>1. \A w \in wb : w.addr \in Registers /\ w.val \in 1 .. MaxBundles
  BY DEF Types
<1>2. \A v, w \in wb : v.addr = w.addr => v = w
  BY DEF OnePerBank
<1>3. \A w \in wb : (CHOOSE v \in wb : v.addr = w.addr) = w
  BY <1>2
<1>4. \A w \in wb : Arriving[w.addr] = w.val
  BY <1>1, <1>3 DEF Arriving
<1>5. \A r \in Registers : (\A w \in wb : w.addr # r) => Arriving[r] = mem[r]
  BY DEF Arriving
<1>6. \A r \in Registers : Arriving[r] \in 0 .. MaxBundles
  <2> TAKE r \in Registers
  <2>1. CASE \E w \in wb : w.addr = r
    BY <2>1, <1>1, <1>4
  <2>2. CASE \A w \in wb : w.addr # r
    BY <2>2, <1>5 DEF Types
  <2> QED
    BY <2>1, <2>2
<1> QED
  BY <1>4, <1>5, <1>6 DEF Arriving

LEMMA WrittenIsArriving ==
  ASSUME Types, OnePerBank
  PROVE  Written = Arriving
<1> SUFFICES ASSUME NEW r \in Registers
             PROVE  Written[r] = Arriving[r]
  BY DEF Written, Arriving
<1>1. \A w \in wb : w.addr \in Registers /\ w.port \in Int
  BY DEF Types
<1>2. CASE Writing(BankOf(r)) = {}
  <2>1. \A w \in wb : w.addr # r
    BY <1>2 DEF Writing
  <2> QED
    BY <1>2, <2>1, ArrivingFacts DEF Written
<1>3. ASSUME NEW w \in Writing(BankOf(r))
      PROVE  Written[r] = Arriving[r]
  <2>1. w \in wb /\ BankOf(w.addr) = BankOf(r)
    BY <1>3 DEF Writing
  <2>2. \A v \in Writing(BankOf(r)) : v = w
    BY <2>1 DEF Writing, OnePerBank
  <2>3. Winner(Writing(BankOf(r))) = w
    BY <1>1, <1>3, <2>1, <2>2, WinnerOfOne
  <2>4. CASE w.addr = r
    BY <2>1, <2>3, <2>4, <1>3, ArrivingFacts DEF Written
  <2>5. CASE w.addr # r
    <3>1. \A v \in wb : v.addr # r
      BY <2>2, <2>5 DEF Writing
    <3> QED
      BY <3>1, <2>3, <2>5, <1>3, ArrivingFacts DEF Written
  <2> QED
    BY <2>4, <2>5
<1> QED
  BY <1>2, <1>3

(* What is read for the bundle in decode, and through the port of a copy,  *)
(* is what arrives, unless the port was taken.                             *)
LEMMA ReadIsArriving ==
  ASSUME Types, OnePerBank, NEW o, o.addr \in Registers, ~PortTaken(o)
  PROVE  Read(o) = Arriving[o.addr]
<1>1. CASE WritesTo(o.addr) = {}
  <2>1. \A w \in wb : w.addr # o.addr
    BY <1>1 DEF WritesTo
  <2> QED
    BY <1>1, <2>1, ArrivingFacts DEF Read
<1>2. ASSUME NEW w \in WritesTo(o.addr)
      PROVE  Read(o) = Arriving[o.addr]
  <2>1. w \in wb /\ w.addr = o.addr /\ w.port \in Int
    BY <1>2 DEF WritesTo, Types
  <2>2. \A v \in WritesTo(o.addr) : v = w
    BY <2>1 DEF WritesTo, OnePerBank
  <2>3. Winner(WritesTo(o.addr)) = w
    BY <1>2, <2>1, <2>2, WinnerOfOne
  <2> QED
    BY <1>2, <2>1, <2>3, ArrivingFacts DEF Read
<1> QED
  BY <1>1, <1>2

(* What the gap-1 bypass hands to EX.                                      *)
LEMMA FreshIsBypassed ==
  ASSUME Types, OnePerBank, NEW o, NEW v, Fresh(o, v)
  PROVE  Bypassed(o) = v
<1>1. CASE WritesTo(o.addr) = {}
  BY <1>1 DEF WritesTo, Fresh, Bypassed
<1>2. ASSUME NEW w \in WritesTo(o.addr)
      PROVE  Bypassed(o) = v
  <2>1. w \in wb /\ w.addr = o.addr /\ w.port \in Int
    BY <1>2 DEF WritesTo, Types
  <2>2. \A u \in WritesTo(o.addr) : u = w
    BY <2>1 DEF WritesTo, OnePerBank
  <2>3. Winner(WritesTo(o.addr)) = w
    BY <1>2, <2>1, <2>2, WinnerOfOne
  <2> QED
    BY <1>2, <2>1, <2>3 DEF Bypassed, Fresh
<1> QED
  BY <1>1, <1>2

-----------------------------------------------------------------------------
(* The writes of the next cycle are the results of EX, in a cycle that     *)
(* does not hold it or if it is a CONST, and the load that was answered.   *)
LEMMA NextWrites ==
  ASSUME Types, NEW hold \in BOOLEAN, NEW answer \in BOOLEAN, Datapath(hold, answer)
  PROVE  /\ wb' \subseteq [addr : Registers, val : 1 .. MaxBundles, port : 1 .. 5]
         /\ \A w \in wb' :
              \/ /\ w.addr \in Dests(ex) /\ w.val = ex.id
                 /\ ex.op # "load" /\ (hold => ex.op = "const")
                 /\ w = [addr |-> w.addr, val |-> ex.id, port |-> WritePort[ex.op]]
              \/ /\ answer /\ w.addr = flight.dest /\ w.val = flight.val
                 /\ w = [addr |-> flight.dest, val |-> flight.val, port |-> WritePort.load]
         /\ ~hold /\ ex.op # "load" => \A r \in Dests(ex) : \E w \in wb' : w.addr = r
         /\ answer => \E w \in wb' : w.addr = flight.dest
<1> DEFINE mine == IF Writes(hold) THEN Results(ex) ELSE {}
           loaded == IF answer THEN Answered ELSE {}
<1>1. wb' = mine \cup loaded
  BY DEF Datapath, WriteBack
<1>2. Sound(ex) /\ ex.op \in Kinds /\ ex.dest \in Registers
  BY DEF Types, Sound
<1>3. \A w \in mine :
        /\ w.addr \in Dests(ex) /\ w.val = ex.id /\ ex.op # "load"
        /\ hold => ex.op = "const"
        /\ w.val \in 1 .. MaxBundles /\ w.port \in 1 .. 5
        /\ w = [addr |-> w.addr, val |-> ex.id, port |-> WritePort[ex.op]]
  <2> SUFFICES ASSUME NEW w \in mine, Writes(hold)
               PROVE  /\ w.addr \in Dests(ex) /\ w.val = ex.id /\ ex.op # "load"
                      /\ hold => ex.op = "const"
                      /\ w.val \in 1 .. MaxBundles /\ w.port \in 1 .. 5
                      /\ w = [addr |-> w.addr, val |-> ex.id, port |-> WritePort[ex.op]]
    OBVIOUS
  <2>1. PICK r \in Dests(ex) : w = [addr |-> r, val |-> ex.id, port |-> WritePort[ex.op]]
    BY DEF Results
  <2>2. ex.op \in {"alu", "const", "flow", "load", "valu"}
    BY <1>2, <2>1, DestsInBanks DEF Kinds, Ops
  <2>3. ex.op # "load" /\ (hold => ex.op = "const")
    BY DEF Writes
  <2>4. ex.id \in 1 .. MaxBundles
    BY <2>2 DEF Types, Sound
  <2>5. WritePort[ex.op] \in 1 .. 5
    BY <2>2 DEF WritePort
  <2> QED
    BY <2>1, <2>3, <2>4, <2>5
<1>4. answer => flight \in [dest : Registers, val : 1 .. MaxBundles]
  BY DEF Datapath, Types
<1>5. \A w \in loaded :
        /\ answer /\ w.addr = flight.dest /\ w.val = flight.val
        /\ w = [addr |-> flight.dest, val |-> flight.val, port |-> WritePort.load]
  BY DEF Answered
<1>6. WritePort.load = 3
  BY DEF WritePort
<1> HIDE DEF mine, loaded
<1>7. wb' \subseteq [addr : Registers, val : 1 .. MaxBundles, port : 1 .. 5]
  <2>1. \A d \in Dests(ex) : d \in Registers
    BY <1>2, DestsInBanks
  <2>2. \A w \in mine : w \in [addr : Registers, val : 1 .. MaxBundles, port : 1 .. 5]
    BY <1>3, <2>1
  <2>3. \A w \in loaded : w \in [addr : Registers, val : 1 .. MaxBundles, port : 1 .. 5]
    BY <1>4, <1>5, <1>6
  <2> QED
    BY <1>1, <2>2, <2>3
<1>8. ~hold /\ ex.op # "load" => \A r \in Dests(ex) : \E w \in wb' : w.addr = r
  <2> SUFFICES ASSUME ~hold, ex.op # "load", NEW r \in Dests(ex)
               PROVE  \E w \in wb' : w.addr = r
    OBVIOUS
  <2>1. [addr |-> r, val |-> ex.id, port |-> WritePort[ex.op]] \in mine
    BY DEF mine, Writes, Results
  <2> QED
    BY <1>1, <2>1
<1>9. answer => \E w \in wb' : w.addr = flight.dest
  <2> SUFFICES ASSUME answer
               PROVE  \E w \in wb' : w.addr = flight.dest
    OBVIOUS
  <2>1. [addr |-> flight.dest, val |-> flight.val, port |-> WritePort.load] \in loaded
    BY DEF loaded, Answered
  <2> QED
    BY <1>1, <2>1
<1> QED
  BY <1>1, <1>3, <1>5, <1>7, <1>8, <1>9

(* Two different writes of one bank: one is the answer of a load.          *)
AnswersMeet ==
  \A v, w \in wb :
    BankOf(v.addr) = BankOf(w.addr) => v = w \/ WritePort.load \in {v.port, w.port}

LEMMA NextAnswersMeet ==
  ASSUME Types, NEW hold \in BOOLEAN, NEW answer \in BOOLEAN, Datapath(hold, answer)
  PROVE  AnswersMeet'
<1> SUFFICES ASSUME NEW v \in wb', NEW w \in wb', BankOf(v.addr) = BankOf(w.addr),
                    v.port # WritePort.load, w.port # WritePort.load
             PROVE  v = w
  BY DEF AnswersMeet
<1>1. \A u \in wb' : u.port # WritePort.load =>
        /\ u.addr \in Dests(ex)
        /\ u = [addr |-> u.addr, val |-> ex.id, port |-> WritePort[ex.op]]
  BY NextWrites
<1>2. v.addr = w.addr
  BY <1>1, DestsInBanks DEF Types, Sound
<1> QED
  BY <1>1, <1>2

(* A program that keeps off the banks of its loads asks a bank for one.    *)
LEMMA NextOnePerBank ==
  ASSUME Types, LoadsApart, "loadBank" \notin Liberties,
         NEW hold \in BOOLEAN, NEW answer \in BOOLEAN, Datapath(hold, answer)
  PROVE  OnePerBank'
<1> SUFFICES ASSUME NEW v \in wb', NEW w \in wb', BankOf(v.addr) = BankOf(w.addr)
             PROVE  v = w
  BY DEF OnePerBank
<1>1. \A u \in wb' : /\ u.addr \in Dests(ex)
                       /\ u = [addr |-> u.addr, val |-> ex.id, port |-> WritePort[ex.op]]
                    \/ /\ answer
                       /\ u = [addr |-> flight.dest, val |-> flight.val, port |-> WritePort.load]
  BY NextWrites
<1>2. answer => \A d \in Dests(ex) : BankOf(d) # BankOf(flight.dest)
  BY DEF Datapath, LoadsApart, Clear
<1>3. CASE v.addr \in Dests(ex) /\ w.addr \in Dests(ex)
  <2>1. v.addr = w.addr
    BY <1>3, DestsInBanks DEF Types, Sound
  <2>2. \A u \in {v, w} : u = [addr |-> u.addr, val |-> ex.id, port |-> WritePort[ex.op]]
    <3>1. \A u \in {v, w} : ~(answer /\ u.addr = flight.dest)
      BY <1>2, <1>3
    <3> QED
      BY <1>1, <3>1
  <2> QED
    BY <2>1, <2>2
<1>4. CASE ~(v.addr \in Dests(ex) /\ w.addr \in Dests(ex))
  BY <1>1, <1>2, <1>4
<1> QED
  BY <1>3, <1>4

(* One cycle of the data path carries every register to what EX and the    *)
(* load in flight make of it, and nothing else moves.                      *)
LEMMA NextValue ==
  ASSUME IInv, OnePerBank', NEW hold \in BOOLEAN, NEW answer \in BOOLEAN, Datapath(hold, answer),
         hold \/ ~MemStall, NEW r \in Registers
  PROVE  /\ ~hold => Value'[r] = AfterEx[r]
         /\ hold /\ (ex.op = "const" => r \notin Dests(ex)) => Value'[r] = Value[r]
<1> USE DEF IInv
<1>1. mem' = Arriving /\ Arriving \in [Registers -> 0 .. MaxBundles]
  BY WrittenIsArriving, ArrivingFacts DEF Datapath
<1>2. /\ \A w \in wb' : w.addr = r => Arriving'[r] = w.val
      /\ (\A w \in wb' : w.addr # r) => Arriving'[r] = Arriving[r]
  <2>1. ASSUME NEW w \in wb', w.addr = r
        PROVE  Arriving'[r] = w.val
    <3>1. (CHOOSE v \in wb' : v.addr = r) = w
      BY <2>1, NextWrites DEF OnePerBank
    <3> QED
      BY <2>1, <3>1 DEF Arriving
  <2>2. ASSUME \A w \in wb' : w.addr # r
        PROVE  Arriving'[r] = Arriving[r]
    BY <2>2, <1>1 DEF Arriving
  <2> QED
    BY <2>1, <2>2
<1>3. flight # Nothing => /\ flight.dest \notin Dests(ex) /\ flight.dest \in Registers
                          /\ hold \/ ex.op # "load"
  BY DEF LoadsApart, Clear, MemStall, Types
<1>4. flight = Nothing => ~answer /\ flight.dest # r
  BY RegistersAreNotNothing DEF Datapath
<1>5. ex.op = "load" => Dests(ex) = {ex.dest}
  BY DestsInBanks DEF Types, Sound
<1>6. /\ answer => flight' = Nothing
      /\ ~answer /\ ~hold /\ ex.op = "load" => flight' = [dest |-> ex.dest, val |-> ex.id]
      /\ ~answer /\ ~(~hold /\ ex.op = "load") => flight' = flight
  <2>1. CASE answer
    <3>1. ~(~hold /\ ex.op = "load")
      BY <1>3, <1>4, <2>1
    <3> QED
      BY <2>1, <3>1 DEF Datapath, Load
  <2>2. CASE ~answer
    BY <2>2 DEF Datapath, Load
  <2> QED
    BY <2>1, <2>2
<1>7. Value'[r] = IF flight'.dest = r THEN flight'.val ELSE Arriving'[r]
  BY DEF Value
<1>8. Value[r] = IF flight.dest = r THEN flight.val ELSE Arriving[r]
  BY DEF Value
<1>9. AfterEx[r] = IF r \in Dests(ex) THEN ex.id ELSE Value[r]
  BY DEF AfterEx
<1>10. CASE answer /\ flight.dest = r
  <2>1. flight' = Nothing /\ flight'.dest # r
    <3>1. flight' = Nothing
      BY <1>6, <1>10
    <3> QED
      BY <3>1, RegistersAreNotNothing
  <2>2. PICK w \in wb' : w.addr = r
    BY <1>10, NextWrites
  <2>3. w.val = flight.val
    BY <1>3, <1>4, <1>10, <2>2, NextWrites
  <2> QED
    BY <1>2, <1>3, <1>4, <1>7, <1>8, <1>9, <1>10, <2>1, <2>2, <2>3
<1>11. CASE ~(answer /\ flight.dest = r) /\ r \in Dests(ex) /\ ~hold
  <2>1. CASE ex.op = "load"
    <3>1. flight = Nothing /\ ~answer /\ ex.dest = r
      BY <1>3, <1>4, <1>5, <1>11, <2>1
    <3>2. flight' = [dest |-> ex.dest, val |-> ex.id]
      BY <1>6, <1>11, <2>1, <3>1
    <3> QED
      BY <1>7, <1>9, <1>11, <3>1, <3>2
  <2>2. CASE ex.op # "load"
    <3>1. PICK w \in wb' : w.addr = r
      BY <1>11, <2>2, NextWrites
    <3>2. w.val = ex.id
      BY <1>11, <3>1, NextWrites
    <3>3. flight'.dest # r
      BY <1>3, <1>4, <1>6, <1>11, <2>2, RegistersAreNotNothing
    <3> QED
      BY <1>2, <1>7, <1>9, <1>11, <3>1, <3>2, <3>3
  <2> QED
    BY <2>1, <2>2
<1>12. CASE ~(answer /\ flight.dest = r) /\ (r \notin Dests(ex) \/ (hold /\ ex.op # "const"))
  <2>1. \A w \in wb' : w.addr # r
    BY <1>12, NextWrites
  <2>2. flight.dest = r => flight' = flight
    BY <1>3, <1>4, <1>6, <1>12
  <2>3. flight'.dest = r => flight' = flight
    BY <1>5, <1>6, <1>12, RegistersAreNotNothing
  <2> QED
    BY <1>2, <1>7, <1>8, <1>9, <1>12, <2>1, <2>2, <2>3
<1> QED
  BY <1>10, <1>11, <1>12

(* The banks take the last write they are asked for, however many.         *)
LEMMA WinnerIsOneOfThem ==
  ASSUME NEW ws, \A w \in ws : w.port \in 1 .. 5, ws # {}
  PROVE  Winner(ws) \in ws
<1>1. \E w \in ws : \A v \in ws : v.port <= w.port
  <2> DEFINE Some(p) == \E w \in ws : w.port = p
  <2>1. CASE Some(5)
    BY <2>1
  <2>2. CASE ~Some(5) /\ Some(4)
    BY <2>2
  <2>3. CASE ~Some(5) /\ ~Some(4) /\ Some(3)
    BY <2>3
  <2>4. CASE ~Some(5) /\ ~Some(4) /\ ~Some(3) /\ Some(2)
    BY <2>4
  <2>5. CASE ~Some(5) /\ ~Some(4) /\ ~Some(3) /\ ~Some(2)
    BY <2>5
  <2> QED
    BY <2>1, <2>2, <2>3, <2>4, <2>5
<1> QED
  BY <1>1 DEF Winner

LEMMA WrittenTypes ==
  ASSUME Types
  PROVE  Written \in [Registers -> 0 .. MaxBundles]
<1> SUFFICES ASSUME NEW r \in Registers
             PROVE  Written[r] \in 0 .. MaxBundles
  BY DEF Written
<1> DEFINE ws == Writing(BankOf(r))
<1>1. ws \subseteq wb /\ \A w \in wb : w.port \in 1 .. 5 /\ w.val \in 1 .. MaxBundles
  BY DEF Writing, Types
<1>2. ws # {} => Winner(ws) \in wb
  BY <1>1, WinnerIsOneOfThem
<1>3. Written[r] = IF ws # {} /\ Winner(ws).addr = r THEN Winner(ws).val ELSE mem[r]
  BY DEF Written
<1>4. mem[r] \in 0 .. MaxBundles
  BY DEF Types
<1> QED
  BY <1>1, <1>2, <1>3, <1>4

(* The registers of the data path keep their types.                        *)
LEMMA DatapathTypes ==
  ASSUME Types, NEW hold \in BOOLEAN, NEW answer \in BOOLEAN, Datapath(hold, answer)
  PROVE  /\ mem' \in [Registers -> 0 .. MaxBundles]
         /\ heldValid' \in BOOLEAN /\ wasHeld' \in BOOLEAN
         /\ track' \in [Registers -> 0 .. 3]
         /\ flight' = Nothing \/ flight' \in [dest : Registers, val : 1 .. MaxBundles]
         /\ (copy = [lanes |-> copy.lanes, wants |-> copy.wants, next |-> copy.next, read |-> copy.read])'
         /\ copy'.next \in 0 .. Lanes
<1> USE DEF Types
<1>1. mem' \in [Registers -> 0 .. MaxBundles]
  BY WrittenTypes DEF Datapath
<1>2. heldValid' \in BOOLEAN
  BY DEF Datapath, Snapshot
<1>3. wasHeld' \in BOOLEAN
  BY DEF Datapath
<1>4. track' \in [Registers -> 0 .. 3]
  BY DEF Datapath, Load, Tick
<1>5. flight' = Nothing \/ flight' \in [dest : Registers, val : 1 .. MaxBundles]
  <2>1. ex.op = "load" => ex.dest \in Registers /\ ex.id \in 1 .. MaxBundles
    BY DEF Sound
  <2>2. \/ flight' = Nothing \/ flight' = flight
        \/ ex.op = "load" /\ flight' = [dest |-> ex.dest, val |-> ex.id]
    BY DEF Datapath, Load
  <2> QED
    BY <2>1, <2>2
<1>6. copy' = [lanes |-> copy'.lanes, wants |-> copy'.wants,
               next |-> copy'.next, read |-> copy'.read]
  BY DEF Datapath, Copy, NoCopy
<1>7. copy'.next \in 0 .. Lanes
  <2>1. \/ copy.next < Lanes /\ copy'.next = copy.next + 1
        \/ copy'.next = copy.next
        \/ copy'.next = 0
    BY DEF Datapath, Copy, NoCopy
  <2> QED
    BY <2>1, OperandAssumption
<1> QED
  BY <1>1, <1>2, <1>3, <1>4, <1>5, <1>6, <1>7

(* Whether the snapshot counts follows the hold and the bundle.            *)
LEMMA NextSnapshot ==
  ASSUME IInv, NEW hold \in BOOLEAN, NEW answer \in BOOLEAN, Datapath(hold, answer),
         hold => ex' = ex
  PROVE  SnapshotTaken'
<1>1. /\ wasHeld' = hold
      /\ IF hold /\ ~wasHeld THEN heldValid' = (ex # Bubble)
         ELSE heldValid' = (heldValid /\ (hold \/ ex = Bubble))
  BY DEF Datapath, Snapshot
<1>2. heldValid \in BOOLEAN /\ wasHeld \in BOOLEAN /\ (heldValid <=> wasHeld /\ ex # Bubble)
  BY DEF IInv, Types, SnapshotTaken
<1>3. CASE hold
  BY <1>1, <1>2, <1>3 DEF SnapshotTaken
<1>4. CASE ~hold
  BY <1>1, <1>2, <1>4 DEF SnapshotTaken
<1> QED
  BY <1>3, <1>4

(* The operands read for the bundle in EX are right when it first gets     *)
(* there, and a hold keeps them in the snapshot.                           *)
LEMMA LiveOperands ==
  ASSUME IInv, ex.op \notin {"none", "copy"}
  PROVE  Operands = ex.wants
<1>1. CASE heldValid
  BY <1>1 DEF IInv, OperandsReady, Operands
<1>2. CASE ~heldValid
  <2>1. /\ prev = [i \in DOMAIN ex.wants |-> prev[i]]
        /\ \A i \in DOMAIN ex.wants : Fresh(prev[i], ex.wants[i])
    BY <1>2 DEF IInv, OperandsReady
  <2>2. \A i \in DOMAIN ex.wants : Bypassed(prev[i]) = ex.wants[i]
    BY <2>1, FreshIsBypassed DEF IInv
  <2>3. DOMAIN prev = DOMAIN ex.wants
    BY <2>1
  <2>4. Live = [i \in DOMAIN ex.wants |-> ex.wants[i]]
    BY <2>2, <2>3 DEF Live
  <2>5. ex.wants = [i \in DOMAIN Sources(ex) |-> ex.wants[i]]
    BY DEF IInv, Types, Sound
  <2>6. ex.wants = [i \in DOMAIN ex.wants |-> ex.wants[i]]
    BY <2>5
  <2> QED
    BY <1>2, <2>4, <2>6 DEF Operands
<1> QED
  BY <1>1, <1>2

-----------------------------------------------------------------------------
(* A hold: the bundles stay, whoever finishes meanwhile.                   *)
LEMMA HoldKeepsValues ==
  ASSUME IInv, OnePerBank', NEW answer \in BOOLEAN, Datapath(TRUE, answer), UNCHANGED ex, Stays
  PROVE  MeantFollows' /\ DecodeFollows'
<1>1. \A r \in Registers : r \notin Dests(ex) => Value'[r] = Value[r]
  BY NextValue
<1>2. AfterEx' = AfterEx
  <2>1. AfterEx' = [r \in Registers |-> IF r \in Dests(ex) THEN ex.id ELSE Value'[r]]
    BY DEF AfterEx
  <2> QED
    BY <1>1, <2>1 DEF AfterEx
<1>3. decode' = decode /\ meant' = meant
  BY DEF Stays
<1>4. MeantFollows'
  BY <1>2, <1>3 DEF MeantFollows, IInv
<1>5. DecodeFollows'
  BY <1>2, <1>3 DEF DecodeFollows, IInv
<1> QED
  BY <1>4, <1>5

LEMMA HoldKeepsOperands ==
  ASSUME IInv, NEW answer \in BOOLEAN, Datapath(TRUE, answer), UNCHANGED ex, Stays
  PROVE  OperandsReady'
<1> SUFFICES ASSUME ex.op \notin {"none", "copy"}
             PROVE  heldValid' /\ held' = ex.wants
  BY DEF OperandsReady
<1>1. ex # Bubble
  BY DEF Bubble
<1>2. heldValid <=> wasHeld
  BY <1>1 DEF IInv, SnapshotTaken
<1>3. Operands = ex.wants
  BY LiveOperands
<1>4. CASE wasHeld
  BY <1>2, <1>3, <1>4 DEF Datapath, Snapshot, Operands
<1>5. CASE ~wasHeld
  BY <1>1, <1>2, <1>3, <1>5 DEF Datapath, Snapshot, Operands
<1> QED
  BY <1>4, <1>5

LEMMA HoldKeepsLoads ==
  ASSUME IInv, NEW answer \in BOOLEAN, Datapath(TRUE, answer), UNCHANGED ex, Stays
  PROVE  LoadsApart'
<1>1. flight' = Nothing \/ flight' = flight
  BY DEF Datapath, Load
<1>2. decode' = decode /\ ex' = ex /\ owed' = owed
  BY DEF Stays
<1>3. CASE flight' = Nothing
  BY <1>2, <1>3 DEF LoadsApart, IInv
<1>4. CASE flight' = flight
  BY <1>2, <1>4 DEF LoadsApart, IInv
<1> QED
  BY <1>1, <1>3, <1>4

(* A copy reads the value of a lane in every cycle but its last ones, and  *)
(* starts with the values the copy in EX was promised.                     *)
LEMMA NextCopy ==
  ASSUME IInv, OnePerBank', NEW hold \in BOOLEAN, NEW answer \in BOOLEAN, Datapath(hold, answer),
         hold \/ ~MemStall,
         hold => ex' = ex /\ decode' = decode
  PROVE  CopyUnderWay'
<1> SUFFICES ASSUME Copying' PROVE CopyUnderWay'
  BY DEF CopyUnderWay
<1>1. CASE Copying
  <2>1. hold /\ ex' = ex /\ decode' = decode
    BY <1>1 DEF MemStall
  <2>2. /\ copy.lanes \in [1 .. Lanes -> Registers] /\ copy.next \in 0 .. Lanes
        /\ \A i \in 1 .. Lanes :
             /\ flight.dest # copy.lanes[i]
             /\ Overwritten(copy.lanes[i]) \/ copy.wants[i] = Value[copy.lanes[i]]
    BY <1>1 DEF IInv, Types, CopyUnderWay
  <2>0. \A r : Overwritten(r)' <=> Overwritten(r)
    BY <2>1 DEF Overwritten
  <2>3. /\ copy'.lanes = copy.lanes /\ copy'.wants = copy.wants
        /\ \/ copy.next < Lanes /\ copy'.next = copy.next + 1
              /\ copy'.read = <<[addr |-> copy.lanes[copy.next + 1],
                                 val |-> ReadLane(copy.lanes[copy.next + 1])]>>
           \/ copy'.next = copy.next /\ copy'.read = << >>
    <3>1. CASE copy.next < Lanes
      BY <1>1, <3>1 DEF Datapath, Copy, IInv, Types
    <3>2. CASE ~(copy.next < Lanes) /\ copy.read # << >>
      BY <1>1, <2>2, <3>2, OperandAssumption DEF Datapath, Copy, IInv, Types
    <3>3. CASE ~(copy.next < Lanes) /\ copy.read = << >>
      BY <1>1, <3>3 DEF Datapath, Copy, Copying
    <3> QED
      BY <3>1, <3>2, <3>3
  <2>4. \A i \in 1 .. Lanes :
          /\ flight'.dest # copy.lanes[i]
          /\ ~Overwritten(copy.lanes[i]) =>
               /\ Value'[copy.lanes[i]] = Value[copy.lanes[i]]
               /\ \A w \in wb' : w.addr # copy.lanes[i]
    <3> SUFFICES ASSUME NEW i \in 1 .. Lanes
                 PROVE  /\ flight'.dest # copy.lanes[i]
                        /\ ~Overwritten(copy.lanes[i]) =>
                             /\ Value'[copy.lanes[i]] = Value[copy.lanes[i]]
                             /\ \A w \in wb' : w.addr # copy.lanes[i]
      OBVIOUS
    <3>1. copy.lanes[i] \in Registers
      BY <2>2
    <3>2. ~Overwritten(copy.lanes[i]) /\ ex.op = "const" => copy.lanes[i] \notin Dests(ex)
      BY DestsInBanks DEF IInv, Types, Sound, Overwritten
    <3>3. flight' = Nothing \/ flight' = flight
      BY <2>1 DEF Datapath, Load
    <3>4. flight'.dest # copy.lanes[i]
      BY <2>2, <3>1, <3>3, RegistersAreNotNothing
    <3>5. ~Overwritten(copy.lanes[i]) => Value'[copy.lanes[i]] = Value[copy.lanes[i]]
      BY <2>1, <3>1, <3>2, NextValue
    <3>6. ~Overwritten(copy.lanes[i]) => \A w \in wb' : w.addr # copy.lanes[i]
      BY <2>1, <2>2, <3>2, NextWrites DEF IInv
    <3> QED
      BY <3>4, <3>5, <3>6
  <2>5. ASSUME copy.next < Lanes,
               copy'.next = copy.next + 1,
               copy'.read = <<[addr |-> copy.lanes[copy.next + 1],
                               val |-> ReadLane(copy.lanes[copy.next + 1])]>>
        PROVE  /\ copy'.read[1].addr = copy.lanes[copy'.next]
               /\ copy'.next # 0 /\ copy'.next \in 1 .. Lanes
               /\ \/ copy'.read[1].val = copy.wants[copy'.next]
                  \/ decode.op = "valu"
                  \/ Overwritten(copy'.read[1].addr)
    <3>1. copy.next + 1 \in 1 .. Lanes /\ copy.next + 1 # 0
      BY <2>2, <2>5, OperandAssumption
    <3> DEFINE r == copy.lanes[copy.next + 1]
    <3>2. r \in Registers /\ flight.dest # r
          /\ (Overwritten(r) \/ copy.wants[copy.next + 1] = Value[r])
      BY <2>2, <3>1
    <3>3. decode.op # "valu" => ReadLane(r) = Read([addr |-> r, port |-> "A"])
      BY DEF ReadLane
    <3>4. Read([addr |-> r, port |-> "A"]) = Arriving[r]
      BY <3>2, ReadIsArriving DEF IInv, PortTaken
    <3>5. Value[r] = Arriving[r]
      BY <3>2 DEF Value
    <3>6. copy'.read[1] = [addr |-> r, val |-> ReadLane(r)]
      BY <2>5
    <3> HIDE DEF r
    <3>7. copy'.read[1].addr = r /\ copy'.read[1].val = ReadLane(r)
      BY <3>6
    <3> QED
      BY <2>5, <3>1, <3>2, <3>3, <3>4, <3>5, <3>7 DEF r
  <2>6. copy'.read # << >> =>
          /\ copy'.next # 0
          /\ copy'.read[1].addr = copy'.lanes[copy'.next]
          /\ \/ Fresh(copy.read[1], copy.wants[copy.next])'
             \/ decode'.op = "valu"
             \/ Overwritten(copy.read[1].addr)'
    <3> SUFFICES ASSUME copy'.read # << >>
                 PROVE  /\ copy'.next # 0
                        /\ copy'.read[1].addr = copy'.lanes[copy'.next]
                        /\ \/ Fresh(copy.read[1], copy.wants[copy.next])'
                           \/ decode.op = "valu"
                           \/ Overwritten(copy'.read[1].addr)
      BY <2>0, <2>1 DEF Overwritten
    <3>1. /\ copy'.read[1].addr = copy.lanes[copy'.next]
          /\ copy'.next # 0 /\ copy'.next \in 1 .. Lanes
          /\ \/ copy'.read[1].val = copy.wants[copy'.next]
             \/ decode.op = "valu"
             \/ Overwritten(copy'.read[1].addr)
      BY <2>3, <2>5
    <3>2. ~Overwritten(copy'.read[1].addr) => \A w \in wb' : w.addr # copy'.read[1].addr
      BY <2>4, <3>1
    <3> QED
      BY <2>3, <3>1, <3>2 DEF Fresh
  <2> QED
    BY <2>0, <2>1, <2>2, <2>3, <2>4, <2>6 DEF CopyUnderWay
<1>2. CASE ~Copying
  <2>1. ~hold /\ ex.op = "copy" /\ copy' = [NoCopy EXCEPT !.lanes = Sources(ex), !.wants = ex.wants]
    BY <1>2 DEF Datapath, Copy, Copying
  <2>2. /\ copy'.lanes = Sources(ex) /\ copy'.wants = ex.wants
        /\ copy'.read = << >>
    BY <2>1 DEF NoCopy
  <2>3. Sources(ex) \in [1 .. Lanes -> Registers]
    <3>1. Sources(ex) = LanesFrom(ex.reads[1])
      BY <2>1 DEF Sources
    <3>2. DOMAIN Sources(ex) = 1 .. Lanes
      BY <3>1 DEF LanesFrom
    <3>3. \A i \in 1 .. Lanes : Sources(ex)[i] \in Registers
      BY <3>2, SourcesInRegisters DEF IInv, Types
    <3> QED
      BY <3>1, <3>2, <3>3 DEF LanesFrom
  <2>4. \A i \in 1 .. Lanes : /\ ex.wants[i] = Value[Sources(ex)[i]]
                              /\ flight # Nothing => Sources(ex)[i] # flight.dest
    BY <2>1, <2>3 DEF IInv, CopyReady, LoadsApart, Clear
  <2>5. \A i \in 1 .. Lanes : Value'[Sources(ex)[i]] = Value[Sources(ex)[i]]
    <3> SUFFICES ASSUME NEW i \in 1 .. Lanes
                 PROVE  Value'[Sources(ex)[i]] = Value[Sources(ex)[i]]
      OBVIOUS
    <3>1. Sources(ex)[i] \in Registers /\ Dests(ex) = {}
      BY <2>1, <2>3, DestsInBanks DEF IInv, Types, Sound
    <3> QED
      BY <2>1, <3>1, NextValue DEF AfterEx
  <2>6. flight' = Nothing \/ flight' = flight
    BY <2>1 DEF Datapath, Load
  <2>7. \A i \in 1 .. Lanes : flight'.dest # Sources(ex)[i]
    BY <2>3, <2>4, <2>6, RegistersAreNotNothing
  <2> QED
    BY <2>1, <2>2, <2>3, <2>4, <2>5, <2>7 DEF CopyUnderWay
<1> QED
  BY <1>1, <1>2

LEMMA HoldInvariant ==
  ASSUME IInv, OnePerBank', Hold
  PROVE  IInv'
<1>1. PICK answer \in BOOLEAN : Datapath(TRUE, answer) /\ UNCHANGED ex /\ Stays
  BY DEF Hold
<1>2. decode' = decode /\ ex' = ex /\ count' = count /\ meant' = meant /\ owed' = owed
  BY <1>1 DEF Stays
<1>3. Types'
  BY <1>1, <1>2, DatapathTypes, NextWrites DEF Types, IInv
<1>4. SnapshotTaken'
  BY <1>1, <1>2, NextSnapshot
<1>5. MeantFollows' /\ DecodeFollows' /\ OperandsReady' /\ LoadsApart'
  BY <1>1, HoldKeepsValues, HoldKeepsOperands, HoldKeepsLoads
<1>6. CopyUnderWay'
  BY <1>1, <1>2, NextCopy
<1>7. CopyReady'
  <2> SUFFICES ASSUME ex.op = "copy", NEW i \in DOMAIN Sources(ex)
               PROVE  Value'[Sources(ex)[i]] = Value[Sources(ex)[i]]
    BY <1>2 DEF CopyReady, IInv
  <2>1. Sources(ex)[i] \in Registers
    BY SourcesInRegisters DEF IInv, Types
  <2> QED
    BY <1>1, <2>1, NextValue
<1> QED
  BY <1>3, <1>4, <1>5, <1>6, <1>7 DEF IInv

-----------------------------------------------------------------------------
(* The bundle leaves EX: what it does joins the values of the registers.   *)
LEMMA BubbleReadsNothing ==
  /\ Dests(Bubble) = {} /\ DOMAIN Sources(Bubble) = {}
  /\ Bubble.op = "none" /\ Sound(Bubble)
<1>1. Dests(Bubble) = {}
  BY DEF Dests, Bubble
<1>2. Presented(Bubble) = ScalarReads(<< >>)
  BY DEF Presented, Bubble
<1>3. DOMAIN Sources(Bubble) = {}
  BY <1>2 DEF Sources, Bubble, ScalarReads
<1>4. 0 \in Registers /\ 0 \in 0 .. MaxBundles
  BY OperandAssumption DEF Registers
<1>5. Bubble.wants = [i \in DOMAIN Sources(Bubble) |-> Bubble.wants[i]]
  BY <1>3 DEF Bubble
<1> QED
  BY <1>1, <1>3, <1>4, <1>5 DEF Sound, Bubble, Kinds

LEMMA LeavingKeepsLoads ==
  ASSUME IInv, NEW answer \in BOOLEAN, Datapath(FALSE, answer), ~MemStall, flight' # Nothing
  PROVE  /\ Clear(flight'.dest, decode) /\ flight'.dest \in Registers
         /\ WaitsFor(decode, flight'.dest) \/ flight'.dest \in owed
<1>1. \/ flight' = flight /\ flight # Nothing
      \/ ex.op = "load" /\ flight' = [dest |-> ex.dest, val |-> ex.id]
  BY DEF Datapath, Load
<1>2. flight # Nothing => ~WaitsFor(ex, flight.dest) /\ flight.dest \in Registers
  BY DEF MemStall, WaitsFor, IInv, Types
<1> QED
  BY <1>1, <1>2 DEF IInv, LoadsApart, Types, Sound

LEMMA BubbledInvariant ==
  ASSUME IInv, OnePerBank', Bubbled
  PROVE  IInv'
<1>1. PICK answer \in BOOLEAN : ~MemStall /\ Datapath(FALSE, answer) /\ ex' = Bubble /\ Stays
  BY DEF Bubbled
<1>2. decode' = decode /\ count' = count /\ meant' = meant /\ owed' = owed
  BY <1>1 DEF Stays
<1>3. Types'
  BY <1>1, <1>2, DatapathTypes, NextWrites, BubbleReadsNothing DEF Types, IInv
<1>4. SnapshotTaken'
  BY <1>1, NextSnapshot
<1>5. AfterEx' = AfterEx
  <2>1. \A r \in Registers : Value'[r] = AfterEx[r]
    BY <1>1, NextValue
  <2>2. AfterEx' = [r \in Registers |-> IF r \in Dests(Bubble) THEN 0 ELSE Value'[r]]
    BY <1>1, BubbleReadsNothing DEF AfterEx
  <2> QED
    BY <2>1, <2>2, BubbleReadsNothing DEF AfterEx
<1>6. MeantFollows' /\ DecodeFollows'
  BY <1>2, <1>5 DEF MeantFollows, DecodeFollows, IInv
<1>7. OperandsReady' /\ CopyReady'
  BY <1>1, BubbleReadsNothing DEF OperandsReady, CopyReady
<1>8. LoadsApart'
  BY <1>1, <1>2, LeavingKeepsLoads, BubbleReadsNothing DEF LoadsApart, Clear, WaitsFor, IInv
<1>9. CopyUnderWay'
  BY <1>1, <1>2, NextCopy
<1> QED
  BY <1>3, <1>4, <1>6, <1>7, <1>8, <1>9 DEF IInv

-----------------------------------------------------------------------------
(* The next bundle of the program enters decode.                           *)
Issues == IssueNothing \/ \E b \in Code : Issue(b)

(* It is one of the program's, and wants what the program means.           *)
LEMMA IssuedBundle ==
  ASSUME Types, Issues
  PROVE  /\ Sound(decode')
         /\ meant' \in [Registers -> 0 .. MaxBundles]
         /\ count' \in 0 .. MaxBundles /\ owed' \subseteq Registers
         /\ \A r \in Registers :
              meant'[r] = IF r \in Dests(decode') THEN decode'.id ELSE meant[r]
         /\ \A i \in DOMAIN Sources(decode') :
              decode'.wants[i] = meant[Sources(decode')[i]]
<1> USE DEF Types
<1>1. CASE IssueNothing
  BY <1>1, BubbleReadsNothing DEF IssueNothing
<1>2. ASSUME NEW b \in Code, Issue(b)
      PROVE  /\ Sound(decode')
             /\ meant' \in [Registers -> 0 .. MaxBundles]
             /\ count' \in 0 .. MaxBundles /\ owed' \subseteq Registers
             /\ \A r \in Registers :
                  meant'[r] = IF r \in Dests(decode') THEN decode'.id ELSE meant[r]
             /\ \A i \in DOMAIN Sources(decode') :
                  decode'.wants[i] = meant[Sources(decode')[i]]
  <2> DEFINE wants == [i \in DOMAIN Sources(b) |-> meant[Sources(b)[i]]]
             d == [op |-> b.op, reads |-> b.reads, dest |-> b.dest,
                   id |-> count + 1, wants |-> wants]
  <2>1. decode' = d /\ count' = count + 1 /\ count < MaxBundles
    BY <1>2 DEF Issue
  <2>2. /\ b.op \in Ops /\ b.reads \in Seq(Registers) /\ b.dest \in Registers
        /\ b.op \in {"valu", "vstore"} => Len(b.reads) = 2
        /\ b.op = "copy" => Len(b.reads) = 1
        /\ b.op \in {"const", "wait"} => b.reads = << >>
    BY OperandAssumption, CodeAssumption
  <2>3. Sources(d) = Sources(b) /\ Dests(d) = Dests(b)
    BY SameBundleSameUse
  <2>4. d.wants = [i \in DOMAIN Sources(d) |-> d.wants[i]]
    BY <2>3
  <2>5. count + 1 \in 1 .. MaxBundles /\ MaxBundles \in Nat
    BY <2>1, OperandAssumption
  <2>6. Sound(d)
    <3>1. d.op = b.op /\ d.reads = b.reads /\ d.dest = b.dest /\ d.id = count + 1
      OBVIOUS
    <3> HIDE DEF d, Types
    <3>2. /\ d.op \in Kinds /\ d.op # "none"
          /\ d.reads \in Seq(Registers) /\ d.dest \in Registers
      BY <3>1, <2>2 DEF Kinds, Ops
    <3>3. d.id \in 0 .. MaxBundles /\ d.id # 0
      BY <3>1, <2>5
    <3>4. /\ d.op \in {"valu", "vstore"} => Len(d.reads) = 2
          /\ d.op = "copy" => Len(d.reads) = 1
          /\ d.op \in {"const", "wait"} => d.reads = << >>
      BY <3>1, <2>2
    <3> QED
      BY <3>2, <3>3, <3>4, <2>4 DEF Sound
  <2>7. meant' = [r \in Registers |-> IF r \in Dests(b) THEN count + 1 ELSE meant[r]]
    BY <1>2 DEF Issue
  <2>8. owed' \subseteq Registers
    BY <1>2, <2>2 DEF Issue
  <2>9. \A i \in DOMAIN Sources(d) : d.wants[i] = meant[Sources(d)[i]]
    BY <2>3
  <2>10. d.id = count + 1
    OBVIOUS
  <2> HIDE DEF d
  <2> QED
    BY <2>1, <2>3, <2>5, <2>6, <2>7, <2>8, <2>9, <2>10
<1> QED
  BY <1>1, <1>2 DEF Issues

(* A register that is owed stays so until its wait, and nobody uses it.    *)
LEMMA OwedIsClear ==
  ASSUME Issues, NEW r \in owed
  PROVE  Clear(r, decode') /\ (WaitsFor(decode', r) \/ r \in owed')
<1>1. CASE IssueNothing
  BY <1>1, BubbleReadsNothing DEF IssueNothing, Clear
<1>2. ASSUME NEW b \in Code, Issue(b)
      PROVE  Clear(r, decode') /\ (WaitsFor(decode', r) \/ r \in owed')
  <2>1. /\ decode'.op = b.op /\ decode'.reads = b.reads /\ decode'.dest = b.dest
    BY <1>2 DEF Issue
  <2>2. Sources(decode') = Sources(b) /\ Dests(decode') = Dests(b)
    BY <2>1, SameBundleSameUse
  <2>3. Clear(r, b)
    <3>1. CASE b.op = "wait"
      <4>1. Dests(b) = {}
        BY <3>1 DEF Dests
      <4>2. Presented(b) = ScalarReads(<< >>)
        BY <3>1, CodeAssumption DEF Presented
      <4>3. DOMAIN Sources(b) = {}
        BY <3>1, <4>2 DEF Sources, ScalarReads
      <4> QED
        BY <4>1, <4>3 DEF Clear
    <3>2. CASE b.op # "wait"
      BY <1>2, <3>2 DEF Issue, Permitted, Clear, ToSet
    <3> QED
      BY <3>1, <3>2
  <2>4. WaitsFor(decode', r) \/ r \in owed'
    BY <1>2, <2>1 DEF Issue, WaitsFor
  <2> QED
    BY <2>2, <2>3, <2>4 DEF Clear
<1> QED
  BY <1>1, <1>2 DEF Issues

LEMMA IssuedLoadIsOwed ==
  ASSUME Issues, decode'.op = "load"
  PROVE  decode'.dest \in owed'
BY DEF Issues, IssueNothing, Issue, Bubble

-----------------------------------------------------------------------------
(* An advance: the bundle in decode enters EX with what was read for it.   *)
LEMMA AdvanceOperands ==
  ASSUME IInv, NEW answer \in BOOLEAN, Datapath(FALSE, answer), ~MemStall, ~Conflict,
         ex' = decode
  PROVE  OperandsReady'
<1> SUFFICES ASSUME decode.op \notin {"none", "copy"}
             PROVE  /\ ~heldValid'
                    /\ prev' = [i \in DOMAIN decode.wants |-> prev'[i]]
                    /\ \A i \in DOMAIN decode.wants :
                         /\ \A w \in wb' : w.addr = prev'[i].addr => w.val = decode.wants[i]
                         /\ (\A w \in wb' : w.addr # prev'[i].addr)
                              => prev'[i].val = decode.wants[i]
  BY DEF OperandsReady, Fresh
<1> USE DEF IInv, Types
<1>1. ~heldValid'
  <2>1. SnapshotTaken'
    BY NextSnapshot
  <2>2. wasHeld' = FALSE
    BY DEF Datapath
  <2>3. heldValid' \in BOOLEAN
    BY DatapathTypes
  <2> QED
    BY <2>1, <2>2, <2>3 DEF SnapshotTaken
<1>2. DOMAIN decode.wants = DOMAIN Sources(decode)
  BY DEF Sound
<1>3. /\ DOMAIN Sources(decode) = DOMAIN Presented(decode)
      /\ \A i \in DOMAIN Sources(decode) :
           Sources(decode)[i] = Presented(decode)[i].addr /\ Sources(decode)[i] \in Registers
  BY SourcesInRegisters
<1>4. prev' = [i \in DOMAIN decode.wants |->
                 [addr |-> Presented(decode)[i].addr, val |-> Read(Presented(decode)[i])]]
  BY <1>2, <1>3 DEF Datapath, Latched
<1>5. ASSUME NEW i \in DOMAIN decode.wants
      PROVE  /\ \A w \in wb' : w.addr = prev'[i].addr => w.val = decode.wants[i]
             /\ (\A w \in wb' : w.addr # prev'[i].addr) => prev'[i].val = decode.wants[i]
  <2> DEFINE a == Sources(decode)[i]
  <2>1. a \in Registers /\ Presented(decode)[i].addr = a
    BY <1>2, <1>3
  <2>2. ~PortTaken(Presented(decode)[i])
    BY <1>2, <1>3 DEF Conflict
  <2>3. prev'[i] = [addr |-> a, val |-> Arriving[a]]
    BY <1>4, <2>1, <2>2, ReadIsArriving
  <2>4. decode.wants[i] = AfterEx[a]
    BY <1>2 DEF DecodeFollows
  <2>5. flight # Nothing => flight.dest # a
    <3>1. flight # Nothing => ~WaitsFor(ex, flight.dest)
      BY DEF WaitsFor, MemStall
    <3> QED
      BY <3>1, <1>2 DEF LoadsApart, Clear
  <2>6. flight.dest # a
    BY <2>1, <2>5, RegistersAreNotNothing
  <2>7. ex.op = "load" => a \notin Dests(ex)
    <3>1. ex.op = "load" => Dests(ex) = {ex.dest} /\ Clear(ex.dest, decode)
      BY DestsInBanks DEF LoadsApart, Sound
    <3> QED
      BY <3>1, <1>2 DEF Clear
  <2>8. AfterEx[a] = IF a \in Dests(ex) THEN ex.id ELSE Arriving[a]
    BY <2>1, <2>6 DEF AfterEx, Value
  <2>9. \A w \in wb' : w.addr = a => a \in Dests(ex) /\ w.val = ex.id
    BY <2>6, NextWrites
  <2>10. (\A w \in wb' : w.addr # a) => a \notin Dests(ex)
    BY <2>7, NextWrites
  <2> HIDE DEF a
  <2> QED
    BY <2>3, <2>4, <2>8, <2>9, <2>10
<1> QED
  BY <1>1, <1>4, <1>5

LEMMA AdvanceInvariant ==
  ASSUME IInv, OnePerBank', Advance
  PROVE  IInv'
<1>1. PICK answer \in BOOLEAN :
        ~MemStall /\ ~Conflict /\ Datapath(FALSE, answer) /\ ex' = decode
  BY DEF Advance
<1>2. Issues
  BY DEF Advance, Issues
<1>3. Types'
  BY <1>1, <1>2, DatapathTypes, NextWrites, IssuedBundle DEF Types, IInv
<1>4. SnapshotTaken' /\ OperandsReady'
  BY <1>1, NextSnapshot, AdvanceOperands
<1>5. \A r \in Registers : Value'[r] = AfterEx[r]
  BY <1>1, NextValue
<1>6. \A r \in Registers : AfterEx'[r] = meant[r]
  <2>1. AfterEx' = [r \in Registers |-> IF r \in Dests(decode) THEN decode.id ELSE Value'[r]]
    BY <1>1 DEF AfterEx
  <2> QED
    BY <1>5, <2>1 DEF IInv, MeantFollows
<1>7. \A i \in DOMAIN Sources(decode') : Sources(decode')[i] \in Registers
  BY <1>2, IssuedBundle, SourcesInRegisters DEF IInv
<1>8. MeantFollows'
  BY <1>2, <1>6, IssuedBundle DEF MeantFollows, IInv
<1>9. DecodeFollows'
  BY <1>2, <1>6, <1>7, IssuedBundle DEF DecodeFollows, IInv
<1>10. \A r \in owed : Clear(r, decode') /\ (WaitsFor(decode', r) \/ r \in owed')
  BY <1>2, OwedIsClear
<1>11. LoadsApart'
  <2>1. flight' # Nothing =>
          /\ Clear(flight'.dest, decode)
          /\ WaitsFor(decode, flight'.dest) \/ flight'.dest \in owed
    BY <1>1, LeavingKeepsLoads
  <2>2. decode.op = "load" => decode.dest \in owed
    BY DEF IInv, LoadsApart
  <2>3. decode'.op = "load" => decode'.dest \in owed'
    BY <1>2, IssuedLoadIsOwed
  <2> QED
    BY <1>1, <1>10, <2>1, <2>2, <2>3 DEF LoadsApart
<1>12. CopyReady'
  <2>1. \A i \in DOMAIN Sources(decode) : decode.wants[i] = Value'[Sources(decode)[i]]
    BY <1>5, SourcesInRegisters DEF IInv, Types, DecodeFollows
  <2> QED
    BY <1>1, <2>1 DEF CopyReady
<1>13. CopyUnderWay'
  BY <1>1, NextCopy
<1> QED
  BY <1>3, <1>4, <1>8, <1>9, <1>11, <1>12, <1>13 DEF IInv

LEMMA InvariantInitially == Init => IInv
<1> SUFFICES ASSUME Init PROVE IInv
  OBVIOUS
<1> USE DEF Init
<1>1. Types
  <2>1. 0 \in 0 .. MaxBundles /\ 0 \in 0 .. 3
    BY OperandAssumption
  <2>2. /\ copy = [lanes |-> copy.lanes, wants |-> copy.wants,
                    next |-> copy.next, read |-> copy.read]
        /\ copy.next \in 0 .. Lanes
    BY OperandAssumption DEF NoCopy
  <2> QED
    BY <2>1, <2>2, BubbleReadsNothing DEF Types
<1>2. OnePerBank /\ SnapshotTaken /\ OperandsReady /\ CopyReady /\ CopyUnderWay
  BY BubbleReadsNothing DEF OnePerBank, SnapshotTaken, OperandsReady, CopyReady,
                            CopyUnderWay, Copying
<1>3. LoadsApart
  BY BubbleReadsNothing DEF LoadsApart
<1>4. \A r \in Registers : AfterEx[r] = 0
  BY BubbleReadsNothing, RegistersAreNotNothing DEF AfterEx, Value, Arriving
<1>5. MeantFollows /\ DecodeFollows
  BY <1>4, BubbleReadsNothing DEF MeantFollows, DecodeFollows
<1> QED
  BY <1>1, <1>2, <1>3, <1>5 DEF IInv

LEMMA InvariantInductive == IInv /\ OnePerBank' /\ [Next]_vars => IInv'
<1> SUFFICES ASSUME IInv, OnePerBank', [Next]_vars PROVE IInv'
  OBVIOUS
<1>1. CASE Hold
  BY <1>1, HoldInvariant
<1>2. CASE Bubbled
  BY <1>2, BubbledInvariant
<1>3. CASE Advance
  BY <1>3, AdvanceInvariant
<1>4. CASE UNCHANGED vars
  <2> USE <1>4 DEF vars, IInv
  <2>1. Types' /\ SnapshotTaken'
    BY DEF Types, SnapshotTaken
  <2>2. Arriving' = Arriving
    BY DEF Arriving
  <2>3. Value' = Value
    BY <2>2 DEF Value
  <2>4. AfterEx' = AfterEx
    BY <2>3 DEF AfterEx
  <2>5. MeantFollows' /\ DecodeFollows'
    BY <2>4 DEF MeantFollows, DecodeFollows
  <2>6. OperandsReady' /\ LoadsApart'
    BY DEF OperandsReady, Fresh, LoadsApart
  <2>7. CopyReady' /\ CopyUnderWay'
    BY <2>3 DEF CopyReady, CopyUnderWay, Copying, Fresh, Overwritten
  <2> QED
    BY <2>1, <2>5, <2>6, <2>7
<1> QED
  BY <1>1, <1>2, <1>3, <1>4 DEF Next

(* The types need nothing of the banks.                                    *)
LEMMA TypesInductive == Types /\ [Next]_vars => Types' /\ (AnswersMeet => AnswersMeet')
<1> SUFFICES ASSUME Types, [Next]_vars PROVE Types' /\ (AnswersMeet => AnswersMeet')
  OBVIOUS
<1>1. CASE Hold
  <2>1. PICK answer \in BOOLEAN : Datapath(TRUE, answer) /\ UNCHANGED ex /\ Stays
    BY <1>1 DEF Hold
  <2>2. Types'
    BY <2>1, DatapathTypes, NextWrites DEF Types, Stays
  <2> QED
    BY <2>1, <2>2, NextAnswersMeet
<1>2. CASE Bubbled
  <2>1. PICK answer \in BOOLEAN : Datapath(FALSE, answer) /\ ex' = Bubble /\ Stays
    BY <1>2 DEF Bubbled
  <2>2. Types'
    BY <2>1, DatapathTypes, NextWrites, BubbleReadsNothing DEF Types, Stays
  <2> QED
    BY <2>1, <2>2, NextAnswersMeet
<1>3. CASE Advance
  <2>1. PICK answer \in BOOLEAN : Datapath(FALSE, answer) /\ ex' = decode
    BY <1>3 DEF Advance
  <2>2. Issues
    BY <1>3 DEF Advance, Issues
  <2>3. Types'
    BY <2>1, <2>2, DatapathTypes, NextWrites, IssuedBundle DEF Types
  <2> QED
    BY <2>1, <2>3, NextAnswersMeet
<1>4. CASE UNCHANGED vars
  BY <1>4 DEF vars, Types, AnswersMeet
<1> QED
  BY <1>1, <1>2, <1>3, <1>4 DEF Next

(* Under the precaution no bank is asked for two writes.                   *)
LEMMA OnePerBankKept ==
  ASSUME "loadBank" \notin Liberties
  PROVE  IInv /\ [Next]_vars => OnePerBank'
<1> SUFFICES ASSUME IInv, [Next]_vars PROVE OnePerBank'
  OBVIOUS
<1> USE DEF IInv
<1>1. CASE Hold
  BY <1>1, NextOnePerBank DEF Hold
<1>2. CASE Bubbled
  BY <1>2, NextOnePerBank DEF Bubbled
<1>3. CASE Advance
  BY <1>3, NextOnePerBank DEF Advance
<1>4. CASE UNCHANGED vars
  BY <1>4 DEF vars, OnePerBank
<1> QED
  BY <1>1, <1>2, <1>3, <1>4 DEF Next

LEMMA TypesGiveTypeOK ==
  ASSUME Types
  PROVE  TypeOK
<1>1. flight.val \in -1 .. MaxBundles
  BY OperandAssumption DEF Types, Nothing
<1> QED
  BY <1>1 DEF TypeOK, Types

LEMMA InvariantImpliesProperties ==
  ASSUME IInv
  PROVE  OperandsAreMeant /\ CopiesAreMeant /\ WritesLand
<1> USE DEF IInv
<1>1. OperandsAreMeant
  BY LiveOperands DEF OperandsAreMeant
<1>2. CopiesAreMeant
  <2>1. CASE Copying
    BY <2>1, FreshIsBypassed DEF CopiesAreMeant, CopyUnderWay, Overwritten
  <2>2. CASE ~Copying
    BY <2>2 DEF CopiesAreMeant, Copying, NoCopy
  <2> QED
    BY <2>1, <2>2
<1>3. WritesLand
  <2> SUFFICES ASSUME decode = Bubble, ex = Bubble, wb = {}, flight = Nothing
               PROVE  \A r \in Registers : mem[r] = meant[r]
    BY DEF WritesLand, Types
  <2> TAKE r \in Registers
  <2>1. AfterEx[r] = Arriving[r]
    BY BubbleReadsNothing, RegistersAreNotNothing DEF AfterEx, Value
  <2>2. Arriving[r] = mem[r]
    BY DEF Arriving
  <2> QED
    BY <2>1, <2>2, BubbleReadsNothing DEF MeantFollows
<1> QED
  BY <1>1, <1>2, <1>3

-----------------------------------------------------------------------------
(* The registers of the data path stay within their widths, among them the *)
(* countdown of a finished load, whatever the program does.                *)
THEOREM SpecTypeOK == Spec => []TypeOK
<1>1. Init => Types
  BY InvariantInitially DEF IInv
<1>2. Types /\ [Next]_vars => Types'
  BY TypesInductive
<1>3. Types => TypeOK
  BY TypesGiveTypeOK
<1> QED
  BY <1>1, <1>2, <1>3, PTL DEF Spec

(* What the banks are built for can be broken in one way: of two different *)
(* writes a bank is asked for in one cycle, one is the answer of a load.   *)
(* The bundles themselves never do it, held, bubbled or copied behind.     *)
THEOREM OnlyAnswersMeet == Spec => []AnswersMeet
<1>1. Init => Types /\ AnswersMeet
  BY InvariantInitially DEF IInv, Init, AnswersMeet
<1>2. Types /\ AnswersMeet /\ [Next]_vars => Types' /\ AnswersMeet'
  BY TypesInductive
<1> QED
  BY <1>1, <1>2, PTL DEF Spec

(* A program that writes to no bank of a load still out keeps the promise  *)
(* of BankedScratchMemory.scala:173: one write of a bank in a cycle.       *)
THEOREM SpecOnePerBank ==
  ASSUME "loadBank" \notin Liberties
  PROVE  Spec => []OnePerBank
<1>1. Init => IInv
  BY InvariantInitially
<1>2. IInv /\ [Next]_vars => OnePerBank'
  BY OnePerBankKept
<1>3. IInv /\ OnePerBank' /\ [Next]_vars => IInv'
  BY InvariantInductive
<1>4. IInv => OnePerBank
  BY DEF IInv
<1> QED
  BY <1>1, <1>2, <1>3, <1>4, PTL DEF Spec

(* Whatever holds, bubbles, port conflicts and answers come between, the   *)
(* bundle in EX works on the values the program means, as long as no bank  *)
(* is asked for two writes at once: the two forwarding paths of            *)
(* BankedScratchMemory, the snapshot of a held bundle and the retry of a   *)
(* lost read together miss no write and see none too many.                 *)
THEOREM SpecOperandsAreMeant == Spec /\ []OnePerBank => []OperandsAreMeant
<1>1. Init => IInv
  BY InvariantInitially
<1>2. IInv /\ OnePerBank' /\ [Next]_vars => IInv'
  BY InvariantInductive
<1>3. IInv => OperandsAreMeant
  BY InvariantImpliesProperties
<1> QED
  BY <1>1, <1>2, <1>3, PTL DEF Spec

(* A copy to the matrix memories takes every lane as the program means it, *)
(* whatever follows it, but for the two cases CopiesAreMeant names; as     *)
(* long as no bank is asked for two writes at once.                        *)
THEOREM SpecCopiesAreMeant == Spec /\ []OnePerBank => []CopiesAreMeant
<1>1. Init => IInv
  BY InvariantInitially
<1>2. IInv /\ OnePerBank' /\ [Next]_vars => IInv'
  BY InvariantInductive
<1>3. IInv => CopiesAreMeant
  BY InvariantImpliesProperties
<1> QED
  BY <1>1, <1>2, <1>3, PTL DEF Spec

(* When the pipeline has run empty, the banks hold what the program        *)
(* computed, unless a bank was asked for two writes at once: nothing but   *)
(* such a meeting loses a write.                                           *)
THEOREM SpecWritesLand == Spec /\ []OnePerBank => []WritesLand
<1>1. Init => IInv
  BY InvariantInitially
<1>2. IInv /\ OnePerBank' /\ [Next]_vars => IInv'
  BY InvariantInductive
<1>3. IInv => WritesLand
  BY InvariantImpliesProperties
<1> QED
  BY <1>1, <1>2, <1>3, PTL DEF Spec
=============================================================================

------------------------- MODULE MemoryEngineProofs -------------------------
(***************************************************************************)
(* Proofs about the memory engine for every queue depth, every set of      *)
(* bundles and every behaviour of the slave.  First the types and bounds,  *)
(* which hold for all programs; then, in the safe order                    *)
(* (MemoryOrder!SafeOrder), that the engine implements MemoryContract and  *)
(* that a barrier that is let go finds its value written.                  *)
(***************************************************************************)
EXTENDS MemoryOrder, SequenceTheorems, TLAPS

----------------------------------------------------------------------------
(* The inductive invariant *)

\* What the registers hold while they are in use.
InUse ==
  /\ ex \in Bundles \cup {Bubble}
  /\ load.valid => load.dest \in Dests /\ load.addr \in Addrs
  /\ state \in StoreStates => cap \in Stores
  /\ TransferInFlight => beats >= 1

\* An entry of the completion queue outlives the one in front of it.
Countdown ==
  \A j, k \in 1 .. Len(track) : j <= k => track[k].count - track[j].count >= k - j

\* The load in the write-back register was completed in the last cycle.
JustCompleted ==
  wbLoad # NoDest =>
    /\ track # <<>>
    /\ track[Len(track)] = [dest |-> wbLoad, count |-> TrackCycles]

\* The stores owed are as many as those on the bus and in the queue, and a
\* full queue has nothing in front of it.
OnBus == IF state \in StoreStates THEN 1 ELSE 0

Counted ==
  /\ owed \in Seq(Stores)
  /\ Len(owed) = Len(fifo) + OnBus
  /\ Len(owed) <= StoreDepth

MemoryInv == TypeOK /\ InUse /\ Countdown /\ JustCompleted /\ Counted

----------------------------------------------------------------------------
(* Slots *)

LEMMA LastSlot ==
  ASSUME NEW n \in 1 .. 2, NEW S \in SUBSET (1 .. n), S # {}
  PROVE  LastOf(S) \in S
<1> PICK k \in S : TRUE
  OBVIOUS
<1>1. \E i \in S : \A j \in S : j <= i
  <2>1. CASE 2 \in S
    <3>1. \A j \in S : j <= 2
      OBVIOUS
    <3> QED
      BY <2>1, <3>1
  <2>2. CASE 2 \notin S
    <3>1. \A j \in S : j <= k
      BY <2>2
    <3> QED
      BY <3>1
  <2> QED
    BY <2>1, <2>2
<1> QED
  BY <1>1 DEF LastOf

LEMMA LoadSlot ==
  ASSUME TypeOK, AnyLoad
  PROVE  LET l == ex.ld[LastOf(LoadsOf(ex))]
         IN  l.dest \in Dests /\ l.addr \in Addrs
<1> DEFINE i == LastOf(LoadsOf(ex))
<1>1. i \in LoadsOf(ex)
  BY LastSlot, MemoryAssumption DEF AnyLoad, LoadsOf
<1>2. i \in 1 .. LoadSlots /\ ex.ld[i].op = "load"
  BY <1>1 DEF LoadsOf
<1>3. ex.ld[i] \in LoadOps
  BY <1>2 DEF TypeOK, Bundle
<1>4. ex.ld[i].dest \in Dests /\ ex.ld[i].addr \in Addrs
  BY <1>2, <1>3 DEF LoadOps
<1> QED
  BY <1>4

LEMMA StoreSlot ==
  ASSUME TypeOK, AnyStore
  PROVE  ex.st[LastOf(StoresOf(ex))].req \in Stores
<1> DEFINE i == LastOf(StoresOf(ex))
<1>1. i \in StoresOf(ex)
  BY LastSlot, MemoryAssumption DEF AnyStore, StoresOf
<1>2. i \in 1 .. StoreSlots /\ ex.st[i].op = "store"
  BY <1>1 DEF StoresOf
<1>3. ex.st[i] \in StoreOps
  BY <1>2 DEF TypeOK, Bundle
<1>4. ex.st[i].req \in Stores
  BY <1>2, <1>3 DEF StoreOps
<1> QED
  BY <1>4

LEMMA BubbleType == Bubble \in Bundle
<1>1. [op |-> "none"] \in LoadOps /\ [op |-> "none"] \in StoreOps
  BY DEF LoadOps, StoreOps
<1>2. [op |-> "none", beats |-> 0] \in Transfers
  <2>1. 0 \in 0 .. MaxBeats
    BY MemoryAssumption
  <2> QED
    BY <2>1 DEF Transfers
<1>3. /\ [i \in 1 .. LoadSlots |-> [op |-> "none"]] \in [1 .. LoadSlots -> LoadOps]
      /\ [i \in 1 .. StoreSlots |-> [op |-> "none"]] \in [1 .. StoreSlots -> StoreOps]
  BY <1>1
<1> QED
  BY <1>2, <1>3 DEF Bubble, Bundle

LEMMA BubbleIdle == LoadsOf(Bubble) = {} /\ StoresOf(Bubble) = {}
<1>1. \A i \in 1 .. LoadSlots : Bubble.ld[i] = [op |-> "none"]
  BY DEF Bubble
<1>2. \A i \in 1 .. StoreSlots : Bubble.st[i] = [op |-> "none"]
  BY DEF Bubble
<1> HIDE DEF Bubble
<1> QED
  BY <1>1, <1>2 DEF LoadsOf, StoresOf

----------------------------------------------------------------------------
(* Queues *)

\* The head leaves a queue.
LEMMA Popped ==
  ASSUME NEW S, NEW q \in Seq(S), q # <<>>
  PROVE  /\ Tail(q) \in Seq(S) /\ Len(Tail(q)) = Len(q) - 1
         /\ Len(q) \in Nat /\ Len(q) > 0
         /\ \A j \in 1 .. Len(q) - 1 : Tail(q)[j] = q[j + 1]
BY HeadTailProperties, EmptySeq

\* An element enters a queue, or none does.
LEMMA Pushed ==
  ASSUME NEW S, NEW q \in Seq(S), NEW x \in S
  PROVE  /\ q \o <<x>> \in Seq(S) /\ Len(q \o <<x>>) = Len(q) + 1
         /\ Len(q) \in Nat
         /\ (q \o <<x>>)[Len(q) + 1] = x
         /\ \A j \in 1 .. Len(q) : (q \o <<x>>)[j] = q[j]
<1>1. <<x>> \in Seq(S) /\ Len(<<x>>) = 1 /\ <<x>>[1] = x /\ Len(q) \in Nat
  BY LenProperties
<1>2. \A j \in 1 .. Len(q) + 1 :
        (q \o <<x>>)[j] = IF j <= Len(q) THEN q[j] ELSE <<x>>[j - Len(q)]
  BY <1>1, ConcatProperties
<1>3. q \o <<x>> \in Seq(S) /\ Len(q \o <<x>>) = Len(q) + 1
  BY <1>1, ConcatProperties
<1>4. (q \o <<x>>)[Len(q) + 1] = <<x>>[1]
  BY <1>1, <1>2
<1> QED
  BY <1>1, <1>2, <1>3, <1>4

LEMMA NotPushed ==
  ASSUME NEW S, NEW q \in Seq(S)
  PROVE  q \o <<>> = q
BY ConcatEmptySeq

LEMMA PopHasEntry == TypeOK /\ Pop => fifo # <<>>
BY DEF TypeOK, Pop

LEMMA FifoStep ==
  ASSUME TypeOK, StoreFifo, PushStore => Len(fifo) < StoreDepth
  PROVE  /\ fifo' \in Seq(Stores) /\ Len(fifo) \in Nat
         /\ Pop /\ PushStore => Len(fifo') = Len(fifo)
         /\ Pop /\ ~PushStore => Len(fifo') = Len(fifo) - 1
         /\ ~Pop /\ PushStore => Len(fifo') = Len(fifo) + 1
         /\ ~Pop /\ ~PushStore => Len(fifo') = Len(fifo)
         /\ Pop => \A j \in 1 .. Len(fifo) - 1 : fifo'[j] = fifo[j + 1]
         /\ ~Pop => \A j \in 1 .. Len(fifo) : fifo'[j] = fifo[j]
         /\ PushStore => fifo'[Len(fifo')] = ex.st[LastOf(StoresOf(ex))].req
         /\ popValid' \in BOOLEAN
         /\ popValid' => fifo' # <<>>
<1> DEFINE x == ex.st[LastOf(StoresOf(ex))].req
           t == IF Pop THEN Tail(fifo) ELSE fifo
<1>1. PushStore => x \in Stores
  BY StoreSlot DEF PushStore
<1>2. fifo \in Seq(Stores) /\ Len(fifo) \in Nat /\ (Pop => fifo # <<>>)
  BY PopHasEntry, LenProperties DEF TypeOK
<1>3. /\ t \in Seq(Stores)
      /\ Pop => /\ Len(t) = Len(fifo) - 1 /\ Len(fifo) > 0
                /\ \A j \in 1 .. Len(fifo) - 1 : t[j] = fifo[j + 1]
      /\ ~Pop => t = fifo
  <2>1. CASE Pop
    BY <1>2, <2>1, Popped
  <2>2. CASE ~Pop
    BY <1>2, <2>2
  <2> QED
    BY <2>1, <2>2
<1> HIDE DEF t, x
<1>4. /\ fifo' \in Seq(Stores)
      /\ PushStore => /\ Len(fifo') = Len(t) + 1
                      /\ fifo'[Len(t) + 1] = x
                      /\ \A j \in 1 .. Len(t) : fifo'[j] = t[j]
      /\ ~PushStore => fifo' = t
  <2>1. CASE PushStore
    <3>1. fifo' = t \o <<x>>
      BY <2>1 DEF StoreFifo, Queue, t, x
    <3> QED
      BY <1>1, <1>3, <2>1, <3>1, Pushed
  <2>2. CASE ~PushStore
    <3>1. fifo' = t \o <<>>
      BY <2>2 DEF StoreFifo, Queue, t
    <3> QED
      BY <1>3, <2>2, <3>1, NotPushed
  <2> QED
    BY <2>1, <2>2
<1>5. popValid' \in BOOLEAN
  BY DEF StoreFifo, Pop
<1>6. ASSUME popValid'
      PROVE  fifo' # <<>>
  <2>1. CASE Pop
    <3>1. Len(fifo) > 1
      BY <1>6, <2>1 DEF StoreFifo, Pop
    <3>2. Len(t) > 0 /\ Len(t) + 1 > 0
      BY <1>2, <1>3, <2>1, <3>1
    <3>3. Len(fifo') > 0
      BY <1>4, <3>2
    <3> QED
      BY <3>3, EmptySeq
  <2>2. CASE ~Pop
    <3>1. fifo # <<>>
      BY <1>6 DEF StoreFifo, TypeOK
    <3>2. Len(fifo) > 0 /\ Len(fifo) + 1 > 0
      BY <1>2, <3>1, EmptySeq
    <3>3. Len(fifo') > 0
      BY <1>3, <1>4, <2>2, <3>2
    <3> QED
      BY <3>3, EmptySeq
  <2> QED
    BY <2>1, <2>2
<1>7. \A j \in 1 .. Len(t) : fifo'[j] = t[j]
  BY <1>4
<1>8. /\ Pop => \A j \in 1 .. Len(fifo) - 1 : fifo'[j] = fifo[j + 1]
      /\ ~Pop => \A j \in 1 .. Len(fifo) : fifo'[j] = fifo[j]
  BY <1>3, <1>7
<1> QED
  BY <1>2, <1>3, <1>4, <1>5, <1>6, <1>8 DEF x

----------------------------------------------------------------------------
(* Every register keeps its type *)

LEMMA LoadStep ==
  ASSUME TypeOK, InUse, NEW e \in Input, LoadRegister(e)
  PROVE  /\ load' \in [valid : BOOLEAN, acc : BOOLEAN, dest : Dests \cup {NoDest},
                       addr : Addrs \cup {Tile}]
         /\ load'.valid => load'.dest \in Dests /\ load'.addr \in Addrs
<1>0. load.valid \in BOOLEAN /\ load.acc \in BOOLEAN
  BY DEF TypeOK
<1>1. ArFire(e) \in BOOLEAN
  BY <1>0 DEF ArFire, ArValid, Input
<1>2. CASE PushLoad
  <2> DEFINE l == ex.ld[LastOf(LoadsOf(ex))]
  <2>1. l.dest \in Dests /\ l.addr \in Addrs
    BY <1>2, LoadSlot DEF PushLoad
  <2>2. load' = [valid |-> TRUE, acc |-> ArFire(e), dest |-> l.dest, addr |-> l.addr]
    BY <1>2 DEF LoadRegister, LoadDone, PushLoad, Stall
  <2> HIDE DEF l
  <2> QED
    BY <1>1, <2>1, <2>2
<1>3. CASE ~PushLoad /\ LoadDone(e)
  BY <1>3 DEF LoadRegister, NoLoad
<1>4. CASE ~PushLoad /\ ~LoadDone(e)
  <2>1. load' = [load EXCEPT !.acc = load.valid /\ (load.acc \/ ArFire(e))]
    BY <1>4 DEF LoadRegister
  <2> QED
    BY <1>0, <1>1, <2>1 DEF TypeOK, InUse
<1> QED
  BY <1>2, <1>3, <1>4

LEMMA FsmStep ==
  ASSUME TypeOK, InUse, NEW e \in Input, StateMachine(e), Sequencers(e)
  PROVE  /\ state' \in MemStates
         /\ cap' \in Stores \cup {NoStore}
         /\ accepted' \in SUBSET {"aw", "w"}
         /\ beats' \in 0 .. MaxBeats
         /\ state' \in StoreStates => cap' \in Stores
         /\ TransferInFlight' => beats' >= 1
<1> USE DEF MemStates, StoreStates, MatrixReadStates, MatrixWriteStates,
            TransferInFlight
<1>1. /\ ex.mx.op \in {"none", "in", "out"} /\ ex.mx.beats \in 0 .. MaxBeats
      /\ MaxBeats \in Nat /\ beats \in 0 .. MaxBeats
  BY MemoryAssumption DEF TypeOK, Bundle, Transfers
<1>2. StartTransfer => state = "IDLE"
  BY DEF StartTransfer, Stall, TransferStall, StorePending, TypeOK
<1>3. CASE StoreBegins
  <2>1. state = "IDLE" /\ fifo # <<>> /\ fifo \in Seq(Stores)
    BY <1>3 DEF StoreBegins, Pop, TypeOK
  <2>2. fifo[1] \in Stores
    BY <2>1, HeadTailProperties
  <2> QED
    BY <1>1, <1>3, <2>1, <2>2 DEF StoreBegins, Sequencers, BeatDone, TypeOK
<1>4. CASE IdleCycle
  <2>1. /\ beats' = IF StartTransfer THEN ex.mx.beats ELSE beats
        /\ cap' = cap /\ accepted' = accepted
    BY <1>4 DEF IdleCycle, Sequencers, BeatDone
  <2>2. \/ state' \in {"IDLE", "SCOPY"}
        \/ /\ StartTransfer /\ ex.mx.beats > 0
           /\ state' \in {"MATRIX_READ_AR", "MATRIX_WRITE_GATHER"}
    BY <1>4 DEF IdleCycle
  <2> QED
    BY <1>1, <2>1, <2>2 DEF TypeOK
<1> DEFINE Beats(from) == beats' = IF from THEN beats - 1 ELSE beats
<1>5. state # "IDLE" =>
        Beats((state = "MATRIX_READ_DRAIN" /\ e.drained)
                \/ (state = "MATRIX_WRITE_B" /\ e.b))
  BY <1>2 DEF Sequencers, BeatDone
<1>6. CASE \/ WriteIssue(e, "STORE_AW_W", "STORE_B")
           \/ WriteIssue(e, "MATRIX_WRITE_AW_W", "MATRIX_WRITE_B")
  <2>1. Channels(e) \in SUBSET {"aw", "w"}
    BY DEF Channels, TypeOK
  <2>2. beats' = beats
    BY <1>5, <1>6 DEF WriteIssue
  <2> QED
    BY <1>1, <1>6, <2>1, <2>2 DEF WriteIssue, TypeOK, InUse
<1>7. CASE StoreAnswered(e)
  BY <1>1, <1>5, <1>7 DEF StoreAnswered, TypeOK, InUse
<1>8. CASE CopyCycle
  BY <1>1, <1>5, <1>8 DEF CopyCycle, TypeOK, InUse
<1>9. CASE \/ TransferCycle("MATRIX_READ_AR", ArFire(e), "MATRIX_READ_R")
           \/ TransferCycle("MATRIX_READ_R", RFire(e), "MATRIX_READ_DRAIN")
           \/ TransferCycle("MATRIX_WRITE_GATHER", e.drained, "MATRIX_WRITE_AW_W")
  BY <1>1, <1>5, <1>9 DEF TransferCycle, TypeOK, InUse
<1>10. CASE \/ TransferCycle("MATRIX_READ_DRAIN", e.drained,
                             IF LastBeat THEN "IDLE" ELSE "MATRIX_READ_AR")
            \/ TransferCycle("MATRIX_WRITE_B", e.b,
                             IF LastBeat THEN "IDLE" ELSE "MATRIX_WRITE_GATHER")
  <2>1. /\ cap' = cap /\ accepted' = accepted
        /\ state \in {"MATRIX_READ_DRAIN", "MATRIX_WRITE_B"}
        /\ \/ state' = state /\ beats' = beats
           \/ state' = "IDLE" /\ beats' = beats - 1
           \/ /\ state' \in {"MATRIX_READ_AR", "MATRIX_WRITE_GATHER"}
              /\ beats # 1 /\ beats' = beats - 1
    BY <1>5, <1>10 DEF TransferCycle, LastBeat
  <2>2. beats \in 1 .. MaxBeats
    BY <1>1, <2>1 DEF InUse
  <2> QED
    BY <1>1, <2>1, <2>2 DEF TypeOK
<1> QED
  BY <1>3, <1>4, <1>6, <1>7, <1>8, <1>9, <1>10 DEF StateMachine
\* Every counter of the completion queue runs down.
LEMMA TickedType ==
  ASSUME TypeOK
  PROVE  /\ Ticked \in Seq([dest : Dests, count : 0 .. TrackCycles])
         /\ Len(Ticked) = Len(track) /\ Len(track) \in Nat
         /\ \A j \in 1 .. Len(track) :
              /\ Ticked[j].count \in 0 .. TrackCycles - 1
              /\ track[j].count > 0 => Ticked[j].count = track[j].count - 1
              /\ track[j].count \in 0 .. TrackCycles
              /\ Ticked[j].dest = track[j].dest
<1> USE DEF TrackCycles
<1> DEFINE Entry == [dest : Dests, count : 0 .. TrackCycles]
<1>1. Len(track) \in Nat /\ \A j \in 1 .. Len(track) : track[j] \in Entry
  BY LenProperties, ElementOfSeq DEF TypeOK
<1>2. \A j \in 1 .. Len(track) :
        /\ Ticked[j] \in Entry
        /\ Ticked[j].count \in 0 .. TrackCycles - 1
        /\ track[j].count > 0 => Ticked[j].count = track[j].count - 1
        /\ track[j].count \in 0 .. TrackCycles
        /\ Ticked[j].dest = track[j].dest
  BY <1>1 DEF Ticked, TrackCycles
<1>3. Ticked = [j \in 1 .. Len(track) |-> Ticked[j]]
  BY DEF Ticked
<1>4. Ticked \in Seq(Entry) /\ Len(Ticked) = Len(track)
  BY <1>1, <1>2, <1>3, IsASeq
<1> QED
  BY <1>1, <1>2, <1>4

LEMMA TrackStep ==
  ASSUME TypeOK, InUse, Countdown, NEW e \in Input, Completion(e)
  PROVE  /\ track' \in Seq([dest : Dests, count : 0 .. TrackCycles])
         /\ wbLoad' \in Dests \cup {NoDest}
         /\ Countdown' /\ JustCompleted'
<1> USE DEF TrackCycles
<1> DEFINE Entry == [dest : Dests, count : 0 .. TrackCycles]
           t == IF Expired THEN Tail(Ticked) ELSE Ticked
           new == [dest |-> load.dest, count |-> TrackCycles]
<1>1. /\ t \in Seq(Entry) /\ Len(t) \in Nat
      /\ \A j \in 1 .. Len(t) : t[j].count \in 0 .. TrackCycles - 1
      /\ \A j, k \in 1 .. Len(t) : j <= k => t[k].count - t[j].count >= k - j
  <2>1. track # <<>> => Len(track) > 0
    BY TickedType, EmptySeq DEF TypeOK
  <2>2. CASE Expired
    <3>1. Len(track) > 0 /\ track[1].count = 0
      BY <2>1, <2>2 DEF Expired
    <3>2. Ticked # <<>>
      BY <3>1, TickedType, EmptySeq
    <3>3. /\ t \in Seq(Entry) /\ Len(t) = Len(track) - 1
          /\ \A j \in 1 .. Len(track) - 1 : t[j] = Ticked[j + 1]
      BY <2>2, <3>2, TickedType, Popped
    <3>4. \A j \in 1 .. Len(track) - 1 :
            /\ j + 1 \in 1 .. Len(track)
            /\ t[j].count = track[j + 1].count - 1
            /\ t[j].count \in 0 .. TrackCycles - 1
      <4> TAKE j \in 1 .. Len(track) - 1
      <4>1. j + 1 \in 1 .. Len(track) /\ 1 \in 1 .. Len(track) /\ j \in Nat
        BY <3>1, TickedType
      <4>2. track[j + 1].count - track[1].count >= j + 1 - 1
        BY <4>1 DEF Countdown
      <4>3. track[j + 1].count > 0
        BY <3>1, <4>1, <4>2, TickedType
      <4> QED
        BY <3>3, <4>1, <4>3, TickedType
    <3>5. \A j, k \in 1 .. Len(t) : j <= k => t[k].count - t[j].count >= k - j
      <4> TAKE j, k \in 1 .. Len(t)
      <4>1. /\ j + 1 \in 1 .. Len(track) /\ k + 1 \in 1 .. Len(track)
            /\ t[j].count = track[j + 1].count - 1
            /\ t[k].count = track[k + 1].count - 1
        BY <3>3, <3>4
      <4>i. j \in Int /\ k \in Int
        OBVIOUS
      <4>2. j <= k => track[k + 1].count - track[j + 1].count >= k - j
        <5> HAVE j <= k
        <5>1. j + 1 <= k + 1 /\ (k + 1) - (j + 1) = k - j
          BY <4>i
        <5>2. track[k + 1].count - track[j + 1].count >= (k + 1) - (j + 1)
          BY <4>1, <5>1 DEF Countdown
        <5> QED
          BY <5>1, <5>2
      <4>3. track[j + 1].count \in Int /\ track[k + 1].count \in Int
        BY <4>1, TickedType
      <4> QED
        BY <4>1, <4>2, <4>3
    <3> QED
      BY <3>3, <3>4, <3>5, LenProperties
  <2>3. CASE ~Expired
    <3>1. t = Ticked
      BY <2>3
    <3>2. \A j \in 1 .. Len(track) : t[j].count = track[j].count - 1
      <4> TAKE j \in 1 .. Len(track)
      <4>1. 1 \in 1 .. Len(track) /\ 1 <= j /\ track # <<>>
        BY TickedType, EmptySeq
      <4>2. track[1].count > 0
        BY <2>3, <4>1, TickedType DEF Expired
      <4>3. track[j].count - track[1].count >= j - 1
        BY <4>1 DEF Countdown
      <4> QED
        BY <3>1, <4>1, <4>2, <4>3, TickedType
    <3>3. \A j, k \in 1 .. Len(t) : j <= k => t[k].count - t[j].count >= k - j
      <4> TAKE j, k \in 1 .. Len(t)
      <4>1. /\ j \in 1 .. Len(track) /\ k \in 1 .. Len(track)
            /\ t[j].count = track[j].count - 1 /\ t[k].count = track[k].count - 1
        BY <3>1, <3>2, TickedType
      <4>2. j <= k => track[k].count - track[j].count >= k - j
        BY <4>1 DEF Countdown
      <4>3. track[j].count \in Int /\ track[k].count \in Int
        BY <4>1, TickedType
      <4> QED
        BY <4>1, <4>2, <4>3
    <3> QED
      BY <3>1, <3>3, TickedType
  <2> QED
    BY <2>2, <2>3
<1> HIDE DEF t
<1>2. CASE LoadDone(e)
  <2>1. new \in Entry /\ load.dest \in Dests
    BY <1>2 DEF LoadDone, InUse, TrackCycles
  <2>2. track' = t \o <<new>> /\ wbLoad' = load.dest
    BY <1>2 DEF Completion, Queue, t
  <2> HIDE DEF new
  <2>3. /\ track' \in Seq(Entry) /\ Len(track') = Len(t) + 1
        /\ track'[Len(t) + 1] = new
        /\ \A j \in 1 .. Len(t) : track'[j] = t[j]
    BY <1>1, <2>1, <2>2, Pushed
  <2>4. \A j, k \in 1 .. Len(track') :
          j <= k => track'[k].count - track'[j].count >= k - j
    <3> TAKE j, k \in 1 .. Len(track')
    <3>1. CASE k <= Len(t) /\ j <= k
      <4>1. /\ j \in 1 .. Len(t) /\ k \in 1 .. Len(t)
            /\ track'[j] = t[j] /\ track'[k] = t[k]
        BY <1>1, <2>3, <3>1
      <4> QED
        BY <1>1, <3>1, <4>1
    <3>2. CASE k = Len(t) + 1 /\ j <= Len(t)
      <4>1. /\ j \in 1 .. Len(t) /\ Len(t) \in 1 .. Len(t)
            /\ track'[j].count = t[j].count
            /\ t[Len(t)].count - t[j].count >= Len(t) - j
            /\ t[Len(t)].count \in 0 .. TrackCycles - 1
            /\ t[j].count \in 0 .. TrackCycles - 1
        BY <1>1, <2>3, <3>2
      <4>2. track'[k].count = TrackCycles
        BY <2>3, <3>2 DEF new
      <4>3. TrackCycles - t[j].count >= Len(t) + 1 - j
        BY <1>1, <4>1
      <4> QED
        BY <3>2, <4>1, <4>2, <4>3
    <3>3. CASE k = Len(t) + 1 /\ j = k
      BY <2>3, <3>3 DEF new, TrackCycles
    <3> QED
      BY <1>1, <2>3, <3>1, <3>2, <3>3
  <2>5. track' # <<>>
    BY <1>1, <2>3, EmptySeq
  <2> QED
    BY <2>1, <2>2, <2>3, <2>4, <2>5 DEF Countdown, JustCompleted, new
<1>3. CASE ~LoadDone(e)
  <2>1. track' = t /\ wbLoad' = NoDest
    BY <1>1, <1>3, NotPushed DEF Completion, Queue, t
  <2> QED
    BY <1>1, <2>1 DEF Countdown, JustCompleted, TrackCycles
<1> QED
  BY <1>2, <1>3

LEMMA ExStep ==
  ASSUME InUse, NEW b \in Bundles \cup {Bubble}, Execute(b)
  PROVE  ex' \in Bundles \cup {Bubble} /\ ex' \in Bundle
<1>1. ex' \in Bundles \cup {Bubble}
  BY DEF Execute, InUse
<1> QED
  BY <1>1, BubbleType, MemoryAssumption

LEMMA CopyStep ==
  ASSUME TypeOK, NEW e \in Input, Sequencers(e)
  PROVE  /\ copy' \in [elem : 0 .. Vlen, pipe : BOOLEAN]
         /\ bypass' \in BOOLEAN /\ issueSeen' \in BOOLEAN
<1>1. /\ copy.elem \in 0 .. Vlen /\ copy.pipe \in BOOLEAN /\ Vlen \in Nat
      /\ copy \in [elem : 0 .. Vlen, pipe : BOOLEAN]
  BY MemoryAssumption DEF TypeOK
<1>2. copy' \in [elem : 0 .. Vlen, pipe : BOOLEAN]
  <2>1. NoCopy \in [elem : 0 .. Vlen, pipe : BOOLEAN]
    BY <1>1 DEF NoCopy
  <2>2. CASE state # "SCOPY"
    BY <2>1, <2>2 DEF Sequencers
  <2>3. CASE state = "SCOPY" /\ copy.elem < Vlen
    BY <1>1, <2>3 DEF Sequencers
  <2>4. CASE state = "SCOPY" /\ ~(copy.elem < Vlen)
    BY <1>1, <2>1, <2>4 DEF Sequencers
  <2> QED
    BY <2>2, <2>3, <2>4
<1>3. bypass' \in BOOLEAN
  BY DEF Sequencers, TypeOK
<1>4. issueSeen' \in BOOLEAN
  BY DEF Sequencers
<1> QED
  BY <1>2, <1>3, <1>4

LEMMA SlaveStep ==
  ASSUME TypeOK, NEW e \in Input, Offered(e), Slave(e)
  PROVE  /\ reads' \in Seq(Addrs \cup {Tile})
         /\ memory' \in [Addrs -> Vals]
<1> DEFINE S == Addrs \cup {Tile}
           t == IF RFire(e) THEN Tail(reads) ELSE reads
<1>1. t \in Seq(S)
  <2>1. CASE RFire(e)
    <3>1. reads # <<>> /\ reads \in Seq(S)
      BY <2>1 DEF RFire, Offered, Offers, Input, TypeOK
    <3> QED
      BY <2>1, <3>1, Popped
  <2>2. CASE ~RFire(e)
    BY <2>2 DEF TypeOK
  <2> QED
    BY <2>1, <2>2
<1> HIDE DEF t
<1>2. reads' \in Seq(S)
  <2>1. CASE ArFire(e)
    <3>1. ArAddr \in S
      BY DEF ArAddr, TypeOK
    <3>2. reads' = t \o <<ArAddr>>
      BY <2>1 DEF Slave, Queue, t
    <3> QED
      BY <1>1, <3>1, <3>2, Pushed
  <2>2. CASE ~ArFire(e)
    <3>1. reads' = t \o <<>>
      BY <2>2 DEF Slave, Queue, t
    <3> QED
      BY <1>1, <3>1, NotPushed
  <2> QED
    BY <2>1, <2>2
<1>3. memory' \in [Addrs -> Vals]
  <2>1. CASE memory' = memory
    BY <2>1 DEF TypeOK
  <2>2. CASE memory' = [memory EXCEPT ![cap.addr] = cap.val]
    <3>1. CASE cap \in Stores
      BY <2>2, <3>1 DEF TypeOK, Stores
    <3>2. CASE cap = NoStore
      <4>1. cap.addr \notin Addrs
        BY <3>2, MemoryAssumption DEF NoStore
      <4> QED
        BY <2>2, <4>1 DEF TypeOK
    <3> QED
      BY <3>1, <3>2 DEF TypeOK
  <2> QED
    BY <2>1, <2>2 DEF Slave
<1> QED
  BY <1>2, <1>3

----------------------------------------------------------------------------
(* Stores *)

LEMMA FirstSlot ==
  ASSUME NEW n \in 1 .. 2, NEW S \in SUBSET (1 .. n), S # {}
  PROVE  FirstOf(S) \in S
<1> PICK k \in S : TRUE
  OBVIOUS
<1>1. \E i \in S : \A j \in S : i <= j
  <2>1. CASE 1 \in S
    <3>1. \A j \in S : 1 <= j
      OBVIOUS
    <3> QED
      BY <2>1, <3>1
  <2>2. CASE 1 \notin S
    <3>1. \A j \in S : k <= j
      BY <2>2
    <3> QED
      BY <3>1
  <2> QED
    BY <2>1, <2>2
<1> QED
  BY <1>1 DEF FirstOf

LEMMA StoreFired ==
  ASSUME TypeOK, AnyStore
  PROVE  FiredStore \in Stores
<1> DEFINE i == FirstOf(StoresOf(ex))
<1>1. i \in StoresOf(ex)
  BY FirstSlot, MemoryAssumption DEF AnyStore, StoresOf
<1>2. i \in 1 .. StoreSlots /\ ex.st[i].op = "store"
  BY <1>1 DEF StoresOf
<1>3. ex.st[i] \in StoreOps
  BY <1>2 DEF TypeOK, Bundle
<1>4. ex.st[i].req \in Stores
  BY <1>2, <1>3 DEF StoreOps
<1> QED
  BY <1>4 DEF FiredStore

\* A store fires exactly when it enters the queue: it is never refused.
LEMMA StoreEnters ==
  ASSUME MemoryInv
  PROVE  /\ PushStore <=> Fired /\ AnyStore
         /\ PushStore => Len(fifo) < StoreDepth /\ Len(owed) < StoreDepth
<1>1. AnyStore => ex # Bubble
  BY BubbleIdle DEF AnyStore
<1>2. Len(fifo) \in Nat /\ StoreDepth \in Nat \ {0} /\ OnBus \in 0 .. 1
  BY MemoryAssumption, LenProperties DEF MemoryInv, TypeOK, OnBus
<1>3. PushStore => ~StoreQueueStall
  BY DEF PushStore, Stall
<1>4. PushStore => Len(fifo) < StoreDepth /\ Len(owed) < StoreDepth
  <2>1. CASE state = "IDLE"
    BY <1>2, <1>3, <2>1 DEF StoreQueueStall, MemoryInv, Counted, OnBus, StoreStates
  <2>2. CASE state # "IDLE"
    BY <1>2, <1>3, <2>2 DEF StoreQueueStall, MemoryInv, Counted
  <2> QED
    BY <2>1, <2>2
<1>5. PushStore <=> Fired /\ AnyStore
  BY <1>1 DEF Fired, PushStore
<1> QED
  BY <1>4, <1>5

\* How the state machine moves stores: from the queue to the bus, and off it.
LEMMA BusStep ==
  ASSUME TypeOK, NEW e \in Input, StateMachine(e)
  PROVE  /\ Pop => state = "IDLE" /\ OnBus = 0 /\ OnBus' = 1 /\ cap' = fifo[1]
         /\ state = "STORE_B" /\ e.b => ~Pop /\ OnBus = 1 /\ OnBus' = 0
         /\ ~Pop /\ ~(state = "STORE_B" /\ e.b) =>
              /\ OnBus' = OnBus
              /\ OnBus = 1 => cap' = cap
<1> USE DEF OnBus, StoreStates, Pop
<1>1. CASE StoreBegins
  BY <1>1 DEF StoreBegins
<1>2. CASE IdleCycle
  BY <1>2 DEF IdleCycle
<1>3. CASE \/ WriteIssue(e, "STORE_AW_W", "STORE_B")
           \/ WriteIssue(e, "MATRIX_WRITE_AW_W", "MATRIX_WRITE_B")
  BY <1>3 DEF WriteIssue
<1>4. CASE StoreAnswered(e)
  BY <1>4 DEF StoreAnswered
<1>5. CASE CopyCycle
  BY <1>5 DEF CopyCycle
<1>6. CASE \/ TransferCycle("MATRIX_READ_AR", ArFire(e), "MATRIX_READ_R")
           \/ TransferCycle("MATRIX_READ_R", RFire(e), "MATRIX_READ_DRAIN")
           \/ TransferCycle("MATRIX_WRITE_GATHER", e.drained, "MATRIX_WRITE_AW_W")
  BY <1>6 DEF TransferCycle
<1>7. CASE \/ TransferCycle("MATRIX_READ_DRAIN", e.drained,
                             IF LastBeat THEN "IDLE" ELSE "MATRIX_READ_AR")
           \/ TransferCycle("MATRIX_WRITE_B", e.b,
                             IF LastBeat THEN "IDLE" ELSE "MATRIX_WRITE_GATHER")
  BY <1>7 DEF TransferCycle
<1> QED
  BY <1>1, <1>2, <1>3, <1>4, <1>5, <1>6, <1>7 DEF StateMachine

LEMMA Committed ==
  ASSUME MemoryInv, NEW e \in Input
  PROVE  LET older == OldestCommitted(e)
         IN  /\ older \in Seq(Stores)
             /\ state = "STORE_B" /\ e.b =>
                  /\ owed # <<>> /\ older = Tail(owed)
                  /\ Len(older) = Len(owed) - 1
                  /\ \A j \in 1 .. Len(older) : older[j] = owed[j + 1]
             /\ ~(state = "STORE_B" /\ e.b) => older = owed
<1>1. owed \in Seq(Stores) /\ Len(owed) \in Nat
  BY LenProperties DEF MemoryInv, Counted
<1>2. CASE state = "STORE_B" /\ e.b
  <2>1. OnBus = 1 /\ Len(fifo) \in Nat
    BY <1>2, LenProperties DEF OnBus, StoreStates, MemoryInv, TypeOK
  <2>2. Len(owed) > 0
    BY <2>1 DEF MemoryInv, Counted
  <2>3. owed # <<>>
    BY <2>2, EmptySeq
  <2>4. OldestCommitted(e) = Tail(owed)
    BY <1>2, <2>3 DEF OldestCommitted
  <2> QED
    BY <1>1, <1>2, <2>3, <2>4, Popped
<1>3. CASE ~(state = "STORE_B" /\ e.b)
  BY <1>1, <1>3 DEF OldestCommitted
<1> QED
  BY <1>2, <1>3

\* A store that fires enters the history, and nothing else does.
LEMMA Owed ==
  ASSUME MemoryInv, NEW e \in Input, Observe(e)
  PROVE  LET older == OldestCommitted(e)
         IN  /\ owed' \in Seq(Stores)
             /\ PushStore => /\ Len(owed') = Len(older) + 1
                             /\ owed'[Len(older) + 1] = FiredStore
                             /\ \A j \in 1 .. Len(older) : owed'[j] = older[j]
             /\ ~PushStore => owed' = older
<1> DEFINE older == OldestCommitted(e)
<1>1. older \in Seq(Stores)
  BY Committed
<1>2. PushStore <=> Fired /\ AnyStore
  BY StoreEnters
<1>3. CASE PushStore
  <2>1. FiredStore \in Stores
    BY <1>3, StoreFired DEF PushStore, MemoryInv
  <2>2. owed' = Append(older, FiredStore)
    BY <1>2, <1>3 DEF Observe
  <2> HIDE DEF older
  <2>3. Append(older, FiredStore) = older \o <<FiredStore>>
    BY <1>1, <2>1, AppendIsConcat
  <2> QED
    BY <1>1, <1>3, <2>1, <2>2, <2>3, Pushed DEF older
<1>4. CASE ~PushStore
  BY <1>1, <1>2, <1>4 DEF Observe
<1> QED
  BY <1>3, <1>4

LEMMA CountedStep ==
  ASSUME MemoryInv, NEW e \in Input, StateMachine(e), StoreFifo, Observe(e)
  PROVE  Counted'
<1> DEFINE older == OldestCommitted(e)
           bus  == state = "STORE_B" /\ e.b
<1>1. /\ Len(fifo) \in Nat /\ Len(owed) \in Nat /\ OnBus \in 0 .. 1
      /\ Len(owed) = Len(fifo) + OnBus /\ Len(owed) <= StoreDepth
      /\ StoreDepth \in Nat
  BY MemoryAssumption, LenProperties DEF MemoryInv, Counted, TypeOK, OnBus
<1>2. PushStore => Len(fifo) < StoreDepth /\ Len(owed) < StoreDepth
  BY StoreEnters
<1>3. /\ Pop => Len(fifo') = Len(fifo) - 1 + (IF PushStore THEN 1 ELSE 0)
      /\ ~Pop => Len(fifo') = Len(fifo) + (IF PushStore THEN 1 ELSE 0)
  <2>1. CASE PushStore
    BY <1>1, <1>2, <2>1, FifoStep DEF MemoryInv
  <2>2. CASE ~PushStore
    BY <1>1, <2>2, FifoStep DEF MemoryInv
  <2> QED
    BY <2>1, <2>2
<1>4. /\ owed' \in Seq(Stores)
      /\ Len(owed') = Len(older) + (IF PushStore THEN 1 ELSE 0)
  BY Owed
<1>5. /\ bus => Len(older) = Len(owed) - 1
      /\ ~bus => Len(older) = Len(owed)
  BY Committed
<1> HIDE DEF older
<1>6. /\ Pop => ~bus /\ OnBus = 0 /\ OnBus' = 1
      /\ bus => ~Pop /\ OnBus = 1 /\ OnBus' = 0
      /\ ~Pop /\ ~bus => OnBus' = OnBus
  BY BusStep DEF MemoryInv
<1> HIDE DEF bus
<1>7. CASE PushStore
  BY <1>1, <1>2, <1>3, <1>4, <1>5, <1>6, <1>7 DEF Counted
<1>8. CASE ~PushStore
  BY <1>1, <1>3, <1>4, <1>5, <1>6, <1>8 DEF Counted
<1> QED
  BY <1>7, <1>8

LEMMA MemoryInvInitially == HInit => MemoryInv
<1> SUFFICES ASSUME HInit PROVE MemoryInv
  OBVIOUS
<1> USE DEF HInit, Init
<1>1. \A S : <<>> \in Seq(S) /\ Len(<<>>) = 0
  BY EmptySeq
<1>2. /\ MaxBeats \in Nat /\ Vlen \in Nat /\ StoreDepth \in Nat
  BY MemoryAssumption
<1>3. TypeOK
  <2>1. load \in [valid : BOOLEAN, acc : BOOLEAN, dest : Dests \cup {NoDest},
                  addr : Addrs \cup {Tile}]
    BY DEF NoLoad
  <2>2. copy \in [elem : 0 .. Vlen, pipe : BOOLEAN] /\ beats \in 0 .. MaxBeats
    BY <1>2 DEF NoCopy
  <2>3. /\ track \in Seq([dest : Dests, count : 0 .. TrackCycles])
        /\ fifo \in Seq(Stores) /\ reads \in Seq(Addrs \cup {Tile})
    BY <1>1
  <2>4. state \in MemStates
    BY DEF MemStates
  <2> QED
    BY <2>1, <2>2, <2>3, <2>4, BubbleType DEF TypeOK
<1>4. InUse
  BY DEF InUse, NoLoad, StoreStates, TransferInFlight, MatrixReadStates,
         MatrixWriteStates
<1>5. Countdown /\ JustCompleted
  BY <1>1 DEF Countdown, JustCompleted
<1>6. Counted
  BY <1>1, <1>2 DEF Counted, OnBus, StoreStates
<1> QED
  BY <1>3, <1>4, <1>5, <1>6 DEF MemoryInv

LEMMA MemoryInvInductive == MemoryInv /\ [HNext]_hvars => MemoryInv'
<1> SUFFICES ASSUME MemoryInv, [HNext]_hvars PROVE MemoryInv'
  OBVIOUS
<1> USE DEF MemoryInv
<1>1. ASSUME NEW e \in Input, NEW b \in Bundles \cup {Bubble}, Cycle(e, b), Observe(e)
      PROVE  MemoryInv'
  <2> USE <1>1 DEF Cycle
  <2>1. ex' \in Bundles \cup {Bubble} /\ ex' \in Bundle
    BY ExStep
  <2>2. /\ load' \in [valid : BOOLEAN, acc : BOOLEAN, dest : Dests \cup {NoDest},
                      addr : Addrs \cup {Tile}]
        /\ load'.valid => load'.dest \in Dests /\ load'.addr \in Addrs
    BY LoadStep
  <2>3. /\ track' \in Seq([dest : Dests, count : 0 .. TrackCycles])
        /\ wbLoad' \in Dests \cup {NoDest}
        /\ Countdown' /\ JustCompleted'
    BY TrackStep
  <2>4. /\ fifo' \in Seq(Stores) /\ popValid' \in BOOLEAN
        /\ popValid' => fifo' # <<>>
    BY StoreEnters, FifoStep
  <2>5. /\ state' \in MemStates /\ cap' \in Stores \cup {NoStore}
        /\ accepted' \in SUBSET {"aw", "w"} /\ beats' \in 0 .. MaxBeats
        /\ state' \in StoreStates => cap' \in Stores
        /\ TransferInFlight' => beats' >= 1
    BY FsmStep
  <2>6. /\ copy' \in [elem : 0 .. Vlen, pipe : BOOLEAN]
        /\ bypass' \in BOOLEAN /\ issueSeen' \in BOOLEAN
    BY CopyStep
  <2>7. reads' \in Seq(Addrs \cup {Tile}) /\ memory' \in [Addrs -> Vals]
    BY SlaveStep
  <2>8. Counted'
    BY CountedStep
  <2>9. TypeOK'
    BY <2>1, <2>2, <2>3, <2>4, <2>5, <2>6, <2>7 DEF TypeOK
  <2>10. InUse'
    BY <2>1, <2>2, <2>5 DEF InUse
  <2> QED
    BY <2>3, <2>8, <2>9, <2>10
<1>2. CASE UNCHANGED hvars
  <2> USE <1>2 DEF hvars, histVars, vars, engineVars, slaveVars
  <2>1. TypeOK'
    BY DEF TypeOK
  <2>2. InUse'
    BY DEF InUse, TransferInFlight
  <2>3. Countdown' /\ JustCompleted'
    BY DEF Countdown, JustCompleted
  <2>4. Counted'
    BY DEF Counted, OnBus
  <2> QED
    BY <2>1, <2>2, <2>3, <2>4
<1> QED
  BY <1>1, <1>2 DEF HNext

\* At most four completed loads are counting down at a time: the code's
\* completion queue of four entries never overflows.
LEMMA CountdownBound == TypeOK /\ Countdown => CompletionsFit
<1> SUFFICES ASSUME TypeOK, Countdown, Len(track) > TrackDepth PROVE FALSE
  BY LenProperties DEF CompletionsFit, TypeOK, TrackDepth
<1> DEFINE n == Len(track)
<1>1. n \in Nat /\ 1 \in 1 .. n /\ n \in 1 .. n
  BY LenProperties DEF TypeOK, TrackDepth
<1>2. track[n].count - track[1].count >= n - 1
  BY <1>1 DEF Countdown
<1>3. track[n].count \in 0 .. 3 /\ track[1].count \in 0 .. 3
  BY <1>1, TickedType DEF TrackCycles
<1> QED
  BY <1>1, <1>2, <1>3 DEF TrackDepth

----------------------------------------------------------------------------
(* Theorems for every program *)

\* Every register of the engine keeps its type, whatever the slave and the
\* pipeline do; in particular the queue is never read when it is empty.
THEOREM MemoryTypeCorrect == HSpec => []TypeOK
<1>1. HInit => MemoryInv
  BY MemoryInvInitially
<1>2. MemoryInv /\ [HNext]_hvars => MemoryInv'
  BY MemoryInvInductive
<1>3. MemoryInv => TypeOK
  BY DEF MemoryInv
<1> QED
  BY <1>1, <1>2, <1>3, PTL DEF HSpec

\* The completion queue, whose tail is written unconditionally, never overflows.
THEOREM CompletionsBounded == HSpec => []CompletionsFit
<1>1. HInit => MemoryInv
  BY MemoryInvInitially
<1>2. MemoryInv /\ [HNext]_hvars => MemoryInv'
  BY MemoryInvInductive
<1>3. MemoryInv => CompletionsFit
  BY CountdownBound DEF MemoryInv, Counted, OutstandingBounded
<1> QED
  BY <1>1, <1>2, <1>3, PTL DEF HSpec

\* The stores outstanding in queue and on the bus stay within the counter.
THEOREM StoresBounded == HSpec => []OutstandingBounded
<1>1. HInit => MemoryInv
  BY MemoryInvInitially
<1>2. MemoryInv /\ [HNext]_hvars => MemoryInv'
  BY MemoryInvInductive
<1>3. MemoryInv => OutstandingBounded
  BY CountdownBound DEF MemoryInv, Counted, OutstandingBounded
<1> QED
  BY <1>1, <1>2, <1>3, PTL DEF HSpec

----------------------------------------------------------------------------
(* What the safe order adds to the inductive invariant *)

\* A value on its way to the scratch is in one of two places.
OnItsWay ==
  /\ unwritten \subseteq Dests
  /\ unwritten \subseteq {wbLoad} \cup (IF load.valid THEN {load.dest} ELSE {})

\* They are the same stores, in the same order.
Matched ==
  /\ state \in StoreStates => owed[1] = cap
  /\ \A j \in 1 .. Len(fifo) : owed[j + OnBus] = fifo[j]

\* Loads stay out of transfers, and away from younger stores.
Apart ==
  /\ TransferInFlight => ~AnyLoad /\ ~load.valid
  /\ ~AnyLoad \/ ~AnyStore

\* Who asked for the read in progress.
Asked ==
  reads = IF load.valid /\ load.acc THEN <<load.addr>>
          ELSE IF state = "MATRIX_READ_R" THEN <<Tile>> ELSE <<>>

\* A load may return everything its address holds from now on.
Returnable ==
  IF load.valid
  THEN /\ memory[load.addr] \in loading
       /\ \A k \in 1 .. Len(owed) : owed[k].addr = load.addr => owed[k].val \in loading
  ELSE loading = {}

OrderInv == MemoryInv /\ OnItsWay /\ Matched /\ Apart /\ Asked /\ Returnable

----------------------------------------------------------------------------
LEMMA OneSlot ==
  ASSUME SafeOrder, InUse, TypeOK
  PROVE  /\ AnyLoad => FiredLoad = ex.ld[LastOf(LoadsOf(ex))]
         /\ AnyStore => FiredStore = ex.st[LastOf(StoresOf(ex))].req
         /\ AnyLoad => ex # Bubble
<1>1. AnyLoad \/ AnyStore => ex \in Bundles
  BY BubbleIdle DEF AnyLoad, AnyStore, InUse
<1>2. ASSUME AnyLoad PROVE FirstOf(LoadsOf(ex)) = LastOf(LoadsOf(ex))
  <2>1. FirstOf(LoadsOf(ex)) \in LoadsOf(ex) /\ LastOf(LoadsOf(ex)) \in LoadsOf(ex)
    BY <1>2, FirstSlot, LastSlot, MemoryAssumption DEF AnyLoad, LoadsOf
  <2> QED
    BY <1>1, <1>2, <2>1 DEF SafeOrder, OneOfEach
<1>3. ASSUME AnyStore PROVE FirstOf(StoresOf(ex)) = LastOf(StoresOf(ex))
  <2>1. FirstOf(StoresOf(ex)) \in StoresOf(ex) /\ LastOf(StoresOf(ex)) \in StoresOf(ex)
    BY <1>3, FirstSlot, LastSlot, MemoryAssumption DEF AnyStore, StoresOf
  <2> QED
    BY <1>1, <1>3, <2>1 DEF SafeOrder, OneOfEach
<1> QED
  BY <1>2, <1>3, BubbleIdle DEF FiredLoad, FiredStore, AnyLoad

LEMMA LoadFires ==
  ASSUME SafeOrder, InUse, TypeOK
  PROVE  /\ PushLoad <=> Fired /\ AnyLoad
         /\ PushLoad => ~load.valid /\ FiredLoad.addr \in Addrs
<1>1. AnyLoad => ex # Bubble
  BY OneSlot
<1>2. PushLoad => ~load.valid /\ AnyLoad
  BY DEF PushLoad, Stall
<1>3. AnyLoad => FiredLoad.addr \in Addrs
  BY OneSlot, LoadSlot
<1> QED
  BY <1>1, <1>2, <1>3 DEF PushLoad, Fired

\* What the load register does in a cycle.
LEMMA LoadCases ==
  ASSUME TypeOK, InUse, NEW e \in Input, LoadRegister(e), SafeOrder
  PROVE  /\ PushLoad =>
              /\ load'.valid /\ load'.acc = ArFire(e)
              /\ load'.addr = FiredLoad.addr /\ load'.dest = FiredLoad.dest
         /\ LoadDone(e) => load' = NoLoad /\ ~PushLoad /\ load.valid
         /\ ~PushLoad /\ ~LoadDone(e) =>
              /\ load'.valid = load.valid
              /\ load'.dest = load.dest /\ load'.addr = load.addr
              /\ load'.acc = (load.valid /\ (load.acc \/ ArFire(e)))
<1>1. LoadDone(e) => load.valid
  BY DEF LoadDone
<1>2. PushLoad => ~load.valid
  BY LoadFires
<1>3. CASE PushLoad
  <2> DEFINE l == ex.ld[LastOf(LoadsOf(ex))]
  <2>1. load' = [valid |-> TRUE, acc |-> ArFire(e), dest |-> l.dest, addr |-> l.addr]
    BY <1>1, <1>2, <1>3 DEF LoadRegister
  <2>2. l = FiredLoad
    BY <1>3, OneSlot DEF PushLoad
  <2> QED
    BY <1>1, <1>2, <1>3, <2>1, <2>2
<1>4. CASE LoadDone(e)
  BY <1>1, <1>2, <1>4 DEF LoadRegister
<1>5. CASE ~PushLoad /\ ~LoadDone(e)
  <2>1. load' = [load EXCEPT !.acc = load.valid /\ (load.acc \/ ArFire(e))]
    BY <1>5 DEF LoadRegister
  <2> QED
    BY <1>5, <2>1 DEF TypeOK
<1> QED
  BY <1>3, <1>4, <1>5

LEMMA OnItsWayStep ==
  ASSUME OrderInv, SafeOrder, NEW e \in Input, LoadRegister(e), Completion(e),
         Observe(e)
  PROVE  OnItsWay'
<1> USE DEF OrderInv, MemoryInv
<1>1. /\ unwritten \ {wbLoad} \subseteq IF load.valid THEN {load.dest} ELSE {}
      /\ unwritten \subseteq Dests
  BY DEF OnItsWay
<1>2. PushLoad <=> Fired /\ AnyLoad
  BY LoadFires
<1>3. CASE PushLoad
  <2>1. unwritten' \subseteq {FiredLoad.dest}
    BY <1>1, <1>2, <1>3, LoadFires DEF Observe
  <2>2. load'.valid /\ load'.dest = FiredLoad.dest
    BY <1>3, LoadCases
  <2>3. FiredLoad.dest \in Dests
    BY <1>2, <1>3, OneSlot, LoadSlot
  <2> QED
    BY <2>1, <2>2, <2>3 DEF OnItsWay
<1>4. CASE LoadDone(e)
  <2>1. unwritten' \subseteq {load.dest}
    BY <1>1, <1>2, <1>4, LoadCases DEF Observe
  <2>2. wbLoad' = load.dest
    BY <1>4 DEF Completion
  <2>3. load.dest \in Dests
    BY <1>4, LoadCases DEF InUse
  <2> QED
    BY <2>1, <2>2, <2>3 DEF OnItsWay
<1>5. CASE ~PushLoad /\ ~LoadDone(e)
  <2>1. unwritten' = unwritten \ {wbLoad}
    BY <1>2, <1>5 DEF Observe
  <2>2. load'.valid = load.valid /\ load'.dest = load.dest
    BY <1>5, LoadCases
  <2> QED
    BY <1>1, <2>1, <2>2 DEF OnItsWay
<1> QED
  BY <1>3, <1>4, <1>5

LEMMA StateCases ==
  ASSUME TypeOK, NEW e \in Input, StateMachine(e)
  PROVE  /\ TransferInFlight' => TransferInFlight \/ StartTransfer
         /\ state' = "MATRIX_READ_R" =>
              \/ state = "MATRIX_READ_AR" /\ ArFire(e)
              \/ state = "MATRIX_READ_R" /\ ~RFire(e)
         /\ state = "MATRIX_READ_AR" =>
              state' = IF ArFire(e) THEN "MATRIX_READ_R" ELSE "MATRIX_READ_AR"
         /\ state = "MATRIX_READ_R" =>
              state' = IF RFire(e) THEN "MATRIX_READ_DRAIN" ELSE "MATRIX_READ_R"
<1> USE DEF TransferInFlight, MatrixReadStates, MatrixWriteStates
<1>1. CASE StoreBegins
  BY <1>1 DEF StoreBegins, Pop
<1>2. CASE IdleCycle
  BY <1>2 DEF IdleCycle
<1>3. CASE \/ WriteIssue(e, "STORE_AW_W", "STORE_B")
           \/ WriteIssue(e, "MATRIX_WRITE_AW_W", "MATRIX_WRITE_B")
  BY <1>3 DEF WriteIssue
<1>4. CASE StoreAnswered(e)
  BY <1>4 DEF StoreAnswered
<1>5. CASE CopyCycle
  BY <1>5 DEF CopyCycle
<1>6. CASE \/ TransferCycle("MATRIX_READ_AR", ArFire(e), "MATRIX_READ_R")
           \/ TransferCycle("MATRIX_READ_R", RFire(e), "MATRIX_READ_DRAIN")
           \/ TransferCycle("MATRIX_WRITE_GATHER", e.drained, "MATRIX_WRITE_AW_W")
  BY <1>6 DEF TransferCycle
<1>7. CASE \/ TransferCycle("MATRIX_READ_DRAIN", e.drained,
                             IF LastBeat THEN "IDLE" ELSE "MATRIX_READ_AR")
           \/ TransferCycle("MATRIX_WRITE_B", e.b,
                             IF LastBeat THEN "IDLE" ELSE "MATRIX_WRITE_GATHER")
  BY <1>7 DEF TransferCycle
<1> QED
  BY <1>1, <1>2, <1>3, <1>4, <1>5, <1>6, <1>7 DEF StateMachine

LEMMA ApartStep ==
  ASSUME OrderInv, SafeOrder, NEW e \in Input, NEW b \in Bundles \cup {Bubble},
         LoadRegister(e), StateMachine(e), Execute(b)
  PROVE  Apart'
<1> USE DEF OrderInv, MemoryInv
<1>1. StartTransfer => ~Stall /\ ~AnyLoad /\ ~load.valid
  BY DEF StartTransfer, Stall, TransferStall
<1>2. TransferInFlight' => ~AnyLoad /\ ~load.valid
  BY <1>1, StateCases DEF Apart
<1>3. TransferInFlight' => ~load'.valid
  BY <1>2, LoadCases DEF PushLoad, LoadDone
<1>4. CASE ex' = Bubble
  BY <1>3, <1>4, BubbleIdle DEF Apart, AnyLoad
<1>5. CASE ex' = ex
  BY <1>2, <1>3, <1>5 DEF Apart, AnyLoad, AnyStore
<1>6. CASE ex' = b /\ Admissible(b)
  <2>1. /\ LoadsOf(b) = {} \/ StoresOf(b) = {}
        /\ LoadsOf(b) # {} => ~TransferInFlight'
    BY <1>6 DEF Admissible, SafeOrder
  <2> QED
    BY <1>3, <1>6, <2>1 DEF Apart, AnyLoad, AnyStore
<1> QED
  BY <1>4, <1>5, <1>6 DEF Execute

\* A queue slot keeps its owed store while both move forward together.
LEMMA MatchedStep ==
  ASSUME OrderInv, SafeOrder, NEW e \in Input, StateMachine(e), StoreFifo, Observe(e)
  PROVE  Matched'
<1> USE DEF OrderInv, MemoryInv
<1> DEFINE older == OldestCommitted(e)
           m == Len(fifo)
           x == ex.st[LastOf(StoresOf(ex))].req
           bus == state = "STORE_B" /\ e.b
<1>1. /\ m \in Nat /\ Len(owed) \in Nat /\ Len(owed) = m + OnBus /\ OnBus \in 0 .. 1
      /\ state \in StoreStates <=> OnBus = 1
      /\ state' \in StoreStates <=> OnBus' = 1
  BY LenProperties DEF Counted, TypeOK, OnBus
<1>2. PushStore => Len(fifo) < StoreDepth /\ FiredStore = x
  BY StoreEnters, OneSlot DEF PushStore
<1>3. /\ Pop /\ PushStore => Len(fifo') = m
      /\ Pop /\ ~PushStore => Len(fifo') = m - 1
      /\ ~Pop /\ PushStore => Len(fifo') = m + 1
      /\ ~Pop /\ ~PushStore => Len(fifo') = m
      /\ Pop => \A j \in 1 .. m - 1 : fifo'[j] = fifo[j + 1]
      /\ ~Pop => \A j \in 1 .. m : fifo'[j] = fifo[j]
      /\ PushStore => fifo'[Len(fifo')] = x
  BY <1>2, FifoStep
<1>4. /\ bus => /\ Len(older) = Len(owed) - 1
                /\ \A j \in 1 .. Len(older) : older[j] = owed[j + 1]
      /\ ~bus => older = owed
  BY Committed
<1>5. /\ PushStore => /\ owed'[Len(older) + 1] = x
                      /\ \A j \in 1 .. Len(older) : owed'[j] = older[j]
      /\ ~PushStore => owed' = older
  BY <1>2, Owed
<1>6. /\ Pop => state = "IDLE" /\ ~bus /\ OnBus = 0 /\ OnBus' = 1 /\ cap' = fifo[1]
      /\ bus => ~Pop /\ OnBus = 1 /\ OnBus' = 0
      /\ ~Pop /\ ~bus => OnBus' = OnBus /\ (OnBus = 1 => cap' = cap)
  BY BusStep
<1>7. /\ OnBus = 1 => owed[1] = cap
      /\ \A j \in 1 .. m : owed[j + OnBus] = fifo[j]
  BY <1>1 DEF Matched
<1>8. \A j \in 1 .. Len(older) : owed'[j] = older[j]
  BY <1>5
<1>9. Pop => m > 0
  BY <1>1, PopHasEntry, EmptySeq DEF TypeOK
<1> HIDE DEF older, m, x, bus
<1>10. CASE Pop
  <2>1. older = owed /\ Len(owed) = m
    BY <1>1, <1>4, <1>6, <1>10
  <2>2. owed'[1] = cap'
    BY <1>1, <1>6, <1>7, <1>8, <1>9, <1>10, <2>1
  <2>3. \A j \in 1 .. m - 1 : owed'[j + 1] = fifo'[j]
    BY <1>1, <1>3, <1>6, <1>7, <1>8, <1>10, <2>1
  <2>4. PushStore => owed'[m + 1] = fifo'[m] /\ Len(fifo') = m
    BY <1>3, <1>5, <1>10, <2>1
  <2>5. ~PushStore => Len(fifo') = m - 1
    BY <1>3, <1>10
  <2>6. ASSUME NEW j \in 1 .. Len(fifo')
        PROVE  owed'[j + OnBus'] = fifo'[j]
    <3>1. CASE j \in 1 .. m - 1
      BY <1>6, <1>10, <2>3, <3>1
    <3>2. CASE j \notin 1 .. m - 1
      <4>1. PushStore /\ j = m
        BY <1>1, <2>4, <2>5, <3>2
      <4> QED
        BY <1>6, <1>10, <2>4, <4>1
    <3> QED
      BY <3>1, <3>2
  <2> QED
    BY <1>1, <2>2, <2>6 DEF Matched
<1>11. CASE bus
  <2>1. Len(older) = m /\ OnBus' = 0 /\ ~Pop /\ OnBus = 1
    BY <1>1, <1>4, <1>6, <1>11
  <2>2. \A j \in 1 .. m : owed'[j] = fifo'[j]
    BY <1>1, <1>3, <1>4, <1>7, <1>8, <1>11, <2>1
  <2>3. PushStore => owed'[m + 1] = fifo'[m + 1] /\ Len(fifo') = m + 1
    BY <1>3, <1>5, <2>1
  <2>4. ~PushStore => Len(fifo') = m
    BY <1>3, <2>1
  <2>5. ASSUME NEW j \in 1 .. Len(fifo')
        PROVE  owed'[j + OnBus'] = fifo'[j]
    <3>1. CASE j \in 1 .. m
      BY <2>1, <2>2, <3>1
    <3>2. CASE j \notin 1 .. m
      <4>1. PushStore /\ j = m + 1
        BY <1>1, <2>3, <2>4, <3>2
      <4> QED
        BY <2>1, <2>3, <4>1
    <3> QED
      BY <3>1, <3>2
  <2> QED
    BY <1>1, <2>1, <2>5 DEF Matched
<1>12. CASE ~Pop /\ ~bus
  <2>1. older = owed /\ OnBus' = OnBus /\ (OnBus = 1 => cap' = cap)
    BY <1>4, <1>6, <1>12
  <2>2. OnBus = 1 => owed'[1] = cap'
    BY <1>1, <1>7, <1>8, <2>1
  <2>3. \A j \in 1 .. m : owed'[j + OnBus] = fifo'[j]
    <3> TAKE j \in 1 .. m
    <3>1. j + OnBus \in 1 .. Len(older)
      BY <1>1, <2>1
    <3>2. owed'[j + OnBus] = owed[j + OnBus]
      BY <1>8, <2>1, <3>1
    <3> QED
      BY <1>3, <1>7, <1>12, <3>2
  <2>4. PushStore => owed'[m + 1 + OnBus] = fifo'[m + 1] /\ Len(fifo') = m + 1
    BY <1>1, <1>3, <1>5, <1>12, <2>1
  <2>5. ~PushStore => Len(fifo') = m
    BY <1>3, <1>12
  <2>6. ASSUME NEW j \in 1 .. Len(fifo')
        PROVE  owed'[j + OnBus'] = fifo'[j]
    <3>1. CASE j \in 1 .. m
      BY <2>1, <2>3, <3>1
    <3>2. CASE j \notin 1 .. m
      <4>1. PushStore /\ j = m + 1
        BY <1>1, <2>4, <2>5, <3>2
      <4> QED
        BY <2>1, <2>4, <4>1
    <3> QED
      BY <3>1, <3>2
  <2> QED
    BY <1>1, <2>1, <2>2, <2>6 DEF Matched
<1> QED
  BY <1>10, <1>11, <1>12

\* What handshakes on the read channels mean for the read in progress.
LEMMA ReadCases ==
  ASSUME OrderInv, NEW e \in Input, Offered(e)
  PROVE  /\ ArFire(e) => /\ reads = <<>>
                         /\ \/ load.valid /\ ~load.acc /\ ArAddr = load.addr
                                         /\ state # "MATRIX_READ_AR"
                            \/ ~load.valid /\ state = "MATRIX_READ_AR" /\ ArAddr = Tile
         /\ RFire(e) => \/ /\ load.valid /\ load.acc /\ LoadDone(e)
                           /\ reads = <<load.addr>>
                        \/ /\ ~load.valid /\ state = "MATRIX_READ_R"
                           /\ reads = <<Tile>>
         /\ LoadDone(e) => RFire(e)
         /\ ~(ArFire(e) /\ RFire(e))
<1> USE DEF OrderInv, MemoryInv
<1>1. load.valid => state \notin {"MATRIX_READ_AR", "MATRIX_READ_R"}
  BY DEF Apart, TransferInFlight, MatrixReadStates
<1>2. RFire(e) => reads # <<>>
  BY DEF RFire, Offered, Offers, Input
<1>3. LoadDone(e) => RFire(e)
  BY DEF LoadDone, RFire, RReady
<1>4. load.valid \in BOOLEAN /\ load.acc \in BOOLEAN
  BY DEF TypeOK
<1>5. CASE load.valid /\ load.acc
  <2>1. reads = <<load.addr>>
    BY <1>5 DEF Asked
  <2> QED
    BY <1>1, <1>3, <1>5, <2>1 DEF ArFire, ArValid, RFire, LoadDone
<1>6. CASE load.valid /\ ~load.acc
  <2>1. reads = <<>>
    BY <1>1, <1>6 DEF Asked
  <2> QED
    BY <1>1, <1>2, <1>3, <1>6, <2>1 DEF ArAddr
<1>7. CASE ~load.valid
  <2>1. reads = IF state = "MATRIX_READ_R" THEN <<Tile>> ELSE <<>>
    BY <1>7 DEF Asked
  <2> QED
    BY <1>2, <1>3, <1>7, <2>1 DEF ArFire, ArValid, ArAddr, RFire, RReady, LoadDone
<1> QED
  BY <1>4, <1>5, <1>6, <1>7

LEMMA AskedStep ==
  ASSUME OrderInv, SafeOrder, NEW e \in Input, Offered(e), LoadRegister(e),
         StateMachine(e), Slave(e), Apart'
  PROVE  Asked'
<1> USE DEF OrderInv, MemoryInv
<1>1. load'.valid => state' # "MATRIX_READ_R"
  BY DEF Apart, TransferInFlight, MatrixReadStates
<1>2. CASE ArFire(e)
  <2>1. reads = <<>> /\ ~RFire(e) /\ ~LoadDone(e)
    BY <1>2, ReadCases
  <2>2. reads' = <<>> \o <<ArAddr>>
    BY <1>2, <2>1 DEF Slave, Queue
  <2>3. reads' = <<ArAddr>>
    BY <2>2
  <2>4. CASE load.valid
    <3>1. ~PushLoad
      BY <2>4, LoadFires
    <3>2. load'.valid /\ load'.acc /\ load'.addr = load.addr
      BY <1>2, <2>1, <2>4, <3>1, LoadCases
    <3> QED
      BY <1>2, <2>3, <2>4, <3>2, ReadCases DEF Asked
  <2>5. CASE ~load.valid
    <3>1. state = "MATRIX_READ_AR" /\ ArAddr = Tile
      BY <1>2, <2>5, ReadCases
    <3>2. state' = "MATRIX_READ_R"
      BY <1>2, <3>1, StateCases
    <3> QED
      BY <1>1, <2>3, <3>1, <3>2 DEF Asked
  <2> QED
    BY <2>4, <2>5
<1>3. CASE RFire(e)
  <2>1. ~ArFire(e) /\ \E a : reads = <<a>>
    BY <1>3, ReadCases
  <2>2. reads' = Tail(reads) \o <<>>
    BY <1>3, <2>1 DEF Slave, Queue
  <2>3. reads' = <<>>
    BY <2>1, <2>2
  <2>4. CASE load.valid
    <3>1. LoadDone(e) /\ state # "MATRIX_READ_AR"
      BY <1>3, <2>4, ReadCases DEF Apart, TransferInFlight, MatrixReadStates
    <3>2. load' = NoLoad
      BY <3>1, LoadCases
    <3>3. state' # "MATRIX_READ_R"
      BY <1>3, <3>1, StateCases
    <3> QED
      BY <2>3, <3>2, <3>3 DEF Asked, NoLoad
  <2>5. CASE ~load.valid
    <3>0. ~LoadDone(e)
      BY <2>5 DEF LoadDone
    <3>1. state = "MATRIX_READ_R" /\ ~LoadDone(e)
      BY <1>3, <2>5, <3>0, ReadCases
    <3>2. state' = "MATRIX_READ_DRAIN"
      BY <1>3, <3>1, StateCases
    <3>3. ~load'.acc \/ ~load'.valid
      BY <2>1, <2>5, <3>1, LoadCases
    <3> QED
      BY <2>3, <3>2, <3>3 DEF Asked
  <2> QED
    BY <2>4, <2>5
<1>4. CASE ~ArFire(e) /\ ~RFire(e)
  <2>1. reads' = reads \o <<>>
    BY <1>4 DEF Slave, Queue
  <2>2. reads' = reads
    BY <2>1, NotPushed DEF TypeOK
  <2>3. ~LoadDone(e)
    BY <1>4, ReadCases
  <2>4. load'.valid /\ load'.acc <=> load.valid /\ load.acc
    BY <1>4, <2>3, LoadCases, LoadFires DEF TypeOK
  <2>5. load.valid /\ load.acc => load'.addr = load.addr
    BY <2>3, LoadCases, LoadFires
  <2>6. state' = "MATRIX_READ_R" <=> state = "MATRIX_READ_R"
    BY <1>4, StateCases
  <2> QED
    BY <2>2, <2>4, <2>5, <2>6 DEF Asked
<1> QED
  BY <1>2, <1>3, <1>4

\* Until a load is answered, only stores older than it can take effect.
LEMMA ReturnableStep ==
  ASSUME OrderInv, SafeOrder, NEW e \in Input, LoadRegister(e), Slave(e), Observe(e)
  PROVE  Returnable'
<1> USE DEF OrderInv, MemoryInv
<1> DEFINE older == OldestCommitted(e)
           bus == state = "STORE_B" /\ e.b
<1>1. /\ older \in Seq(Stores)
      /\ bus => /\ Len(older) = Len(owed) - 1
                /\ \A j \in 1 .. Len(older) : older[j] = owed[j + 1]
                /\ Len(owed) >= 1
      /\ ~bus => older = owed
  <2>1. bus => owed # <<>> /\ owed \in Seq(Stores)
    BY Committed DEF Counted
  <2>2. bus => Len(owed) >= 1
    BY <2>1, Popped
  <2> QED
    BY <2>2, Committed
<1>2. ~PushStore => owed' = older
  BY Owed
<1>3. /\ Len(older) \in Nat /\ Len(owed) \in Nat
  BY <1>1, LenProperties DEF Counted
<1>4. CASE PushLoad
  <2> DEFINE a == FiredLoad.addr
  <2>1. Fired /\ AnyLoad /\ load'.valid /\ load'.addr = a
    BY <1>4, LoadFires, LoadCases
  <2>2. owed' = older
    BY <1>2, <2>1 DEF Apart, PushStore
  <2>3. loading' = {memory'[a]}
                     \cup {older[k].val : k \in {j \in 1 .. Len(older) : older[j].addr = a}}
    <3>1. ~LoadDone(e)
      BY <1>4, LoadCases
    <3>2. loading' = PossibleValues(e, FiredLoad.addr)
      BY <2>1, <3>1 DEF Observe
    <3> QED
      BY <3>2, Zenon DEF PossibleValues
  <2> HIDE DEF older, a
  <2> QED
    BY <2>1, <2>2, <2>3 DEF Returnable
<1>5. CASE LoadDone(e)
  <2>1. load' = NoLoad /\ ~(Fired /\ AnyLoad)
    BY <1>5, LoadFires, LoadCases
  <2>2. loading' = {}
    BY <1>5, <2>1 DEF Observe
  <2> QED
    BY <2>1, <2>2 DEF Returnable, NoLoad
<1>6. CASE ~PushLoad /\ ~LoadDone(e)
  <2>1. load'.valid = load.valid /\ load'.addr = load.addr
    BY <1>6, LoadCases
  <2>2. loading' = loading
    BY <1>6, LoadFires DEF Observe
  <2>3. CASE load.valid
    <3>1. owed' = older
      BY <1>2, <2>3 DEF PushStore, Stall, StoreBehindLoad
    <3>2. bus => owed[1] = cap
      BY DEF Matched, StoreStates
    <3>3. bus => memory' = [memory EXCEPT ![cap.addr] = cap.val]
      BY DEF Slave
    <3>4. ~bus => memory' = memory
      BY DEF Slave
    <3>5. /\ memory[load.addr] \in loading
          /\ \A k \in 1 .. Len(owed) : owed[k].addr = load.addr => owed[k].val \in loading
      BY <2>3 DEF Returnable
    <3>6. memory \in [Addrs -> Vals] /\ load.addr \in Addrs
      BY <2>3 DEF TypeOK, InUse
    <3> HIDE DEF older, bus
    <3>7. CASE bus
      <4>1. memory'[load.addr] \in loading
        <5>1. CASE cap.addr = load.addr
          <6>1. owed[1].val \in loading
            BY <1>1, <1>3, <3>2, <3>5, <3>7, <5>1
          <6> QED
            BY <3>2, <3>3, <3>6, <3>7, <5>1, <6>1
        <5>2. CASE cap.addr # load.addr
          BY <3>3, <3>5, <3>6, <3>7, <5>2
        <5> QED
          BY <5>1, <5>2
      <4>2. ASSUME NEW k \in 1 .. Len(older), older[k].addr = load.addr
            PROVE  older[k].val \in loading
        <5>1. k + 1 \in 1 .. Len(owed) /\ older[k] = owed[k + 1]
          BY <1>1, <1>3, <3>7
        <5> QED
          BY <3>5, <4>2, <5>1
      <4> QED
        BY <2>1, <2>2, <2>3, <3>1, <4>1, <4>2 DEF Returnable
    <3>8. CASE ~bus
      BY <1>1, <2>1, <2>2, <2>3, <3>1, <3>4, <3>5, <3>8 DEF Returnable
    <3> QED
      BY <3>7, <3>8
  <2>4. CASE ~load.valid
    BY <2>1, <2>2, <2>4 DEF Returnable
  <2> QED
    BY <2>3, <2>4
<1> QED
  BY <1>4, <1>5, <1>6

LEMMA OrderInvInitially == HInit => OrderInv
<1> SUFFICES ASSUME HInit PROVE OrderInv
  OBVIOUS
<1>1. MemoryInv
  BY MemoryInvInitially
<1> USE DEF HInit, Init
<1>2. OnItsWay /\ Asked /\ Returnable
  BY DEF OnItsWay, Asked, Returnable, NoLoad
<1>3. Matched
  <2>1. Len(fifo) = 0
    BY EmptySeq
  <2> QED
    BY <2>1 DEF Matched, StoreStates
<1>4. Apart
  BY BubbleIdle DEF Apart, AnyLoad, TransferInFlight, MatrixReadStates, MatrixWriteStates
<1> QED
  BY <1>1, <1>2, <1>3, <1>4 DEF OrderInv

LEMMA OrderInvInductive ==
  ASSUME SafeOrder
  PROVE  OrderInv /\ [HNext]_hvars => OrderInv'
<1> SUFFICES ASSUME OrderInv, [HNext]_hvars PROVE OrderInv'
  OBVIOUS
<1>1. MemoryInv'
  BY MemoryInvInductive DEF OrderInv
<1>2. ASSUME NEW e \in Input, NEW b \in Bundles \cup {Bubble}, Cycle(e, b), Observe(e)
      PROVE  OnItsWay' /\ Matched' /\ Apart' /\ Asked' /\ Returnable'
  <2> USE <1>2 DEF Cycle
  <2>1. OnItsWay'
    BY OnItsWayStep
  <2>2. Matched'
    BY MatchedStep
  <2>3. Apart'
    BY ApartStep
  <2>4. Asked'
    BY <2>3, AskedStep
  <2>5. Returnable'
    BY ReturnableStep
  <2> QED
    BY <2>1, <2>2, <2>3, <2>4, <2>5
<1>3. CASE UNCHANGED hvars
  <2> USE <1>3 DEF OrderInv, hvars, histVars, vars, engineVars, slaveVars
  <2>1. OnItsWay' /\ Returnable'
    BY DEF OnItsWay, Returnable
  <2>2. Matched'
    BY DEF Matched, OnBus
  <2>3. Apart'
    BY DEF Apart, TransferInFlight, AnyLoad, AnyStore
  <2>4. Asked'
    BY DEF Asked
  <2> QED
    BY <1>1, <2>1, <2>2, <2>3, <2>4
<1> QED
  BY <1>1, <1>2, <1>3 DEF HNext, OrderInv

----------------------------------------------------------------------------
(* Theorems for every program in the safe order *)

\* The value of a load is on its way in the load register, or in the cycle
\* after its answer, when its entry in the completion queue counts down.
LEMMA Unwritten ==
  ASSUME OrderInv, NEW d \in unwritten
  PROVE  WaitBlocked(d)
<1> USE DEF OrderInv, MemoryInv
<1>1. CASE load.valid /\ load.dest = d
  BY <1>1 DEF WaitBlocked
<1>2. CASE ~(load.valid /\ load.dest = d)
  <2>1. d = wbLoad /\ d \in Dests
    BY <1>2 DEF OnItsWay
  <2>2. track # <<>> /\ track[Len(track)] = [dest |-> d, count |-> TrackCycles]
    BY <2>1, MemoryAssumption DEF JustCompleted
  <2>3. Len(track) \in 1 .. Len(track)
    BY <2>2, Popped DEF TypeOK
  <2> QED
    BY <2>2, <2>3 DEF WaitBlocked, TrackCycles
<1> QED
  BY <1>1, <1>2

\* A WAIT_FOR_LOAD that leaves EX finds the value of every earlier load to its
\* register written, although the engine only compares its own registers.
THEOREM BarrierMeansWritten ==
  ASSUME SafeOrder
  PROVE  HSpec => []WaitMeansWritten
<1>1. HInit => OrderInv
  BY OrderInvInitially
<1>2. OrderInv /\ [HNext]_hvars => OrderInv'
  BY OrderInvInductive
<1>3. OrderInv => WaitMeansWritten
  <2> SUFFICES ASSUME OrderInv, ~Stall, NEW i \in WaitsOf(ex),
                      ex.ld[i].dest \in unwritten
               PROVE  FALSE
    BY DEF WaitMeansWritten
  <2> QED
    BY Unwritten DEF Stall
<1> QED
  BY <1>1, <1>2, <1>3, PTL DEF HSpec

\* Every read that the slave still has to answer was asked for by the load in
\* the register or by the transfer in progress: no beat goes astray.
THEOREM ReadsHaveOwners ==
  ASSUME SafeOrder
  PROVE  HSpec => []NoOrphanReads
<1>1. HInit => OrderInv
  BY OrderInvInitially
<1>2. OrderInv /\ [HNext]_hvars => OrderInv'
  BY OrderInvInductive
<1>3. OrderInv => NoOrphanReads
  BY DEF OrderInv, Asked, NoOrphanReads
<1> QED
  BY <1>1, <1>2, <1>3, PTL DEF HSpec

----------------------------------------------------------------------------
(* Scratchpad copies *)

\* A copy that leaves EX is executed or lost to the oldest store owed, which
\* begins in that very cycle: for every program in the safe order, copies right
\* behind stores included.
THEOREM CopiesStartOrYield ==
  ASSUME SafeOrder
  PROVE  HSpec => CopyStarts
<1>1. HInit => OrderInv
  BY OrderInvInitially
<1>2. OrderInv /\ [HNext]_hvars => OrderInv'
  BY OrderInvInductive
<1>3. OrderInv /\ [HNext]_hvars
        => [AnyCopy /\ ~Stall =>
              \/ state' = "SCOPY"
              \/ state' = "STORE_AW_W" /\ owed # <<>> /\ cap' = owed[1]]_hvars
  <2> SUFFICES ASSUME OrderInv, HNext, AnyCopy, ~Stall
               PROVE  \/ state' = "SCOPY"
                      \/ state' = "STORE_AW_W" /\ owed # <<>> /\ cap' = owed[1]
    OBVIOUS
  <2>1. state = "IDLE"
    BY DEF Stall
  <2>2. PICK e \in Input : StateMachine(e)
    BY DEF HNext, Cycle
  <2>3. CASE StoreBegins
    <3>1. state' = "STORE_AW_W" /\ cap' = fifo[1] /\ popValid
      BY <2>3 DEF StoreBegins, Pop
    <3>2. fifo # <<>> /\ owed # <<>> /\ owed[1] = fifo[1]
      BY <2>1, <3>1 DEF OrderInv, MemoryInv, TypeOK, Counted, Matched, OnBus, StoreStates
    <3> QED
      BY <3>1, <3>2
  <2>4. CASE IdleCycle
    BY <2>1, <2>4 DEF IdleCycle, StartCopy
  <2> QED
    BY <2>1, <2>2, <2>3, <2>4 DEF StateMachine, WriteIssue, StoreAnswered,
                                  TransferCycle, CopyCycle
<1> QED
  BY <1>1, <1>2, <1>3, PTL DEF HSpec, CopyStarts

----------------------------------------------------------------------------
(* The engine implements its contract *)

\* What happens to the load in progress.
LEMMA LoadRefines ==
  ASSUME OrderInv, SafeOrder, NEW e \in Input, Offered(e), LoadRegister(e),
         Slave(e), Observe(e)
  PROVE  \/ /\ loading = {} /\ answer' = NoAnswer
            /\ \E a \in Addrs : loading' = PossibleValues(e, a)
         \/ Contract!AnswerLoad
         \/ Contract!NoLoad
<1> USE DEF OrderInv, MemoryInv
<1>1. CASE PushLoad
  <2>1. ~load.valid /\ ~LoadDone(e) /\ Fired /\ AnyLoad /\ FiredLoad.addr \in Addrs
    BY <1>1, LoadFires, LoadCases
  <2>2. loading = {}
    BY <2>1 DEF Returnable
  <2>3. answer' = NoAnswer
    BY <2>1 DEF Observe
  <2>4. loading' = PossibleValues(e, FiredLoad.addr)
    BY <2>1 DEF Observe
  <2> QED
    BY <2>1, <2>2, <2>3, <2>4
<1>2. CASE LoadDone(e)
  <2>1. load.valid /\ ~(Fired /\ AnyLoad)
    BY <1>2, LoadCases, LoadFires
  <2>2. loading' = {} /\ answer' = ReadValue
    BY <1>2, <2>1 DEF Observe
  <2>3. reads = <<load.addr>>
    BY <1>2, <2>1, ReadCases
  <2>4. ReadValue = memory[load.addr]
    BY <2>1, <2>3, MemoryAssumption DEF ReadValue, InUse
  <2>5. answer' \in loading
    BY <2>1, <2>2, <2>4 DEF Returnable
  <2> QED
    BY <2>2, <2>5 DEF Contract!AnswerLoad
<1>3. CASE ~PushLoad /\ ~LoadDone(e)
  BY <1>3, LoadFires DEF Observe, Contract!NoLoad
<1> QED
  BY <1>1, <1>2, <1>3

\* What happens to the stores: the answered one is the oldest owed.
LEMMA StoresRefine ==
  ASSUME OrderInv, SafeOrder, NEW e \in Input, Slave(e), Observe(e)
  PROVE  /\ state = "STORE_B" /\ e.b =>
              /\ owed # <<>> /\ OldestCommitted(e) = Tail(owed)
              /\ memory' = [memory EXCEPT ![owed[1].addr] = owed[1].val]
         /\ ~(state = "STORE_B" /\ e.b) =>
              OldestCommitted(e) = owed /\ memory' = memory
         /\ \/ owed' = OldestCommitted(e)
            \/ \E s \in [addr : Addrs, val : Vals] :
                 owed' = Append(OldestCommitted(e), s)
<1> USE DEF OrderInv, MemoryInv
<1>1. state = "STORE_B" => owed[1] = cap
  BY DEF Matched, StoreStates
<1>2. AnyStore => FiredStore \in [addr : Addrs, val : Vals]
  BY StoreFired DEF Stores
<1> QED
  BY <1>1, <1>2, Committed DEF Slave, Observe

\* A cycle of the engine is a step of the contract.
LEMMA CycleRefines ==
  ASSUME OrderInv, SafeOrder, NEW e \in Input, NEW b \in Bundles \cup {Bubble},
         Cycle(e, b), Observe(e)
  PROVE  Contract!Next
<1> USE DEF Cycle
<1>1. CASE state = "STORE_B" /\ e.b
  <2>1. /\ owed # <<>> /\ OldestCommitted(e) = Contract!Remaining(TRUE)
        /\ memory' = Contract!Committed(TRUE)
    BY <1>1, StoresRefine DEF Contract!Remaining, Contract!Committed
  <2>2. \A a \in Addrs : PossibleValues(e, a) = Contract!Possible(TRUE, a)
    BY <2>1 DEF PossibleValues, Contract!Possible
  <2>3. Contract!BeginLoad(TRUE) \/ Contract!AnswerLoad \/ Contract!NoLoad
    BY <2>2, LoadRefines DEF Contract!BeginLoad
  <2> QED
    BY <2>1, <2>3, StoresRefine DEF Contract!Next, Contract!Step
<1>2. CASE ~(state = "STORE_B" /\ e.b)
  <2>1. /\ OldestCommitted(e) = Contract!Remaining(FALSE)
        /\ memory' = Contract!Committed(FALSE)
    BY <1>2, StoresRefine DEF Contract!Remaining, Contract!Committed
  <2>2. \A a \in Addrs : PossibleValues(e, a) = Contract!Possible(FALSE, a)
    BY <2>1 DEF PossibleValues, Contract!Possible
  <2>3. Contract!BeginLoad(FALSE) \/ Contract!AnswerLoad \/ Contract!NoLoad
    BY <2>2, LoadRefines DEF Contract!BeginLoad
  <2> QED
    BY <2>1, <2>3, StoresRefine DEF Contract!Next, Contract!Step
<1> QED
  BY <1>1, <1>2

\* For every program in the safe order the engine, the pipeline around it and
\* the slave implement MemoryContract: stores take effect once each and in
\* order, and no load returns a younger or a foreign value.
THEOREM EngineKeepsContract ==
  ASSUME SafeOrder
  PROVE  HSpec => KeepsContract
<1>1. HInit => OrderInv
  BY OrderInvInitially
<1>2. OrderInv /\ [HNext]_hvars => OrderInv'
  BY OrderInvInductive
<1>3. HInit => Contract!Init
  BY DEF HInit, Init, Contract!Init
<1>4. OrderInv /\ [HNext]_hvars => [Contract!Next]_(Contract!vars)
  <2> SUFFICES ASSUME OrderInv, [HNext]_hvars
               PROVE  [Contract!Next]_(Contract!vars)
    OBVIOUS
  <2>1. CASE HNext
    BY <2>1, CycleRefines DEF HNext
  <2>2. CASE UNCHANGED hvars
    BY <2>2 DEF hvars, histVars, vars, slaveVars, Contract!vars
  <2> QED
    BY <2>1, <2>2
<1> QED
  BY <1>1, <1>2, <1>3, <1>4, PTL DEF HSpec, KeepsContract, Contract!Spec
=============================================================================

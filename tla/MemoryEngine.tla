---------------------------- MODULE MemoryEngine ---------------------------
(***************************************************************************)
(* The memory engine of one core (MemoryEngine.scala), the EX bundle it    *)
(* serves and the AXI slave behind it.  One step is one clock cycle.       *)
(*                                                                         *)
(* Of a bundle only the load, store and matrix transfer slots are kept.    *)
(* Addresses are word addresses, a store writes one word and the region    *)
(* of a matrix transfer is the single address Tile, apart from all others. *)
(* CONST slots, address arithmetic and the elements of a beat are left out.*)
(***************************************************************************)
EXTENDS Integers, Sequences

CONSTANTS
  StoreDepth,  \* cfg.storeQueueDepth
  LoadSlots,   \* cfg.nLoadSlots: number of load slots in a bundle
  StoreSlots,  \* cfg.nStoreSlots
  Vlen,        \* cfg.vlen: words of a scratchpad copy
  Dests,       \* scratch addresses that loads write
  Addrs,       \* memory addresses of loads and stores
  Vals,        \* values of stores
  MaxReads,    \* bound: reads the slave accepts before it answers one
  MaxBeats,    \* bound: AXI beats of one matrix transfer
  Bundles,     \* the bundles a program may contain
  Liberties    \* what it may do beyond the safe order, see Admissible

TrackDepth == 4       \* loadTrackDepth
TrackCycles == 3      \* countdown of a completed load
Tile == "tile"        \* the memory of a matrix transfer
NoDest == "nowhere"

LoadOps ==
  {[op |-> "none"], [op |-> "copy"]}
  \cup {[op |-> "wait", dest |-> d] : d \in Dests}
  \cup {[op |-> "load", dest |-> d, addr |-> a] : d \in Dests, a \in Addrs}
Stores == [addr : Addrs, val : Vals]
StoreOps == {[op |-> "none"]} \cup {[op |-> "store", req |-> s] : s \in Stores}
Transfers == [op : {"none", "in", "out"}, beats : 0 .. MaxBeats]

Bundle == [ld : [1 .. LoadSlots -> LoadOps],
           st : [1 .. StoreSlots -> StoreOps],
           mx : Transfers]

Bubble == [ld |-> [i \in 1 .. LoadSlots |-> [op |-> "none"]],
           st |-> [i \in 1 .. StoreSlots |-> [op |-> "none"]],
           mx |-> [op |-> "none", beats |-> 0]]

ASSUME MemoryAssumption ==
  /\ StoreDepth \in Nat \ {0} /\ LoadSlots \in 1 .. 2 /\ StoreSlots \in 1 .. 2
  /\ Vlen \in Nat \ {0} /\ MaxReads \in Nat \ {0} /\ MaxBeats \in Nat \ {0}
  /\ Bundles \subseteq Bundle
  /\ NoDest \notin Dests /\ Tile \notin Addrs /\ Tile \notin Vals
  /\ Liberties \subseteq {"loadWithStore", "loadDuringTransfer"}

NoLoad  == [valid |-> FALSE, acc |-> FALSE, dest |-> NoDest, addr |-> Tile]
NoStore == [addr |-> Tile, val |-> Tile]
NoCopy  == [elem |-> 0, pipe |-> FALSE]

VARIABLES
  ex,        \* the bundle in EX
  load,      \* loadReqValid, loadAddrAccepted, loadReqEntry
  track,     \* the load completion queue, head first
  wbLoad,    \* destination in the load's write-back register (VliwCore)
  fifo,      \* storeReqFifo
  popValid,  \* its pop.valid: the memory behind it is read a cycle ahead
  state,     \* the AXI state machine
  cap,       \* capStoreReq
  accepted,  \* awAccepted, wAccepted: the channels accepted so far
  beats,     \* beats left of a matrix transfer
  bypass,    \* matrixTransferBypassable
  issueSeen, \* matrixIssueSeen
  copy,      \* scopyElemIdx and scopyReadPipeValid
  reads,     \* the slave: accepted reads, oldest first
  memory     \* the slave: contents of the memory

engineVars == <<load, track, wbLoad, fifo, popValid, state, cap, accepted,
                beats, bypass, issueSeen, copy>>
slaveVars  == <<reads, memory>>
vars       == <<ex, engineVars, slaveVars>>

MatrixReadStates  == {"MATRIX_READ_AR", "MATRIX_READ_R", "MATRIX_READ_DRAIN"}
MatrixWriteStates == {"MATRIX_WRITE_GATHER", "MATRIX_WRITE_AW_W", "MATRIX_WRITE_B"}
StoreStates == {"STORE_AW_W", "STORE_B"}
MemStates   == {"IDLE", "SCOPY"} \cup StoreStates
                 \cup MatrixReadStates \cup MatrixWriteStates

\* What the slave and the matrix memories decide in a cycle: which channels
\* handshake, and whether the last element of a beat is moved.
Input == [ar : BOOLEAN, r : BOOLEAN, aw : BOOLEAN, w : BOOLEAN, b : BOOLEAN,
          drained : BOOLEAN]

----------------------------------------------------------------------------
(* Combinational signals *)

\* A cycle of a queue: the head may leave and an element may enter.
Queue(q, pop, push, x) ==
  (IF pop THEN Tail(q) ELSE q) \o (IF push THEN <<x>> ELSE <<>>)

LoadsOf(b)  == {i \in 1 .. LoadSlots : b.ld[i].op = "load"}
WaitsOf(b)  == {i \in 1 .. LoadSlots : b.ld[i].op = "wait"}
CopiesOf(b) == {i \in 1 .. LoadSlots : b.ld[i].op = "copy"}
StoresOf(b) == {i \in 1 .. StoreSlots : b.st[i].op = "store"}

AnyLoad           == LoadsOf(ex) # {}
AnyCopy           == CopiesOf(ex) # {}
AnyStore          == StoresOf(ex) # {}
TransferRequested == ex.mx.op # "none"

TransferInFlight == state \in MatrixReadStates \cup MatrixWriteStates
StorePending     == state \in StoreStates \/ fifo # <<>>

\* Mutant of WaitBlocked: only the load register is compared.
WaitBlockedRegister(d) == load.valid /\ load.dest = d

WaitBlocked(d) ==
  \/ load.valid /\ load.dest = d
  \/ \E j \in 1 .. Len(track) : track[j].count # 0 /\ track[j].dest = d

\* Mutant of StoreQueueStall: the store on the bus is not counted.
StoreQueueStallFifo == Len(fifo) = StoreDepth

StoreQueueStall ==
  \/ Len(fifo) = StoreDepth
  \/ state # "IDLE" /\ Len(fifo) = StoreDepth - 1

StoreBehindLoad == AnyStore /\ load.valid

\* Mutant of TransferStall: a read in flight does not hold a transfer back.
TransferStallStores ==
  TransferRequested /\ (AnyLoad \/ AnyStore \/ StorePending)

TransferStall ==
  TransferRequested /\ (AnyLoad \/ AnyStore \/ load.valid \/ StorePending)

\* Mutant of Stall: a copy does not wait for the state machine.
StallNoCopyWait ==
  \/ AnyLoad /\ load.valid
  \/ \E i \in WaitsOf(ex) : WaitBlocked(ex.ld[i].dest)
  \/ state = "SCOPY"
  \/ StoreBehindLoad
  \/ AnyStore /\ StoreQueueStall
  \/ TransferStall

Stall ==
  \/ AnyLoad /\ load.valid
  \/ \E i \in WaitsOf(ex) : WaitBlocked(ex.ld[i].dest)
  \/ state = "SCOPY"
  \/ AnyCopy /\ state # "IDLE"
  \/ StoreBehindLoad
  \/ AnyStore /\ StoreQueueStall
  \/ TransferStall

\* Of several active slots the last one wins, the others are lost.
LastOf(S) == CHOOSE i \in S : \A j \in S : j <= i

PushLoad  == AnyLoad /\ ~Stall
PushStore == AnyStore /\ ~Stall
StartTransfer ==
  TransferRequested /\ ~issueSeen /\ ~Stall /\ ~TransferInFlight
StartCopy == AnyCopy /\ ~Stall /\ state = "IDLE"

\* A matrix transfer takes over the read address channel.
ArAddr == IF state = "MATRIX_READ_AR" THEN Tile ELSE load.addr
\* Mutant of ArValid: the address is offered until the answer arrives.
ArValidUntilAnswer == load.valid \/ state = "MATRIX_READ_AR"

ArValid == (load.valid /\ ~load.acc) \/ state = "MATRIX_READ_AR"
RReady  == load.valid \/ state = "MATRIX_READ_R"

ArFire(e)   == ArValid /\ e.ar
RFire(e)    == RReady /\ e.r
LoadDone(e) == e.r /\ load.valid

Pop == state = "IDLE" /\ popValid

\* The handshakes the engine is ready for in this cycle; an input that would
\* not be looked at is FALSE.
Offers ==
  [ar |-> ArValid /\ Len(reads) < MaxReads,
   r  |-> RReady /\ reads # <<>>,
   aw |-> state \in {"STORE_AW_W", "MATRIX_WRITE_AW_W"} /\ "aw" \notin accepted,
   w  |-> state \in {"STORE_AW_W", "MATRIX_WRITE_AW_W"} /\ "w" \notin accepted,
   b  |-> state \in {"STORE_B", "MATRIX_WRITE_B"},
   drained |-> state \in {"MATRIX_READ_DRAIN", "MATRIX_WRITE_GATHER"}]

Offered(e) == \A c \in DOMAIN e : e[c] => Offers[c]

----------------------------------------------------------------------------
(* Loads and the store queue.  Registers whose content does not matter are *)
(* reset: those of an empty load register, of cap and of an ended copy.    *)

LoadRegister(e) ==
  load' = CASE PushLoad ->
                 LET l == ex.ld[LastOf(LoadsOf(ex))]
                 IN  [valid |-> TRUE, acc |-> ArFire(e),
                      dest |-> l.dest, addr |-> l.addr]
            [] LoadDone(e) -> NoLoad
            [] OTHER ->
                 [load EXCEPT !.acc = load.valid /\ (load.acc \/ ArFire(e))]

\* Every entry counts down; the head leaves at zero; a finished load enters.
Ticked ==
  [j \in 1 .. Len(track) |->
     [track[j] EXCEPT !.count = IF @ > 0 THEN @ - 1 ELSE @]]

Expired == track # <<>> /\ track[1].count = 0

\* Mutant of Completion: each of four lanes of a vector enters the queue.
CompletionPerLane(e) ==
  /\ track' = Queue(Ticked, Expired, FALSE, NoDest)
                \o (IF LoadDone(e)
                    THEN [k \in 1 .. 4 |-> [dest |-> load.dest, count |-> TrackCycles]]
                    ELSE <<>>)
  /\ wbLoad' = IF LoadDone(e) THEN load.dest ELSE NoDest

Completion(e) ==
  /\ track' = Queue(Ticked, Expired, LoadDone(e),
                    [dest |-> load.dest, count |-> TrackCycles])
  /\ wbLoad' = IF LoadDone(e) THEN load.dest ELSE NoDest

\* Mutant of StoreFifo: pop.valid outlives the last entry.
StoreFifoStaleValid ==
  /\ fifo' = Queue(fifo, Pop, PushStore /\ Len(fifo) < StoreDepth,
                   ex.st[LastOf(StoresOf(ex))].req)
  /\ popValid' = (fifo # <<>>)

\* A push into a full queue is lost: push.ready is not looked at.
StoreFifo ==
  /\ fifo' = Queue(fifo, Pop, PushStore /\ Len(fifo) < StoreDepth,
                   ex.st[LastOf(StoresOf(ex))].req)
  /\ popValid' = IF popValid THEN ~Pop \/ Len(fifo) > 1 ELSE fifo # <<>>

----------------------------------------------------------------------------
(* The AXI state machine *)

\* A waiting store wins over a copy started in the same cycle, and a copy
\* over a transfer.
StoreBegins ==
  /\ Pop
  /\ state' = "STORE_AW_W"
  /\ cap' = fifo[1]
  /\ accepted' = {}

IdleCycle ==
  /\ state = "IDLE" /\ ~popValid
  /\ state' = CASE StartCopy -> "SCOPY"
                [] StartTransfer /\ ~StartCopy /\ ex.mx.beats > 0 ->
                     IF ex.mx.op = "in" THEN "MATRIX_READ_AR"
                                        ELSE "MATRIX_WRITE_GATHER"
                [] OTHER -> "IDLE"
  /\ UNCHANGED <<cap, accepted>>

\* Address and data are accepted in either order or together.
Channels(e) ==
  accepted \cup (IF e.aw THEN {"aw"} ELSE {}) \cup (IF e.w THEN {"w"} ELSE {})

WriteIssue(e, from, to) ==
  /\ state = from
  /\ IF Channels(e) = {"aw", "w"}
     THEN state' = to /\ accepted' = {}
     ELSE state' = from /\ accepted' = Channels(e)
  /\ UNCHANGED cap

StoreAnswered(e) ==
  /\ state = "STORE_B"
  /\ IF e.b THEN state' = "IDLE" /\ cap' = NoStore
            ELSE UNCHANGED <<state, cap>>
  /\ UNCHANGED accepted

TransferCycle(from, done, to) ==
  /\ state = from
  /\ state' = IF done THEN to ELSE from
  /\ UNCHANGED <<cap, accepted>>

LastBeat == beats = 1

\* Mutant of CopyCycle: the end of the copy is missed by one.
CopyCycleLate ==
  /\ state = "SCOPY"
  /\ state' = IF copy.elem > Vlen /\ ~copy.pipe THEN "IDLE" ELSE "SCOPY"
  /\ UNCHANGED <<cap, accepted>>

CopyCycle ==
  /\ state = "SCOPY"
  /\ state' = IF copy.elem = Vlen /\ ~copy.pipe THEN "IDLE" ELSE "SCOPY"
  /\ UNCHANGED <<cap, accepted>>

StateMachine(e) ==
  \/ StoreBegins
  \/ IdleCycle
  \/ WriteIssue(e, "STORE_AW_W", "STORE_B")
  \/ StoreAnswered(e)
  \/ TransferCycle("MATRIX_READ_AR", ArFire(e), "MATRIX_READ_R")
  \/ TransferCycle("MATRIX_READ_R", RFire(e), "MATRIX_READ_DRAIN")
  \/ TransferCycle("MATRIX_READ_DRAIN", e.drained,
                   IF LastBeat THEN "IDLE" ELSE "MATRIX_READ_AR")
  \/ TransferCycle("MATRIX_WRITE_GATHER", e.drained, "MATRIX_WRITE_AW_W")
  \/ WriteIssue(e, "MATRIX_WRITE_AW_W", "MATRIX_WRITE_B")
  \/ TransferCycle("MATRIX_WRITE_B", e.b,
                   IF LastBeat THEN "IDLE" ELSE "MATRIX_WRITE_GATHER")
  \/ CopyCycle

BeatDone(e) == \/ state = "MATRIX_READ_DRAIN" /\ e.drained
               \/ state = "MATRIX_WRITE_B" /\ e.b

Sequencers(e) ==
  /\ beats' = CASE StartTransfer -> ex.mx.beats
                [] BeatDone(e)   -> beats - 1
                [] OTHER         -> beats
  /\ bypass' = IF StartTransfer THEN ex.mx.op = "in" ELSE bypass
  /\ issueSeen' = (TransferRequested /\ (issueSeen \/ StartTransfer))
  /\ copy' = CASE state # "SCOPY"      -> NoCopy
               [] state = "SCOPY" /\ copy.elem < Vlen ->
                    [elem |-> copy.elem + 1, pipe |-> TRUE]
               [] OTHER ->
                    IF copy.pipe THEN [copy EXCEPT !.pipe = FALSE] ELSE NoCopy

----------------------------------------------------------------------------
(* The AXI slave: one beat per read, answered in order; a write takes      *)
(* effect when it is answered.                                             *)

Slave(e) ==
  /\ reads' = Queue(reads, RFire(e), ArFire(e), ArAddr)
  /\ memory' = IF state = "STORE_B" /\ e.b
               THEN [memory EXCEPT ![cap.addr] = cap.val] ELSE memory

----------------------------------------------------------------------------
(* The pipeline around the engine (VliwCore, checked in FetchOrder): a     *)
(* stalled bundle is held, a started transfer consumes its bundle, an      *)
(* outbound transfer keeps EX empty and no matrix bundle enters EX during  *)
(* a transfer.                                                             *)

\* The safe order: what the scheduler guarantees (a transfer is never packed
\* with a load or a store) and two precautions it does not take.
Admissible(b) ==
  /\ b.mx.op # "none" => LoadsOf(b) = {} /\ StoresOf(b) = {} /\ ~TransferInFlight
  /\ "loadWithStore" \notin Liberties => LoadsOf(b) = {} \/ StoresOf(b) = {}
  /\ "loadDuringTransfer" \notin Liberties /\ LoadsOf(b) # {} => ~TransferInFlight'

Execute(b) ==
  IF Stall \/ StartTransfer \/ (TransferInFlight /\ ~bypass)
  THEN /\ b = Bubble
       /\ ex' = IF Stall THEN ex ELSE Bubble
  ELSE /\ Admissible(b)
       /\ ex' = b

Init ==
  /\ ex = Bubble
  /\ load = NoLoad
  /\ track = <<>>
  /\ wbLoad = NoDest
  /\ fifo = <<>>
  /\ popValid = FALSE
  /\ state = "IDLE"
  /\ cap = NoStore
  /\ accepted = {}
  /\ beats = 0
  /\ bypass = FALSE
  /\ issueSeen = FALSE
  /\ copy = NoCopy
  /\ reads = <<>>
  /\ memory \in [Addrs -> Vals]

Cycle(e, b) ==
  /\ Offered(e)
  /\ LoadRegister(e)
  /\ Completion(e)
  /\ StoreFifo
  /\ StateMachine(e)
  /\ Sequencers(e)
  /\ Slave(e)
  /\ Execute(b)

Next == \E e \in Input, b \in Bundles \cup {Bubble} : Cycle(e, b)

Spec == Init /\ [][Next]_vars

TypeOK ==
  /\ ex \in Bundle
  /\ load \in [valid : BOOLEAN, acc : BOOLEAN, dest : Dests \cup {NoDest},
               addr : Addrs \cup {Tile}]
  /\ track \in Seq([dest : Dests, count : 0 .. TrackCycles])
  /\ wbLoad \in Dests \cup {NoDest}
  /\ fifo \in Seq(Stores)
  /\ popValid \in BOOLEAN
  /\ popValid => fifo # <<>>
  /\ state \in MemStates
  /\ cap \in Stores \cup {NoStore}
  /\ accepted \in SUBSET {"aw", "w"}
  /\ beats \in 0 .. MaxBeats
  /\ bypass \in BOOLEAN
  /\ issueSeen \in BOOLEAN
  /\ copy \in [elem : 0 .. Vlen, pipe : BOOLEAN]
  /\ reads \in Seq(Addrs \cup {Tile})
  /\ memory \in [Addrs -> Vals]
=============================================================================

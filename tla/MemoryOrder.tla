---------------------------- MODULE MemoryOrder ----------------------------
(***************************************************************************)
(* The memory engine against its contract: history variables follow the    *)
(* bundles as they fire in EX, independently of the engine's queues, and   *)
(* map the engine to MemoryContract.                                       *)
(***************************************************************************)
EXTENDS MemoryEngine

VARIABLES
  owed,       \* stores of fired bundles that the memory has not taken yet
  loading,    \* values the load that fired last may return, {} without a load
  answer,     \* value returned to it in the last cycle
  unwritten   \* destinations of fired loads not yet written to the scratch

histVars == <<owed, loading, answer, unwritten>>
hvars    == <<vars, histVars>>

NoAnswer == "nothing"

Contract == INSTANCE MemoryContract WITH None <- NoAnswer

----------------------------------------------------------------------------
(* A bundle fires in its last cycle in EX.  Of several active slots the    *)
(* first one counts, as the comments at the two push loops say.            *)

FirstOf(S) == CHOOSE i \in S : \A j \in S : i <= j

Fired == ~Stall /\ ex # Bubble

FiredLoad  == ex.ld[FirstOf(LoadsOf(ex))]
FiredStore == ex.st[FirstOf(StoresOf(ex))].req

OldestCommitted(e) == IF state = "STORE_B" /\ e.b /\ owed # <<>>
                      THEN Tail(owed) ELSE owed

\* What address a may hold once some of the stores fired so far are done.
PossibleValues(e, a) ==
  LET older == OldestCommitted(e)
  IN  {memory'[a]}
        \cup {older[k].val : k \in {j \in 1 .. Len(older) : older[j].addr = a}}

\* What the slave returns for the oldest read.
ReadValue == IF reads[1] = Tile THEN Tile ELSE memory[reads[1]]

Observe(e) ==
  /\ owed' = IF Fired /\ AnyStore THEN Append(OldestCommitted(e), FiredStore)
                                  ELSE OldestCommitted(e)
  /\ loading' = CASE Fired /\ AnyLoad -> PossibleValues(e, FiredLoad.addr)
                  [] LoadDone(e)      -> {}
                  [] OTHER            -> loading
  /\ answer' = IF LoadDone(e) THEN ReadValue ELSE NoAnswer
  /\ unwritten' = (unwritten \ {wbLoad})
                    \cup (IF Fired /\ AnyLoad THEN {FiredLoad.dest} ELSE {})

HInit ==
  Init /\ owed = <<>> /\ loading = {} /\ answer = NoAnswer /\ unwritten = {}

HNext == \E e \in Input, b \in Bundles \cup {Bubble} : Cycle(e, b) /\ Observe(e)

HSpec == HInit /\ [][HNext]_hvars

\* The slave keeps answering: infinitely often a cycle passes in which every
\* channel that may handshake does, and a beat's last element is moved.
Progress ==
  \E b \in Bundles \cup {Bubble} : Cycle(Offers, b) /\ Observe(Offers)

LiveSpec == HSpec /\ WF_hvars(Progress)

----------------------------------------------------------------------------
(* The order in which the engine keeps its contract *)

\* No bundle holds two loads, or two stores.
OneOfEach ==
  \A b \in Bundles : /\ \A i, j \in LoadsOf(b) : i = j
                     /\ \A i, j \in StoresOf(b) : i = j

SafeOrder ==
  OneOfEach /\ Liberties = {}

----------------------------------------------------------------------------
(* Properties *)

\* The engine implements its contract: stores take effect exactly once and in
\* order, and a load never returns a younger store's value, another address's
\* beat, or an answer that was not asked for.
KeepsContract == Contract!Spec

\* A WAIT_FOR_LOAD leaves EX only when the value of every earlier load to its
\* register is in the scratch: the bundle behind it reads that value.
WaitMeansWritten ==
  ~Stall => \A i \in WaitsOf(ex) : ex.ld[i].dest \notin unwritten

\* Stores in the queue and the one on the bus never exceed the queue's depth.
OutstandingBounded == Len(owed) <= StoreDepth

\* A finished load finds a free entry in the completion queue; the code writes
\* the tail entry without looking.
CompletionsFit == Len(track) <= TrackDepth

\* No read is left over: every beat that arrives has a load or a transfer
\* that asked for it.
NoOrphanReads ==
  reads # <<>> => \/ load.valid /\ reads = <<load.addr>>
                  \/ state = "MATRIX_READ_R" /\ reads = <<Tile>>

\* A scratchpad copy that leaves EX is executed, or it is lost to one store:
\* the oldest that was fired before it and not answered, which goes to the bus
\* in that very cycle.  So a copy behind answered stores is never lost, nor
\* one that meets a store already on the bus, a transfer or another copy.
CopyStarts ==
  [][AnyCopy /\ ~Stall =>
       \/ state' = "SCOPY"
       \/ state' = "STORE_AW_W" /\ owed # <<>> /\ cap' = owed[1]]_hvars

\* However slow the slave is, no bundle waits in EX for ever.
BundlesNeverHang == []<>~Stall
=============================================================================

---------------------------- MODULE OperandPath ----------------------------
(***************************************************************************)
(* How a bundle gets its operands: the banked scratch memory               *)
(* (BankedScratchMemory.scala), the operand part of the EX stage and the   *)
(* write-back registers (VliwCore.scala, WritebackController.scala).  One  *)
(* step is one clock cycle: the bundle in decode presents its addresses,   *)
(* the bundle in EX uses what was read for it a cycle ago, and the results *)
(* of the bundle before that are written.                                  *)
(*                                                                         *)
(* A value is the number of the bundle that wrote it, so that an operand   *)
(* tells which write it saw.  A bundle does one thing: scalar work, a      *)
(* vector operation, a vector store, a load, a WAIT_FOR_LOAD or a copy of  *)
(* a vector to the matrix memories (SCOPY_V2M); scalar readers beside a    *)
(* vector operation are the subject of ScheduleContract.                   *)
(***************************************************************************)
EXTENDS Integers, SequencesExt

CONSTANTS
  NRegisters,  \* cfg.scratchSize
  NBanks,      \* cfg.scratchBanks
  Lanes,       \* cfg.vlen
  MaxBundles,  \* bound: number of bundles a program issues
  Code,        \* the bundles a program is made of
  Liberties    \* what a program may do though the hardware does not provide for it

Registers == 0 .. NRegisters - 1
Ops == {"alu", "const", "flow", "valu", "vstore", "load", "wait", "copy"}

ASSUME OperandAssumption ==
  /\ {NRegisters, NBanks, Lanes} \subseteq Nat \ {0}
  /\ Lanes <= NBanks /\ NRegisters % NBanks = 0
  /\ MaxBundles \in Nat
  /\ Code \subseteq [op : Ops, reads : Seq(Registers), dest : Registers]
  /\ Liberties \subseteq {"loadBank"}

\* The operands of each operation: two vectors, an address and a vector, a
\* vector, none; scalar work reads what it likes.
ASSUME CodeAssumption ==
  \A b \in Code :
    /\ b.op \in {"valu", "vstore"} => Len(b.reads) = 2
    /\ b.op = "copy" => Len(b.reads) = 1
    /\ b.op \in {"const", "wait"} => b.reads = << >>

VARIABLES
  mem,       \* what the banks hold
  decode,    \* the bundle in decode, or Bubble
  ex,        \* exSlotsReg: the bundle in EX, or Bubble
  prev,      \* prevScalarReadAddr etc. and the data read for them
  held,      \* heldScalarReadData, heldValuReadData
  heldValid, \* heldReadDataValid
  wasHeld,   \* prevExStageHold
  wb,        \* the write-back registers: the writes of this cycle
  flight,    \* loadReqEntry while loadReqValid, or Nothing
  track,     \* loadTrackCountdown of the register a finished load wrote
  copy,      \* the state SCOPY_V2M: lanes, scopyElemIdx, the lane read last
  count,     \* number of bundles issued
  meant,     \* what each register holds for the next bundle of the program
  owed       \* registers loaded and not waited for since, in program order

vars == <<mem, decode, ex, prev, held, heldValid, wasHeld, wb, flight, track,
          copy, count, meant, owed>>

Bubble  == [op |-> "none", reads |-> << >>, dest |-> 0, id |-> 0, wants |-> << >>]
Nothing == [dest |-> -1, val |-> -1]
NoCopy  == [lanes |-> << >>, wants |-> << >>, next |-> 0, read |-> << >>]
Lost    == -1    \* the output of a port that was not read

(***************************************************************************)
(* Addresses and ports                                                     *)
(***************************************************************************)
BankOf(r) == r % NBanks

LanesFrom(r) == [l \in 1 .. Lanes |-> (r + l - 1) % NRegisters]

On(port, registers) == [i \in DOMAIN registers |-> [addr |-> registers[i], port |-> port]]

\* The first scalar reader of a bank reads through port A, the second through B.
ScalarReads(rs) ==
  [i \in DOMAIN rs |->
     [addr |-> rs[i],
      port |-> IF \E j \in 1 .. i - 1 : BankOf(rs[j]) = BankOf(rs[i]) THEN "B" ELSE "A"]]

\* The lanes of vsrc1 go to port A; those of vsrc2 and of a stored vector to B.
Presented(b) ==
  CASE b.op = "valu"   -> On("A", LanesFrom(b.reads[1])) \o On("B", LanesFrom(b.reads[2]))
    [] b.op = "vstore" -> On("A", <<b.reads[1]>>) \o On("B", LanesFrom(b.reads[2]))
    [] b.op = "copy"   -> << >>
    [] OTHER           -> ScalarReads(b.reads)

\* The registers a bundle uses, through the ports or lane by lane.
Sources(b) ==
  IF b.op = "copy" THEN LanesFrom(b.reads[1])
  ELSE [i \in DOMAIN Presented(b) |-> Presented(b)[i].addr]

Dests(b) ==
  CASE b.op = "valu" -> ToSet(LanesFrom(b.dest))
    [] b.op \in {"alu", "const", "flow", "load"} -> {b.dest}
    [] OTHER -> {}

(***************************************************************************)
(* Write-back: the last of the ports that write a bank gets it             *)
(***************************************************************************)
WritePort == [alu |-> 1, valu |-> 2, load |-> 3, const |-> 4, flow |-> 5]

Winner(writes) == CHOOSE w \in writes : \A v \in writes : v.port <= w.port
Writing(bank) == {w \in wb : BankOf(w.addr) = bank}

Written ==
  [r \in Registers |->
     LET ws == Writing(BankOf(r))
     IN  IF ws # {} /\ Winner(ws).addr = r THEN Winner(ws).val ELSE mem[r]]

(***************************************************************************)
(* Operand data.  A write of the cycle in which an address is presented    *)
(* reaches the reader through the gap-2 register, the write of the next    *)
(* cycle through the gap-1 bypass, which has priority.                     *)
(***************************************************************************)
WritesTo(r) == {w \in wb : w.addr = r}
PortTaken(o) == o.port = "B" /\ Writing(BankOf(o.addr)) # {}

\* Mutant of Read: without the gap-2 registers.
ReadNoGapTwo(o) == IF PortTaken(o) THEN Lost ELSE mem[o.addr]

Read(o) ==
  IF WritesTo(o.addr) # {} THEN Winner(WritesTo(o.addr)).val
  ELSE IF PortTaken(o) THEN Lost ELSE mem[o.addr]

Latched == [i \in DOMAIN Presented(decode) |->
              [addr |-> Presented(decode)[i].addr, val |-> Read(Presented(decode)[i])]]

Bypassed(o) == IF WritesTo(o.addr) # {} THEN Winner(WritesTo(o.addr)).val ELSE o.val

Live == [i \in DOMAIN prev |-> Bypassed(prev[i])]

Operands == IF heldValid THEN held ELSE Live

\* Mutant of Conflict: only the vector reads are looked at.
ConflictVector ==
  /\ decode.op \in {"valu", "vstore"}
  /\ \E i \in DOMAIN Presented(decode) : PortTaken(Presented(decode)[i])

\* vectorBankConflict and scalarBankConflict: a port B read met a write.
Conflict == \E i \in DOMAIN Presented(decode) : PortTaken(Presented(decode)[i])

(***************************************************************************)
(* The EX stage                                                            *)
(***************************************************************************)
Copying == copy # NoCopy

\* Mutant of MemStall: the pipeline runs on during a copy.
MemStallNoCopy ==
  \/ ex.op = "load" /\ flight # Nothing
  \/ ex.op = "wait" /\ (flight.dest = ex.dest \/ track[ex.dest] # 0)

\* What the memory engine makes the bundle in EX wait for.
MemStall ==
  \/ Copying
  \/ ex.op = "load" /\ flight # Nothing
  \/ ex.op = "wait" /\ (flight.dest = ex.dest \/ track[ex.dest] # 0)

\* Mutant of Snapshot: taken in every cycle of a hold.
SnapshotEveryCycle(hold) ==
  IF hold
  THEN held' = Live /\ heldValid' = (ex # Bubble)
  ELSE /\ heldValid' = (heldValid /\ ex = Bubble)
       /\ UNCHANGED held

\* The snapshot taken in the first cycle of a hold, given up when EX moves on.
Snapshot(hold) ==
  IF hold /\ ~wasHeld
  THEN held' = Live /\ heldValid' = (ex # Bubble)
  ELSE /\ heldValid' = (heldValid /\ (hold \/ ex = Bubble))
       /\ UNCHANGED held

Results(b) == {[addr |-> r, val |-> b.id, port |-> WritePort[b.op]] : r \in Dests(b)}
Answered == {[addr |-> flight.dest, val |-> flight.val, port |-> WritePort.load]}

\* The engines fire in a cycle that does not hold EX; a CONST does not look at
\* the stall and is written in every cycle of a hold.
Writes(hold) == ex.op = "const" \/ (~hold /\ ex.op # "load")

\* Mutant of WriteBack: the registers keep their content while EX is held.
WriteBackHeld(hold, answer) ==
  wb' = IF hold THEN wb
        ELSE (IF Writes(hold) THEN Results(ex) ELSE {})
             \cup (IF answer THEN Answered ELSE {})

WriteBack(hold, answer) ==
  wb' = (IF Writes(hold) THEN Results(ex) ELSE {})
        \cup (IF answer THEN Answered ELSE {})

Tick(n) == IF n = 0 THEN 0 ELSE n - 1

\* A load leaves EX when it is issued; its answer starts the countdown.
Load(hold, answer) ==
  /\ flight' = CASE answer -> Nothing
                 [] ~hold /\ ex.op = "load" -> [dest |-> ex.dest, val |-> ex.id]
                 [] OTHER -> flight
  /\ track' = [r \in Registers |-> IF answer /\ r = flight.dest THEN 3 ELSE Tick(track[r])]

\* The lane of vsrc1 that a vector operation in decode reads in a bank.
VectorLane(bank) == {r \in ToSet(LanesFrom(decode.reads[1])) : BankOf(r) = bank}

\* A copy takes scalar read port 0 from the bundle in decode, one lane a cycle;
\* a vector operation in decode keeps every port A, and its lane is read instead.
ReadLane(r) ==
  IF WritesTo(r) # {} \/ decode.op # "valu" THEN Read([addr |-> r, port |-> "A"])
  ELSE IF VectorLane(BankOf(r)) # {} THEN mem[CHOOSE v \in VectorLane(BankOf(r)) : TRUE]
  ELSE Lost

Copy(hold) ==
  copy' = CASE Copying /\ copy.next < Lanes ->
                 LET r == copy.lanes[copy.next + 1]
                 IN  [copy EXCEPT !.next = @ + 1,
                                  !.read = <<[addr |-> r, val |-> ReadLane(r)]>>]
            [] Copying /\ copy.next = Lanes /\ copy.read # << >> -> [copy EXCEPT !.read = << >>]
            [] ~Copying /\ ~hold /\ ex.op = "copy" ->
                 [NoCopy EXCEPT !.lanes = Sources(ex), !.wants = ex.wants]
            [] OTHER -> NoCopy

(***************************************************************************)
(* The program                                                             *)
(***************************************************************************)
\* What the program keeps to: nothing touches a loaded register before its
\* WAIT_FOR_LOAD and, unless it takes the liberty, nothing writes to the bank
\* of a load that is still out.
Permitted(b) ==
  /\ b.op = "wait" \/ ToSet(Sources(b)) \cap owed = {}
  /\ b.op = "wait" \/ Dests(b) \cap owed = {}
  /\ \/ "loadBank" \in Liberties
     \/ {BankOf(r) : r \in Dests(b)} \cap {BankOf(r) : r \in owed} = {}

Issue(b) ==
  /\ count < MaxBundles
  /\ Permitted(b)
  /\ count' = count + 1
  /\ decode' = [op |-> b.op, reads |-> b.reads, dest |-> b.dest, id |-> count + 1,
                wants |-> [i \in DOMAIN Sources(b) |-> meant[Sources(b)[i]]]]
  /\ meant' = [r \in Registers |-> IF r \in Dests(b) THEN count + 1 ELSE meant[r]]
  /\ owed' = CASE b.op = "load" -> owed \cup {b.dest}
               [] b.op = "wait" -> owed \ {b.dest}
               [] OTHER -> owed

\* A branch delay slot or the end of the program.
IssueNothing == decode' = Bubble /\ UNCHANGED <<count, meant, owed>>

(***************************************************************************)
(* A cycle: hold is pipelineStall, which other engines may raise too, and  *)
(* bubble a matrix operation that consumes EX or waits in decode, or a     *)
(* bank conflict.                                                          *)
(***************************************************************************)
Init ==
  /\ mem = [r \in Registers |-> 0]
  /\ decode = Bubble /\ ex = Bubble
  /\ prev = << >> /\ held = << >> /\ heldValid = FALSE /\ wasHeld = FALSE
  /\ wb = {}
  /\ flight = Nothing /\ track = [r \in Registers |-> 0]
  /\ copy = NoCopy
  /\ count = 0 /\ meant = [r \in Registers |-> 0] /\ owed = {}

Stays == UNCHANGED <<decode, count, meant, owed>>

Datapath(hold, answer) ==
  /\ answer => flight # Nothing
  /\ mem' = Written
  /\ prev' = Latched
  /\ wasHeld' = hold
  /\ Snapshot(hold)
  /\ WriteBack(hold, answer)
  /\ Load(hold, answer)
  /\ Copy(hold)

Hold ==
  \E answer \in BOOLEAN :
    /\ Datapath(TRUE, answer)
    /\ UNCHANGED ex
    /\ Stays

Bubbled ==
  \E answer \in BOOLEAN :
    /\ ~MemStall
    /\ Datapath(FALSE, answer)
    /\ ex' = Bubble
    /\ Stays

Advance ==
  \E answer \in BOOLEAN :
    /\ ~MemStall /\ ~Conflict
    /\ Datapath(FALSE, answer)
    /\ ex' = decode
    /\ IssueNothing \/ \E b \in Code : Issue(b)

Next == Hold \/ Bubbled \/ Advance

Spec == Init /\ [][Next]_vars
-----------------------------------------------------------------------------
(***************************************************************************)
(* Properties                                                              *)
(***************************************************************************)
\* The registers stay within their widths, among them the two-bit countdown.
TypeOK ==
  /\ mem \in [Registers -> 0 .. MaxBundles]
  /\ heldValid \in BOOLEAN /\ wasHeld \in BOOLEAN
  /\ track \in [Registers -> 0 .. 3]
  /\ copy.next \in 0 .. Lanes
  /\ flight.val \in -1 .. MaxBundles
  /\ \A w \in wb : w.addr \in Registers /\ w.val \in 1 .. MaxBundles

\* Whatever holds, bubbles and answers came between, the operands of the bundle
\* in EX are those the program means: the results of the last bundles before it
\* that write those registers, though they may still be on their way through
\* write-back (the two forwarding paths, the snapshot of a held bundle and the
\* retry of a read whose port was taken).
OperandsAreMeant == ex.op \notin {"none", "copy"} => Operands = ex.wants

\* The words a copy puts into the matrix memory are the lanes of its vector as
\* the program means them.  The two bundles frozen behind it can spoil that in
\* two ways only: a vector operation in decode keeps the port the copy takes
\* ("we safely hijack", VliwCore.scala:620), and a CONST in EX writes its
\* register in every cycle of the hold (MemoryEngine.scala:166).
CopiesAreMeant ==
  copy.read # << >> =>
    \/ Bypassed(copy.read[1]) = copy.wants[copy.next]
    \/ decode.op = "valu"
    \/ ex.op = "const" /\ ex.dest = copy.read[1].addr

\* What the banks are built for: "at most 1 write per bank per cycle"
\* (BankedScratchMemory.scala:173).
OnePerBank == \A v, w \in wb : BankOf(v.addr) = BankOf(w.addr) => v = w

\* Once the pipeline has run empty the banks hold what the program computed:
\* no write was lost on the way.
WritesLand ==
  decode = Bubble /\ ex = Bubble /\ wb = {} /\ flight = Nothing => mem = meant
=============================================================================

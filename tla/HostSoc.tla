------------------------------ MODULE HostSoc ------------------------------
(***************************************************************************)
(* The host's side of the SoC: the C driver (vliw_driver.c), the CSR block *)
(* behind AXI4-Lite (HostInterface.scala), the instruction loader          *)
(* (ImemLoader.scala) and the cores as their state machines show them to   *)
(* the CSRs (FetchUnit.scala).  One step is one clock cycle.               *)
(*                                                                         *)
(* The host program is the one of the driver's examples: reset, load,      *)
(* start, wait; then the results are read and the next program follows.    *)
(* The driver makes one register access at a time.  A write is taken when  *)
(* no response is pending; a read is taken in one cycle and answered with  *)
(* the registers' values of a later one (the library's AXI4-Lite slave).   *)
(* Counters, the configuration registers and the pc read-outs are left     *)
(* out.                                                                    *)
(***************************************************************************)
EXTENDS Integers, FiniteSets

CONSTANTS
  Cores,     \* the cores
  Depth,     \* cfg.imemDepth
  Images,    \* programs in DDR, named by the address they start at
  Counts,    \* bundle counts the host loads with
  Timeouts,  \* whether a polling loop has a limit
  None       \* no program

ASSUME HostAssumption ==
  /\ IsFiniteSet(Cores) /\ Cores # {}
  /\ Depth \in Nat \ {0}
  /\ Counts \subseteq 0 .. Depth
  /\ Timeouts \in BOOLEAN
  /\ None \notin Images

VARIABLES
  driver,   \* what the host program executes next, the arguments of its calls
  ctrl,     \* HostInterface.ctrlReg: the bits that are set
  prev,     \* the same one cycle ago (RegNext)
  srcReg,   \* imemSrcAddrReg
  countReg, \* imemBundleCountReg
  bPending, \* a write response is pending
  arPending,\* register whose read has been taken, or "none"
  loader,   \* ImemLoader: state, bundleIdx and the beat it waits for
  imem,     \* contents of the instruction memories, the same in every core
  core      \* FetchUnit.state of every core

csrVars == <<ctrl, prev, srcReg, countReg, bPending, arPending>>
vars    == <<driver, csrVars, loader, imem, core>>

Bundles == 0 .. Depth - 1
Beats   == (Images \X Bundles) \cup {None}

CoreStates == {"IDLE", "RUNNING", "HALT_DRAIN", "HALTED"}
Bits       == {"start", "reset", "load"}

\* The register accesses of the calls, in the order of the host program.
Steps == {"reset", "src", "count", "load", "poll_imem", "start", "poll_stat", "exit"}

\* A cycle's inputs: whether the driver starts its next access and the bus
\* takes responses, what the DDR does, and which cores finish.  An input nobody
\* looks at in this cycle is FALSE or empty.
If(looked) == IF looked THEN BOOLEAN ELSE {FALSE}
In(states) == {c \in Cores : core[c] \in states}

Input == [access  : If(arPending = "none"),
          ready   : If(bPending \/ arPending # "none"),
          giveUp  : If(Timeouts /\ arPending # "none"),
          arReady : If(loader.state = "AR_REQ"),
          rValid  : If(loader.state = "R_WAIT"),
          halt    : SUBSET In({"RUNNING"}),
          busy    : SUBSET In({"RUNNING", "HALT_DRAIN"})]

----------------------------------------------------------------------------
(* Control register *)

Pulse(bit) == bit \in ctrl /\ bit \notin prev

\* A pulse clears its bit unless a write of the same cycle sets it.
ControlAfter(written) ==
  IF written # {} THEN written ELSE ctrl \ {b \in Bits : Pulse(b)}

----------------------------------------------------------------------------
(* The driver *)

Writes(step) == step \in {"reset", "src", "count", "load", "start"}

CanWrite(e, step) ==
  e.access /\ driver.at = step /\ Writes(step) /\ ~bPending /\ arPending = "none"

Advance(step) ==
  CASE step = "reset" -> "src"
    [] step = "src"   -> "count"
    [] step = "count" -> "load"
    [] step = "load"  -> "poll_imem"
    [] step = "start" -> "poll_stat"

WriteCsr(e) ==
  /\ CanWrite(e, driver.at)
  /\ driver' = [driver EXCEPT !.at = Advance(driver.at)]
  /\ srcReg'   = IF driver.at = "src" THEN driver.image ELSE srcReg
  /\ countReg' = IF driver.at = "count" THEN driver.count ELSE countReg
  /\ ctrl'     = ControlAfter({driver.at} \cap Bits)
  /\ bPending' = TRUE
  /\ UNCHANGED arPending

\* A polling loop reads its status register again and again.
ReadCsr(e) ==
  /\ e.access /\ driver.at \in {"poll_imem", "poll_stat"} /\ arPending = "none"
  /\ arPending' = driver.at
  /\ bPending' = (bPending /\ ~e.ready)
  /\ ctrl' = ControlAfter({})
  /\ UNCHANGED <<driver, srcReg, countReg>>

\* Mutant of StatusSays: one halted core is enough.
StatusSaysAny ==
  IF arPending = "poll_imem" THEN loader.state = "DONE"
  ELSE \E c \in Cores : core[c] = "HALTED"

\* The registers are sampled in the cycle in which the answer is taken.
StatusSays ==
  IF arPending = "poll_imem" THEN loader.state = "DONE"
  ELSE \A c \in Cores : core[c] = "HALTED"

\* The loop ends when the register says so or, with a limit, after a poll that
\* did not.  Both errors end the host program.
PollResult(e) ==
  IF StatusSays THEN IF arPending = "poll_imem" THEN "start" ELSE "exit"
  ELSE IF Timeouts /\ e.giveUp THEN "exit" ELSE driver.at

TakeAnswer(e) ==
  /\ arPending # "none" /\ e.ready
  /\ driver' = [driver EXCEPT !.at = PollResult(e)]
  /\ arPending' = "none"
  /\ bPending' = FALSE
  /\ ctrl' = ControlAfter({})
  /\ UNCHANGED <<srcReg, countReg>>

\* The next program of the host, or the same one again.
NextRun(e) ==
  /\ e.access /\ driver.at = "exit" /\ arPending = "none"
  /\ \E image \in Images, count \in Counts :
       driver' = [at |-> "reset", image |-> image, count |-> count]
  /\ bPending' = (bPending /\ ~e.ready)
  /\ ctrl' = ControlAfter({})
  /\ UNCHANGED <<arPending, srcReg, countReg>>

\* No access in this cycle: the host does something else, or the bus waits.
DriverWaits(e) ==
  /\ \/ ~e.access /\ arPending = "none"
     \/ arPending # "none" /\ ~e.ready
     \/ e.access /\ Writes(driver.at) /\ bPending /\ arPending = "none"
  /\ bPending' = (bPending /\ ~e.ready)
  /\ ctrl' = ControlAfter({})
  /\ UNCHANGED <<driver, arPending, srcReg, countReg>>

Driver(e) ==
  /\ prev' = ctrl
  /\ \/ WriteCsr(e)
     \/ ReadCsr(e)
     \/ TakeAnswer(e)
     \/ NextRun(e)
     \/ DriverWaits(e)

----------------------------------------------------------------------------
(* Instruction loader *)

\* io.bundleCount has imemAddrWidth bits.
BundleCount == countReg % Depth

LoaderStart ==
  /\ loader.state \in {"IDLE", "DONE"}
  /\ loader' = IF Pulse("load")
               THEN [loader EXCEPT !.state = "AR_REQ", !.idx = 0] ELSE loader
  /\ UNCHANGED imem

\* Mutant of LoaderBeat: the beat does not end the wait.
LoaderBeatStuck(e) ==
  /\ loader.state = "R_WAIT"
  /\ loader' = [loader EXCEPT !.beat = None]
  /\ UNCHANGED imem

\* Mutant of LoaderRequest: one bundle less.
LoaderRequestShort(e) ==
  /\ loader.state = "AR_REQ"
  /\ loader' = IF loader.idx + 1 >= BundleCount
               THEN [loader EXCEPT !.state = "DONE"]
               ELSE IF e.arReady
                    THEN [loader EXCEPT !.state = "R_WAIT",
                                        !.beat = <<srcReg, loader.idx>>]
                    ELSE loader
  /\ UNCHANGED imem

\* Address and count are taken from the registers in every cycle.
LoaderRequest(e) ==
  /\ loader.state = "AR_REQ"
  /\ loader' = IF loader.idx >= BundleCount
               THEN [loader EXCEPT !.state = "DONE"]
               ELSE IF e.arReady
                    THEN [loader EXCEPT !.state = "R_WAIT",
                                        !.beat = <<srcReg, loader.idx>>]
                    ELSE loader
  /\ UNCHANGED imem

LoaderBeat(e) ==
  /\ loader.state = "R_WAIT"
  /\ IF e.rValid
     THEN /\ imem' = [imem EXCEPT ![loader.idx] = loader.beat]
          /\ loader' = [state |-> "AR_REQ", idx |-> (loader.idx + 1) % Depth,
                        beat |-> None]
     ELSE UNCHANGED <<imem, loader>>

Loader(e) == LoaderStart \/ LoaderRequest(e) \/ LoaderBeat(e)

----------------------------------------------------------------------------
(* Cores *)

\* Nothing but the start pulse reaches a core: coreReset is not connected.
CoreAfter(e, c) ==
  CASE core[c] \in {"IDLE", "HALTED"} /\ Pulse("start")  -> "RUNNING"
    [] core[c] = "RUNNING" /\ c \in e.halt               ->
         IF c \in e.busy THEN "HALT_DRAIN" ELSE "HALTED"
    [] core[c] = "HALT_DRAIN" /\ c \notin e.busy         -> "HALTED"
    [] OTHER                                             -> core[c]

CoreStep(e) == core' = [c \in Cores |-> CoreAfter(e, c)]

----------------------------------------------------------------------------
Init ==
  /\ \E image \in Images, count \in Counts :
       driver = [at |-> "reset", image |-> image, count |-> count]
  /\ ctrl = {} /\ prev = {}
  /\ srcReg = None /\ countReg = 0
  /\ bPending = FALSE /\ arPending = "none"
  /\ loader = [state |-> "IDLE", idx |-> 0, beat |-> None]
  /\ imem = [i \in Bundles |-> None]
  /\ core = [c \in Cores |-> "IDLE"]

Cycle(e) == Driver(e) /\ Loader(e) /\ CoreStep(e)

Next == \E e \in Input : Cycle(e)

Spec == Init /\ [][Next]_vars

TypeOK ==
  /\ driver \in [at : Steps, image : Images, count : Counts]
  /\ ctrl \subseteq Bits /\ prev \subseteq Bits
  /\ srcReg \in Images \cup {None} /\ countReg \in 0 .. Depth
  /\ bPending \in BOOLEAN /\ arPending \in {"none", "poll_imem", "poll_stat"}
  /\ loader \in [state : {"IDLE", "AR_REQ", "R_WAIT", "DONE"}, idx : Bundles,
                 beat : Beats]
  /\ imem \in [Bundles -> Beats]
  /\ core \in [Cores -> CoreStates]
=============================================================================

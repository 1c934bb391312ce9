------------------------------ MODULE HostRuns ------------------------------
(***************************************************************************)
(* What the driver's return codes promise, stated over HostSoc with three  *)
(* history variables.                                                      *)
(***************************************************************************)
EXTENDS HostSoc

VARIABLES
  began,   \* cores that have taken the start pulse of the last vliw_start
  ran,     \* cores that have halted since
  settled  \* nothing was in flight when the host program began: a call that
           \* times out leaves its load or its run behind

hostVars == <<vars, began, ran, settled>>

StartWritten == driver.at = "start" /\ driver'.at = "poll_stat"

HInit == Init /\ began = {} /\ ran = {} /\ settled = TRUE

ProgramBegins == driver.at = "exit" /\ driver'.at = "reset"

InFlight ==
  \/ loader.state \in {"AR_REQ", "R_WAIT"}
  \/ \E c \in Cores : core[c] \in {"RUNNING", "HALT_DRAIN"}

History ==
  /\ began' = IF StartWritten THEN {}
              ELSE began \cup {c \in Cores : core[c] # "RUNNING" /\ core'[c] = "RUNNING"}
  /\ ran' = IF StartWritten THEN {}
            ELSE ran \cup {c \in began : core'[c] = "HALTED"}
  /\ settled' = IF ProgramBegins THEN ~InFlight ELSE settled

HNext == Next /\ History

HSpec == HInit /\ [][HNext]_hostVars

----------------------------------------------------------------------------
(* vliw_load_program "returns 0 if loaded successfully": from its return to
   the end of the run every core's memory holds the program the call named,
   if it began with nothing of an earlier call in flight. *)
LoadMeansLoaded ==
  settled /\ driver.at \in {"start", "poll_stat"} =>
    \A i \in 0 .. driver.count - 1 : imem[i] = <<driver.image, i>>

(* vliw_wait_halted returns 0 only when every core has run, and finished, the
   run that the last vliw_start asked for: HALTED of an earlier run is not
   taken for it, although the first poll may follow in the next cycle. *)
HaltedMeansRan == settled /\ arPending = "poll_stat" /\ StatusSays => ran = Cores

----------------------------------------------------------------------------
(* Liveness.  Now and then a cycle passes in which the host goes on, the bus
   and the DDR answer and running programs come to an end. *)
Cooperates(e) ==
  /\ e.access <=> arPending = "none"
  /\ e.ready <=> bPending \/ arPending # "none"
  /\ e.arReady <=> loader.state = "AR_REQ"
  /\ e.rValid <=> loader.state = "R_WAIT"
  /\ e.halt = In({"RUNNING"}) /\ e.busy = {}

HLiveSpec == HSpec /\ WF_hostVars(\E e \in Input : Cooperates(e) /\ Cycle(e) /\ History)

(* Every call of the driver returns, by a result or a timeout. *)
CallsReturn == []<>(driver.at = "exit")
=============================================================================

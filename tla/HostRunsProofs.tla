--------------------------- MODULE HostRunsProofs ---------------------------
(***************************************************************************)
(* For any number of cores, any programs and any depth: a load that        *)
(* returns success has loaded the program, and a wait that returns success *)
(* has seen the run it was for.  The argument is about one cycle: the      *)
(* driver may poll in the cycle after its command, the pulse takes two to  *)
(* move the state that is polled, and the read takes two to be answered.   *)
(***************************************************************************)
EXTENDS HostRuns, TLAPS

(* A full memory is left out: its count wraps to zero in the loader.       *)
CountsFit == Counts \subseteq 0 .. Depth - 1

Typed ==
  /\ TypeOK
  /\ began \subseteq Cores /\ ran \subseteq Cores /\ settled \in BOOLEAN

(* The source address is known before anything can load from it.           *)
SourceKnown ==
  srcReg = None => /\ driver.at \in {"reset", "src"}
                   /\ loader.state = "IDLE" /\ "load" \notin ctrl

(* A control bit is set for the one cycle in which its write is answered,  *)
(* and the driver has gone on to the step behind it.                       *)
After == [reset |-> "src", load |-> "poll_imem", start |-> "poll_stat"]
PulsesLast ==
  /\ ctrl # {} => /\ bPending /\ arPending = "none" /\ prev = {}
                  /\ \E b \in Bits : ctrl = {b} /\ driver.at = After[b]
  /\ arPending # "none" => driver.at = arPending

Idle == \A c \in Cores : core[c] \in {"IDLE", "HALTED"}
Loaded(n) == \A i \in 0 .. n - 1 : imem[i] = <<driver.image, i>>

(* Before its load is commanded a settled program finds everything idle.   *)
Preparing ==
  driver.at \in {"reset", "src", "count", "load"} =>
    /\ Idle /\ loader.state \in {"IDLE", "DONE"}
    /\ driver.at \in {"count", "load"} => srcReg = driver.image
    /\ driver.at = "load" => countReg = driver.count

(* Then either the pulse is on its way, or the loader is at work on this   *)
(* program, with everything below its index in place.                      *)
Loading ==
  driver.at = "poll_imem" =>
    /\ Idle /\ srcReg = driver.image /\ countReg = driver.count
    /\ IF ctrl # {} THEN loader.state \in {"IDLE", "DONE"}
       ELSE /\ loader.idx <= driver.count /\ Loaded(loader.idx)
            /\ loader.state \in {"AR_REQ", "R_WAIT", "DONE"}
            /\ loader.state = "R_WAIT" =>
                 loader.idx < driver.count /\ loader.beat = <<driver.image, loader.idx>>
            /\ loader.state = "DONE" => loader.idx = driver.count

(* Then the loader rests, and the cores begin this run with the pulse.     *)
Starting ==
  driver.at \in {"start", "poll_stat"} =>
    /\ loader.state = "DONE" /\ Loaded(driver.count)
    /\ driver.at = "start" => Idle
    /\ driver.at = "poll_stat" =>
         IF ctrl # {} THEN Idle
         ELSE began = Cores /\ \A c \in Cores :
                /\ core[c] # "IDLE"
                /\ core[c] = "HALTED" => c \in ran

HostInv ==
  /\ Typed /\ SourceKnown /\ PulsesLast
  /\ settled => Preparing /\ Loading /\ Starting
-----------------------------------------------------------------------------
LEMMA PulseIsControl ==
  ASSUME HostInv, NEW b \in Bits
  PROVE  Pulse(b) <=> ctrl = {b}
BY DEF HostInv, PulsesLast, Pulse, Bits

LEMMA DepthFacts ==
  ASSUME CountsFit, Typed
  PROVE  /\ Depth \in Nat \ {0} /\ countReg \in Nat
         /\ driver.count \in Nat /\ driver.count < Depth
         /\ countReg = driver.count => BundleCount = driver.count
<1>1. Depth \in Nat \ {0} /\ driver.count \in 0 .. Depth - 1 /\ countReg \in 0 .. Depth
  BY HostAssumption DEF Typed, TypeOK, CountsFit
<1>2. \A n \in Nat, d \in Nat \ {0} : n < d => n % d = n
  OBVIOUS
<1> QED
  BY <1>1, <1>2 DEF BundleCount

LEMMA HostInvInitially == HInit => HostInv
<1> SUFFICES ASSUME HInit PROVE HostInv
  OBVIOUS
<1> USE DEF HInit, Init
<1>1. Depth \in Nat \ {0} /\ 0 \in Bundles /\ 0 \in 0 .. Depth /\ Counts \subseteq 0 .. Depth
  BY HostAssumption DEF Bundles
<1>2. Typed
  <2>1. /\ driver \in [at : Steps, image : Images, count : Counts]
        /\ srcReg \in Images \cup {None} /\ countReg \in 0 .. Depth
    BY <1>1 DEF Steps
  <2>2. loader \in [state : {"IDLE", "AR_REQ", "R_WAIT", "DONE"}, idx : Bundles, beat : Beats]
    BY <1>1 DEF Beats
  <2>3. imem \in [Bundles -> Beats] /\ core \in [Cores -> CoreStates]
    BY DEF Beats, CoreStates
  <2> QED
    BY <2>1, <2>2, <2>3 DEF Typed, TypeOK
<1>3. SourceKnown /\ PulsesLast
  BY DEF SourceKnown, PulsesLast
<1>4. Preparing /\ Loading /\ Starting
  BY DEF Preparing, Loading, Starting, Idle
<1> QED
  BY <1>2, <1>3, <1>4 DEF HostInv

-----------------------------------------------------------------------------
(* The three parts of a cycle keep their types.                            *)
LEMMA DriverTypes ==
  ASSUME HostInv, NEW e \in Input, Driver(e)
  PROVE  /\ driver' \in [at : Steps, image : Images, count : Counts]
         /\ ctrl' \subseteq Bits /\ prev' \subseteq Bits
         /\ srcReg' \in Images \cup {None} /\ countReg' \in 0 .. Depth
         /\ bPending' \in BOOLEAN /\ arPending' \in {"none", "poll_imem", "poll_stat"}
<1> USE HostAssumption DEF HostInv, Typed, TypeOK, Driver
<1>1. CASE WriteCsr(e)
  <2>1. Writes(driver.at)
    BY <1>1 DEF WriteCsr, CanWrite
  <2>2. Advance(driver.at) \in Steps
    BY <2>1 DEF Writes, Advance, Steps
  <2> QED
    BY <1>1, <2>2 DEF WriteCsr, ControlAfter, Bits
<1>2. CASE ReadCsr(e)
  BY <1>2 DEF ReadCsr, ControlAfter
<1>3. CASE TakeAnswer(e)
  <2>1. PollResult(e) \in Steps
    BY DEF PollResult, Steps
  <2> QED
    BY <1>3, <2>1 DEF TakeAnswer, ControlAfter
<1>4. CASE NextRun(e)
  BY <1>4 DEF NextRun, ControlAfter, Steps
<1>5. CASE DriverWaits(e)
  BY <1>5 DEF DriverWaits, ControlAfter
<1> QED
  BY <1>1, <1>2, <1>3, <1>4, <1>5

LEMMA LoaderTypes ==
  ASSUME HostInv, NEW e \in Input, Loader(e)
  PROVE  /\ loader' \in [state : {"IDLE", "AR_REQ", "R_WAIT", "DONE"}, idx : Bundles,
                         beat : Beats]
         /\ imem' \in [Bundles -> Beats]
<1> USE DEF HostInv, Typed, TypeOK
<1>1. 0 \in Bundles /\ \A i \in Bundles : (i + 1) % Depth \in Bundles
  <2>1. \A n \in Nat, d \in Nat \ {0} : n % d \in 0 .. d - 1
    OBVIOUS
  <2> QED
    BY <2>1, HostAssumption DEF Bundles
<1>2. loader.state # "IDLE" => srcReg \in Images
  BY DEF SourceKnown
<1>3. CASE LoaderStart
  BY <1>1, <1>3 DEF LoaderStart
<1>4. CASE LoaderRequest(e)
  BY <1>2, <1>4 DEF LoaderRequest, Beats
<1>5. CASE LoaderBeat(e)
  BY <1>1, <1>5 DEF LoaderBeat, Beats
<1> QED
  BY <1>3, <1>4, <1>5 DEF Loader

LEMMA CoreTypes ==
  ASSUME HostInv, NEW e \in Input, CoreStep(e)
  PROVE  core' \in [Cores -> CoreStates]
<1>1. \A c \in Cores : CoreAfter(e, c) \in CoreStates
  BY DEF HostInv, Typed, TypeOK, CoreAfter, CoreStates
<1> QED
  BY <1>1 DEF CoreStep

-----------------------------------------------------------------------------
(* What one cycle does.                                                    *)
LEMMA NextControl ==
  ASSUME HostInv, NEW e \in Input, Driver(e)
  PROVE  /\ WriteCsr(e) => ctrl = {} /\ ctrl' = {driver.at} \cap Bits
         /\ ~WriteCsr(e) => ctrl' = {}
<1>1. ControlAfter({}) = {}
  <2>1. CASE ctrl = {}
    BY <2>1 DEF ControlAfter
  <2>2. ASSUME NEW b \in Bits, ctrl = {b}
        PROVE  ControlAfter({}) = {}
    BY <2>2, PulseIsControl DEF ControlAfter
  <2> QED
    BY <2>1, <2>2 DEF HostInv, PulsesLast
<1>2. WriteCsr(e) => ctrl = {}
  BY DEF WriteCsr, CanWrite, HostInv, PulsesLast
<1>3. WriteCsr(e) => ctrl' = {driver.at} \cap Bits
  <2>1. WriteCsr(e) => ctrl' = ControlAfter({driver.at} \cap Bits)
    BY DEF WriteCsr
  <2>2. ControlAfter({driver.at} \cap Bits) = {driver.at} \cap Bits
    BY <1>1 DEF ControlAfter
  <2> QED
    BY <2>1, <2>2
<1>4. ~WriteCsr(e) => ctrl' = {}
  BY <1>1 DEF Driver, ReadCsr, TakeAnswer, NextRun, DriverWaits
<1> QED
  BY <1>2, <1>3, <1>4

LEMMA NextPulses ==
  ASSUME HostInv, NEW e \in Input, Driver(e)
  PROVE  PulsesLast'
<1> USE DEF HostInv, Typed, TypeOK
<1>1. CASE WriteCsr(e)
  <2>1. /\ Writes(driver.at) /\ bPending' = TRUE /\ arPending' = "none" /\ prev' = {}
        /\ ctrl' = {driver.at} \cap Bits /\ driver'.at = Advance(driver.at)
    BY <1>1, NextControl DEF WriteCsr, CanWrite, Driver
  <2>2. \A b \in Bits : driver.at = b => Advance(driver.at) = After[b]
    BY DEF Bits, Advance, After
  <2> QED
    BY <2>1, <2>2 DEF PulsesLast
<1>2. CASE ~WriteCsr(e)
  <2>1. ctrl' = {}
    BY <1>2, NextControl
  <2>2. arPending' # "none" => driver'.at = arPending'
    BY <1>2 DEF Driver, ReadCsr, TakeAnswer, NextRun, DriverWaits, PulsesLast
  <2> QED
    BY <2>1, <2>2 DEF PulsesLast
<1> QED
  BY <1>1, <1>2

LEMMA RestingLoader ==
  ASSUME HostInv, NEW e \in Input, Loader(e), loader.state \in {"IDLE", "DONE"}
  PROVE  /\ imem' = imem
         /\ ctrl # {"load"} => loader' = loader
         /\ ctrl = {"load"} => loader'.state = "AR_REQ" /\ loader'.idx = 0
<1>1. LoaderStart
  BY DEF Loader, LoaderRequest, LoaderBeat
<1>2. Pulse("load") <=> ctrl = {"load"}
  BY PulseIsControl DEF Bits
<1>3. CASE ctrl = {"load"}
  BY <1>1, <1>2, <1>3 DEF LoaderStart, HostInv, Typed, TypeOK
<1>4. CASE ctrl # {"load"}
  BY <1>1, <1>2, <1>4 DEF LoaderStart
<1> QED
  BY <1>3, <1>4

(* The loader at work adds one bundle at a time.                           *)
LEMMA WorkingLoader ==
  ASSUME HostInv, CountsFit, NEW e \in Input, Loader(e), settled,
         driver.at = "poll_imem", ctrl = {}
  PROVE  /\ loader'.idx <= driver.count
         /\ \A i \in 0 .. loader'.idx - 1 : imem'[i] = <<driver.image, i>>
         /\ loader'.state \in {"AR_REQ", "R_WAIT", "DONE"}
         /\ loader'.state = "R_WAIT" =>
              loader'.idx < driver.count /\ loader'.beat = <<driver.image, loader'.idx>>
         /\ loader'.state = "DONE" => loader'.idx = driver.count
<1> USE DEF HostInv, Typed, TypeOK
<1>1. /\ srcReg = driver.image /\ BundleCount = driver.count
      /\ loader.idx <= driver.count /\ Loaded(loader.idx)
      /\ loader.state \in {"AR_REQ", "R_WAIT", "DONE"}
      /\ loader.state = "R_WAIT" =>
           loader.idx < driver.count /\ loader.beat = <<driver.image, loader.idx>>
      /\ loader.state = "DONE" => loader.idx = driver.count
  BY DepthFacts DEF Loading
<1>2. /\ loader.idx \in Nat /\ driver.count \in Nat /\ driver.count < Depth
      /\ Depth \in Nat \ {0} /\ Bundles = 0 .. Depth - 1
  BY DepthFacts DEF Bundles
<1>3. CASE loader.state = "DONE"
  BY <1>1, <1>3, RestingLoader DEF Loaded
<1>4. CASE loader.state = "AR_REQ"
  <2>1. LoaderRequest(e)
    BY <1>4 DEF Loader, LoaderStart, LoaderBeat
  <2>2. imem' = imem
    BY <2>1 DEF LoaderRequest
  <2>3. CASE loader.idx >= BundleCount
    BY <1>1, <1>2, <2>1, <2>2, <2>3 DEF LoaderRequest, Loaded
  <2>4. CASE ~(loader.idx >= BundleCount)
    BY <1>1, <1>2, <1>4, <2>1, <2>2, <2>4 DEF LoaderRequest, Loaded
  <2> QED
    BY <2>3, <2>4
<1>5. CASE loader.state = "R_WAIT"
  <2>1. LoaderBeat(e)
    BY <1>5 DEF Loader, LoaderStart, LoaderRequest
  <2>2. CASE ~e.rValid
    BY <1>1, <1>5, <2>1, <2>2 DEF LoaderBeat, Loaded
  <2>3. CASE e.rValid
    <3>1. /\ imem' = [imem EXCEPT ![loader.idx] = loader.beat]
          /\ loader' = [state |-> "AR_REQ", idx |-> (loader.idx + 1) % Depth, beat |-> None]
      BY <2>1, <2>3 DEF LoaderBeat
    <3>2. (loader.idx + 1) % Depth = loader.idx + 1
      <4>1. \A n \in Nat, d \in Nat \ {0} : n < d => n % d = n
        OBVIOUS
      <4>2. loader.idx + 1 \in Nat /\ loader.idx + 1 < Depth
        BY <1>1, <1>2, <1>5
      <4> QED
        BY <4>1, <4>2, <1>2
    <3>3. loader'.idx = loader.idx + 1 /\ loader'.state = "AR_REQ"
      BY <3>1, <3>2
    <3>4. ASSUME NEW i \in 0 .. loader.idx
          PROVE  imem'[i] = <<driver.image, i>>
      BY <1>1, <1>2, <1>5, <3>1 DEF Loaded
    <3> QED
      BY <1>1, <1>2, <1>5, <3>3, <3>4
  <2> QED
    BY <2>2, <2>3
<1> QED
  BY <1>1, <1>3, <1>4, <1>5

LEMMA NextCore ==
  ASSUME HostInv, NEW e \in Input, CoreStep(e), NEW c \in Cores
  PROVE  /\ core[c] \in {"IDLE", "HALTED"} => core'[c] = IF ctrl = {"start"} THEN "RUNNING"
                                                          ELSE core[c]
         /\ core[c] \in {"RUNNING", "HALT_DRAIN"} => core'[c] # "IDLE"
<1>1. Pulse("start") <=> ctrl = {"start"}
  BY PulseIsControl DEF Bits
<1>2. core'[c] = CoreAfter(e, c)
  BY DEF CoreStep
<1> QED
  BY <1>1, <1>2 DEF CoreAfter

LEMMA IdleCores ==
  ASSUME HostInv, NEW e \in Input, CoreStep(e), Idle, ctrl # {"start"}
  PROVE  Idle'
BY NextCore DEF Idle

(* A program that has settled, through a cycle in which its driver writes. *)
LEMMA WriteKeepsPhases ==
  ASSUME HostInv, CountsFit, NEW e \in Input, Cycle(e), History, settled, WriteCsr(e)
  PROVE  Preparing' /\ Loading' /\ Starting'
<1> USE DEF HostInv, Typed, TypeOK
<1>1. /\ Driver(e) /\ Loader(e) /\ CoreStep(e)
  BY DEF Cycle
<1>2. /\ ctrl = {} /\ ctrl' = {driver.at} \cap Bits /\ Writes(driver.at)
      /\ driver' = [driver EXCEPT !.at = Advance(driver.at)]
      /\ srcReg' = (IF driver.at = "src" THEN driver.image ELSE srcReg)
      /\ countReg' = (IF driver.at = "count" THEN driver.count ELSE countReg)
  BY <1>1, NextControl DEF WriteCsr, CanWrite
<1>3. driver'.at = Advance(driver.at) /\ driver'.image = driver.image /\ driver'.count = driver.count
  BY <1>2
<1>4. CASE driver.at \in {"reset", "src", "count"}
  <2>1. Idle /\ loader.state \in {"IDLE", "DONE"}
    BY <1>4 DEF Preparing
  <2>2. Idle' /\ loader' = loader
    BY <1>1, <1>2, <2>1, IdleCores, RestingLoader
  <2>3. driver'.at \in {"src", "count", "load"}
    BY <1>3, <1>4 DEF Advance
  <2>4. /\ driver'.at \in {"count", "load"} => srcReg' = driver'.image
        /\ driver'.at = "load" => countReg' = driver'.count
    BY <1>2, <1>3, <1>4 DEF Advance, Preparing
  <2> QED
    BY <2>1, <2>2, <2>3, <2>4 DEF Preparing, Loading, Starting
<1>5. CASE driver.at = "load"
  <2>1. Idle /\ loader.state \in {"IDLE", "DONE"} /\ srcReg = driver.image /\ countReg = driver.count
    BY <1>5 DEF Preparing
  <2>2. Idle' /\ loader' = loader
    BY <1>1, <1>2, <2>1, IdleCores, RestingLoader
  <2>3. driver'.at = "poll_imem" /\ ctrl' # {}
    BY <1>2, <1>3, <1>5 DEF Advance, Bits
  <2> QED
    BY <1>2, <1>3, <1>5, <2>1, <2>2, <2>3 DEF Preparing, Loading, Starting
<1>6. CASE driver.at = "start"
  <2>1. Idle /\ loader.state = "DONE" /\ Loaded(driver.count)
    BY <1>6 DEF Starting
  <2>2. Idle' /\ loader' = loader /\ imem' = imem
    BY <1>1, <1>2, <2>1, IdleCores, RestingLoader
  <2>3. driver'.at = "poll_stat" /\ ctrl' # {}
    BY <1>2, <1>3, <1>6 DEF Advance, Bits
  <2> QED
    BY <1>3, <2>1, <2>2, <2>3 DEF Preparing, Loading, Starting, Loaded
<1> QED
  BY <1>2, <1>4, <1>5, <1>6 DEF Writes

(* In a cycle without a write the driver stays, or an answer moves it on.  *)
LEMMA QuietKeepsPhases ==
  ASSUME HostInv, CountsFit, NEW e \in Input, Cycle(e), History, settled,
         ctrl' = {}, srcReg' = srcReg, countReg' = countReg,
         driver'.image = driver.image, driver'.count = driver.count,
         ~StartWritten,
         \/ driver'.at = driver.at
         \/ ctrl = {} /\ driver.at = "poll_imem" /\ loader.state = "DONE" /\ driver'.at = "start"
         \/ driver'.at = "exit"
  PROVE  Preparing' /\ Loading' /\ Starting'
<1> USE DEF HostInv, Typed, TypeOK
<1>1. /\ Driver(e) /\ Loader(e) /\ CoreStep(e)
  BY DEF Cycle
<1>2. \A b \in Bits : ctrl = {b} => driver.at = After[b]
  BY DEF PulsesLast
<1>3. CASE driver'.at = "exit"
  BY <1>3 DEF Preparing, Loading, Starting
<1>4. CASE driver'.at = driver.at /\ driver.at \in {"reset", "src", "count", "load"}
  <2>1. Idle /\ loader.state \in {"IDLE", "DONE"} /\ ctrl # {"load"} /\ ctrl # {"start"}
    BY <1>2, <1>4 DEF Preparing, Bits, After
  <2>2. Idle' /\ loader' = loader
    BY <1>1, <2>1, IdleCores, RestingLoader
  <2> QED
    BY <1>4, <2>1, <2>2 DEF Preparing, Loading, Starting
<1>5. CASE driver.at = "poll_imem"
  <2>1. Idle /\ srcReg = driver.image /\ countReg = driver.count
    BY <1>5 DEF Loading
  <2>2. ctrl # {"start"}
    BY <1>2, <1>5 DEF Bits, After
  <2>3. Idle'
    BY <1>1, <2>1, <2>2, IdleCores
  <2>4. CASE ctrl # {}
    <3>1. ctrl = {"load"} /\ loader.state \in {"IDLE", "DONE"} /\ driver'.at \in {"poll_imem", "exit"}
      BY <1>2, <1>5, <2>4 DEF Loading, PulsesLast, Bits, After
    <3>2. loader'.state = "AR_REQ" /\ loader'.idx = 0
      BY <1>1, <3>1, RestingLoader
    <3>3. driver.count \in Nat
      BY DepthFacts
    <3> QED
      BY <2>1, <2>3, <3>1, <3>2, <3>3 DEF Preparing, Loading, Starting, Loaded
  <2>5. CASE ctrl = {}
    <3>1. /\ loader'.idx <= driver.count
          /\ \A i \in 0 .. loader'.idx - 1 : imem'[i] = <<driver.image, i>>
          /\ loader'.state \in {"AR_REQ", "R_WAIT", "DONE"}
          /\ loader'.state = "R_WAIT" =>
               loader'.idx < driver.count /\ loader'.beat = <<driver.image, loader'.idx>>
          /\ loader'.state = "DONE" => loader'.idx = driver.count
      BY <1>1, <1>5, <2>5, WorkingLoader
    <3>2. loader.state = "DONE" => loader'.state = "DONE"
      BY <1>1, <2>5, RestingLoader
    <3>3. CASE driver'.at = "poll_imem"
      BY <2>1, <2>3, <3>1, <3>3 DEF Preparing, Loading, Starting, Loaded
    <3>4. CASE loader.state = "DONE" /\ driver'.at = "start"
      BY <2>3, <3>1, <3>2, <3>4 DEF Preparing, Loading, Starting, Loaded
    <3> QED
      BY <1>3, <1>5, <3>3, <3>4
  <2> QED
    BY <2>4, <2>5
<1>6. CASE driver'.at = driver.at /\ driver.at \in {"start", "poll_stat"}
  <2>1. loader.state = "DONE" /\ Loaded(driver.count) /\ ctrl # {"load"}
    BY <1>2, <1>6 DEF Starting, Bits, After
  <2>2. loader' = loader /\ imem' = imem
    BY <1>1, <2>1, RestingLoader
  <2>3. CASE driver.at = "start"
    <3>1. Idle /\ ctrl # {"start"}
      BY <1>2, <2>3 DEF Starting, Bits, After
    <3>2. Idle'
      BY <1>1, <3>1, IdleCores
    <3> QED
      BY <1>6, <2>1, <2>2, <2>3, <3>2 DEF Preparing, Loading, Starting, Loaded
  <2>4. CASE driver.at = "poll_stat"
    <3>1. /\ began' = began \cup {c \in Cores : core[c] # "RUNNING" /\ core'[c] = "RUNNING"}
          /\ ran' = ran \cup {c \in began : core'[c] = "HALTED"}
      BY DEF History
    <3>2. CASE ctrl # {}
      <4>1. ctrl = {"start"} /\ Idle
        BY <1>2, <2>4, <3>2 DEF Starting, PulsesLast, Bits, After
      <4>2. \A c \in Cores : core[c] # "RUNNING" /\ core'[c] = "RUNNING"
        BY <1>1, <4>1, NextCore DEF Idle
      <4>3. began' = Cores
        BY <3>1, <4>2
      <4> QED
        BY <1>6, <2>1, <2>2, <2>4, <4>2, <4>3 DEF Preparing, Loading, Starting, Loaded
    <3>3. CASE ctrl = {}
      <4>1. began = Cores /\ \A c \in Cores : core[c] # "IDLE" /\ (core[c] = "HALTED" => c \in ran)
        BY <2>4, <3>3 DEF Starting
      <4>2. \A c \in Cores : core'[c] # "IDLE"
        BY <1>1, <3>3, <4>1, NextCore DEF CoreStates
      <4>3. began' = Cores /\ \A c \in Cores : core'[c] = "HALTED" => c \in ran'
        BY <3>1, <4>1
      <4> QED
        BY <1>6, <2>1, <2>2, <2>4, <4>2, <4>3 DEF Preparing, Loading, Starting, Loaded
    <3> QED
      BY <3>2, <3>3
  <2> QED
    BY <1>6, <2>3, <2>4
<1> QED
  BY <1>3, <1>4, <1>5, <1>6 DEF Steps

LEMMA CycleKeepsPhases ==
  ASSUME HostInv, CountsFit, NEW e \in Input, Cycle(e), History, settled'
  PROVE  Preparing' /\ Loading' /\ Starting'
<1> USE DEF HostInv, Typed, TypeOK
<1>1. Driver(e) /\ Loader(e) /\ CoreStep(e)
  BY DEF Cycle
<1>2. settled' = IF ProgramBegins THEN ~InFlight ELSE settled
  BY DEF History
<1>3. CASE WriteCsr(e)
  <2>1. driver.at # "exit"
    BY <1>3 DEF WriteCsr, CanWrite, Writes
  <2> QED
    BY <1>2, <1>3, <2>1, WriteKeepsPhases DEF ProgramBegins
<1>4. CASE ReadCsr(e)
  <2>1. driver' = driver /\ srcReg' = srcReg /\ countReg' = countReg /\ driver.at # "exit"
    BY <1>4 DEF ReadCsr
  <2>2. ctrl' = {}
    <3>1. ~WriteCsr(e)
      BY <1>4 DEF ReadCsr, WriteCsr, CanWrite, Writes
    <3> QED
      BY <1>1, <3>1, NextControl
  <2> QED
    BY <1>2, <2>1, <2>2, QuietKeepsPhases DEF ProgramBegins, StartWritten
<1>5. CASE TakeAnswer(e)
  <2>1. /\ arPending # "none" /\ driver.at = arPending /\ ctrl = {}
        /\ driver' = [driver EXCEPT !.at = PollResult(e)]
        /\ srcReg' = srcReg /\ countReg' = countReg
    BY <1>5 DEF TakeAnswer, PulsesLast
  <2>2. ctrl' = {}
    <3>1. ~WriteCsr(e)
      BY <2>1 DEF WriteCsr, CanWrite
    <3> QED
      BY <1>1, <3>1, NextControl
  <2>3. /\ driver'.image = driver.image /\ driver'.count = driver.count
        /\ driver'.at = PollResult(e) /\ driver.at \in {"poll_imem", "poll_stat"}
    BY <2>1
  <2>4. \/ driver'.at = driver.at
        \/ driver.at = "poll_imem" /\ loader.state = "DONE" /\ driver'.at = "start"
        \/ driver'.at = "exit"
    BY <2>1, <2>3 DEF PollResult, StatusSays
  <2> QED
    BY <1>2, <2>1, <2>2, <2>3, <2>4, QuietKeepsPhases DEF ProgramBegins, StartWritten
<1>6. CASE NextRun(e)
  <2>1. driver.at = "exit" /\ driver'.at = "reset"
    BY <1>6 DEF NextRun
  <2>2. ~InFlight
    BY <1>2, <2>1 DEF ProgramBegins
  <2>3. Idle /\ loader.state \in {"IDLE", "DONE"}
    BY <2>2 DEF InFlight, Idle, CoreStates
  <2>4. ctrl = {}
    BY <2>1 DEF PulsesLast, Bits, After
  <2>5. Idle' /\ loader' = loader
    BY <1>1, <2>3, <2>4, IdleCores, RestingLoader
  <2> QED
    BY <2>1, <2>3, <2>5 DEF Preparing, Loading, Starting
<1>7. CASE DriverWaits(e)
  <2>1. driver' = driver /\ srcReg' = srcReg /\ countReg' = countReg
    BY <1>7 DEF DriverWaits
  <2>2. ctrl' = {}
    <3>1. ~WriteCsr(e)
      BY <1>7 DEF DriverWaits, WriteCsr, CanWrite
    <3> QED
      BY <1>1, <3>1, NextControl
  <2> QED
    BY <1>2, <2>1, <2>2, QuietKeepsPhases DEF ProgramBegins, StartWritten
<1> QED
  BY <1>1, <1>3, <1>4, <1>5, <1>6, <1>7 DEF Driver

LEMMA HostInvInductive ==
  ASSUME CountsFit
  PROVE  HostInv /\ [HNext]_hostVars => HostInv'
<1> SUFFICES ASSUME HostInv, [HNext]_hostVars PROVE HostInv'
  OBVIOUS
<1>1. ASSUME NEW e \in Input, Cycle(e), History
      PROVE  HostInv'
  <2>1. Driver(e) /\ Loader(e) /\ CoreStep(e)
    BY <1>1 DEF Cycle
  <2>2. began' \subseteq Cores /\ ran' \subseteq Cores /\ settled' \in BOOLEAN
    <3>1. began' \subseteq Cores /\ ran' \subseteq Cores
      BY <1>1 DEF History, HostInv, Typed
    <3>2. settled' = IF ProgramBegins THEN ~InFlight ELSE settled
      BY <1>1 DEF History
    <3>3. settled \in BOOLEAN
      BY DEF HostInv, Typed
    <3>4. settled' \in BOOLEAN
      BY <3>2, <3>3 DEF ProgramBegins, InFlight
    <3> QED
      BY <3>1, <3>4
  <2>3. Typed'
    BY <2>1, <2>2, DriverTypes, LoaderTypes, CoreTypes DEF Typed, TypeOK
  <2>4. PulsesLast'
    BY <2>1, NextPulses
  <2>5. SourceKnown'
    <3> SUFFICES ASSUME srcReg' = None
                 PROVE  /\ driver'.at \in {"reset", "src"}
                        /\ loader'.state = "IDLE" /\ "load" \notin ctrl'
      BY DEF SourceKnown
    <3>1. srcReg = None
      <4>1. driver.image # None
        BY HostAssumption DEF HostInv, Typed, TypeOK
      <4> QED
        BY <2>1, <4>1 DEF Driver, WriteCsr, ReadCsr, TakeAnswer, NextRun, DriverWaits
    <3>2. driver.at \in {"reset", "src"} /\ loader.state = "IDLE" /\ "load" \notin ctrl
      BY <3>1 DEF HostInv, SourceKnown
    <3>3. loader'.state = "IDLE"
      BY <2>1, <3>2, RestingLoader
    <3>4. "load" \notin ctrl'
      BY <2>1, <3>2, NextControl
    <3>5. driver'.at \in {"reset", "src"}
      <4>1. CASE WriteCsr(e)
        <5>1. driver.at # "src"
          BY <3>1, <4>1, HostAssumption DEF WriteCsr, HostInv, Typed, TypeOK
        <5> QED
          BY <3>2, <4>1, <5>1 DEF WriteCsr, Advance, HostInv, Typed, TypeOK
      <4>2. CASE ~WriteCsr(e)
        BY <2>1, <3>2, <4>2 DEF Driver, ReadCsr, TakeAnswer, NextRun, DriverWaits,
                                HostInv, PulsesLast, Typed, TypeOK
      <4> QED
        BY <4>1, <4>2
    <3> QED
      BY <3>3, <3>4, <3>5
  <2>6. settled' => Preparing' /\ Loading' /\ Starting'
    BY <1>1, CycleKeepsPhases
  <2> QED
    BY <2>3, <2>4, <2>5, <2>6 DEF HostInv
<1>2. CASE UNCHANGED hostVars
  BY <1>2 DEF hostVars, vars, csrVars, HostInv, Typed, TypeOK, SourceKnown, PulsesLast,
              Preparing, Loading, Starting, Idle, Loaded
<1> QED
  BY <1>1, <1>2 DEF HNext, Next

LEMMA HostInvImpliesProperties ==
  ASSUME HostInv
  PROVE  LoadMeansLoaded /\ HaltedMeansRan
<1>1. LoadMeansLoaded
  BY DEF HostInv, Starting, Loaded, LoadMeansLoaded
<1>2. HaltedMeansRan
  <2> SUFFICES ASSUME settled, arPending = "poll_stat", StatusSays
               PROVE  ran = Cores
    BY DEF HaltedMeansRan
  <2>1. driver.at = "poll_stat" /\ ctrl = {}
    BY DEF HostInv, PulsesLast
  <2>2. \A c \in Cores : core[c] = "HALTED"
    BY DEF StatusSays
  <2>3. \A c \in Cores : core[c] = "HALTED" => c \in ran
    BY <2>1 DEF HostInv, Starting
  <2> QED
    BY <2>2, <2>3 DEF HostInv, Typed
<1> QED
  BY <1>1, <1>2

-----------------------------------------------------------------------------
(* When vliw_load_program returns success to a host with nothing of an     *)
(* earlier call in flight, every memory holds the program it named, until  *)
(* the end of the run: a poll never sees the DONE of an earlier load.      *)
THEOREM SpecLoadMeansLoaded ==
  ASSUME CountsFit
  PROVE  HSpec => []LoadMeansLoaded
<1>1. HInit => HostInv
  BY HostInvInitially
<1>2. HostInv /\ [HNext]_hostVars => HostInv'
  BY HostInvInductive
<1>3. HostInv => LoadMeansLoaded
  BY HostInvImpliesProperties
<1> QED
  BY <1>1, <1>2, <1>3, PTL DEF HSpec

(* When vliw_wait_halted returns success to such a host, every core has    *)
(* begun and finished the run of the last vliw_start: the HALTED of an     *)
(* earlier run is gone before the first poll is answered.                  *)
THEOREM SpecHaltedMeansRan ==
  ASSUME CountsFit
  PROVE  HSpec => []HaltedMeansRan
<1>1. HInit => HostInv
  BY HostInvInitially
<1>2. HostInv /\ [HNext]_hostVars => HostInv'
  BY HostInvInductive
<1>3. HostInv => HaltedMeansRan
  BY HostInvImpliesProperties
<1> QED
  BY <1>1, <1>2, <1>3, PTL DEF HSpec
=============================================================================

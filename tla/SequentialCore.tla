-------------------------- MODULE SequentialCore ---------------------------
(***************************************************************************)
(* What a program means: bundles run one after the other, a taken branch   *)
(* continues at its target, HALT stops the core, and a bundle that does    *)
(* nothing is not observed.  This is the order in which the golden model   *)
(* (verification/cocotb/golden_model.py) executes a program and the        *)
(* abstract specification the core's pipeline is shown to implement.       *)
(***************************************************************************)
EXTENDS Integers

CONSTANT Depth  \* number of bundles in the instruction memory

VARIABLES
  program,  \* the loaded program
  running,  \* is the core executing it?
  ran       \* the last bundle that ran: its address, was it taken, and a bit
            \* that flips with every bundle so that a repetition is seen

vars == <<program, running, ran>>

HasWork(b) == b.flow # "none" \/ b.unit # "none"

\* The first bundle with work at or after address a.
NextWork(a) ==
  LET k == CHOOSE i \in 0 .. Depth - 1 :
             /\ HasWork(program[(a + i) % Depth])
             /\ \A j \in 0 .. i - 1 : ~HasWork(program[(a + j) % Depth])
  IN  (a + k) % Depth

\* A relative branch counts from its own address (golden_model.py:913, and
\* the offset scheduler.py:1414 emits).
BranchTarget(a) ==
  IF program[a].flow = "cjumprel"
  THEN (a + program[a].target) % Depth
  ELSE program[a].target % Depth

MayBeTaken(a, taken) ==
  CASE program[a].flow \in {"jump", "jumpind"}    -> taken = TRUE
    [] program[a].flow \in {"cjump", "cjumprel"} -> taken \in BOOLEAN
    [] OTHER                                     -> taken = FALSE

Following ==
  IF ran.taken THEN NextWork(BranchTarget(ran.at)) ELSE NextWork(ran.at + 1)

NotYet == [at |-> -1, taken |-> FALSE, flip |-> FALSE]

Init == running = FALSE /\ ran = NotYet

Start == ~running /\ running' = TRUE /\ ran' = NotYet /\ UNCHANGED program

Run ==
  /\ running
  /\ \E taken \in BOOLEAN :
       /\ MayBeTaken(Following, taken)
       /\ ran' = [at |-> Following, taken |-> taken, flip |-> ~ran.flip]
  /\ running' = (program[Following].flow # "halt")
  /\ UNCHANGED program

Load == ~running /\ program' # program /\ UNCHANGED <<running, ran>>

Next == Start \/ Run \/ Load

Spec == Init /\ [][Next]_vars
=============================================================================

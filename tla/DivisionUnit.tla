---------------------------- MODULE DivisionUnit ----------------------------
(***************************************************************************)
(* What a slot of the ALU promises about divisions, whatever happens       *)
(* inside: a division that enters a free unit is answered Latency cycles   *)
(* later with a result at its destination, the unit is free again in the   *)
(* cycle of the answer, and an operation of one cycle is written in its    *)
(* own cycle unless an answer takes the write port.  ScheduledRun has the  *)
(* same unit with symbolic values (fly, UnitBusy, PortTaken).              *)
(***************************************************************************)
EXTENDS Integers

CONSTANTS
    Latency,                \* cycles from a division to its answer
    Results(_, _, _),       \* what an operation may give for two operands
    IsDiv(_),               \* operations the unit works on
    Operations,             \* [name, dest, a, b]
    None

VARIABLES
    ex,     \* operation of the slot in this cycle, or None
    fly,    \* division under way: [dest, value, left], or None
    port    \* write of the cycle before: [dest, value], or None

vars == <<ex, fly, port>>

Answer == fly # None /\ fly.left = 0
Free == fly = None \/ Answer
Division == ex # None /\ IsDiv(ex.name)

Values(op) == Results(op.name, op.a, op.b)

Init == ex = None /\ fly = None /\ port = None

Begin ==
    /\ Division /\ Free
    /\ \E v \in Values(ex) : fly' = [dest |-> ex.dest, value |-> v, left |-> Latency - 1]

Work ==
    /\ ~ Free
    /\ fly' = [fly EXCEPT !.left = @ - 1]

Rest ==
    /\ ~ Division /\ Free
    /\ fly' = None

Write ==
    \/ Answer /\ port' = [dest |-> fly.dest, value |-> fly.value]
    \/ /\ ~ Answer /\ ex # None /\ ~ Division
       /\ \E v \in Values(ex) : port' = [dest |-> ex.dest, value |-> v]
    \/ ~ Answer /\ (ex = None \/ Division) /\ port' = None

Next ==
    /\ Begin \/ Work \/ Rest
    /\ Write
    /\ ex' \in Operations \cup {None}

Spec == Init /\ [][Next]_vars
=============================================================================

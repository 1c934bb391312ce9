--------------------------- MODULE MemoryContract --------------------------
(***************************************************************************)
(* What the memory engine promises a program: stores reach the memory one  *)
(* by one in the order in which their bundles fired, and a load returns    *)
(* the value its address has after some of the older stores - never that   *)
(* of a younger store, nor of another address.  (A load does not wait for  *)
(* older stores: test_driver_integration.py says the architecture does not *)
(* guarantee an immediate store->load round trip.)                         *)
(***************************************************************************)
EXTENDS Integers, Sequences

CONSTANTS
  Addrs,  \* memory addresses
  Vals,   \* values
  None    \* no answer

VARIABLES
  memory,  \* contents of the memory
  owed,    \* stores that fired and have not reached it, oldest first
  loading, \* the values the load in progress may return, {} if there is none
  answer   \* what a load returned in this step, or None

vars == <<memory, owed, loading, answer>>

Init == memory \in [Addrs -> Vals] /\ owed = <<>> /\ loading = {} /\ answer = None

\* The oldest store takes effect.
Committed(c) ==
  IF c THEN [memory EXCEPT ![owed[1].addr] = owed[1].val] ELSE memory

Remaining(c) == IF c THEN Tail(owed) ELSE owed

\* The values address a can have once some of the remaining stores are done.
Possible(c, a) ==
  {Committed(c)[a]}
    \cup {Remaining(c)[k].val :
            k \in {j \in 1 .. Len(Remaining(c)) : Remaining(c)[j].addr = a}}

BeginLoad(c) ==
  /\ loading = {}
  /\ \E a \in Addrs : loading' = Possible(c, a)
  /\ answer' = None

AnswerLoad == loading # {} /\ answer' \in loading /\ loading' = {}

NoLoad == loading' = loading /\ answer' = None

\* A step may commit the oldest store, fire a new one and serve a load.
Step(c) ==
  /\ c => owed # <<>>
  /\ memory' = Committed(c)
  /\ \/ owed' = Remaining(c)
     \/ \E s \in [addr : Addrs, val : Vals] : owed' = Append(Remaining(c), s)
  /\ BeginLoad(c) \/ AnswerLoad \/ NoLoad

Next == \E c \in BOOLEAN : Step(c)

Spec == Init /\ [][Next]_vars
=============================================================================

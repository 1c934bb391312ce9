----------------------------- MODULE MCMemory ------------------------------
(* Small bundles and programs for MemoryOrder.                              *)
EXTENDS MemoryOrder

TwoDests  == {"r1", "r2"}
TwoAddrs  == {"a", "b"}
TwoVals   == {"v0", "v1"}

Slots1(op) == [i \in 1 .. 1 |-> op]

\* One load slot, one store slot, the matrix slot.
Make(ld, st, mx) == [ld |-> Slots1(ld), st |-> Slots1(st), mx |-> mx]

Nothing   == [op |-> "none"]
NoTransfer == [op |-> "none", beats |-> 0]

Store(v) == [op |-> "store", req |-> [addr |-> "a", val |-> v]]
Load(d)  == [op |-> "load", dest |-> d, addr |-> IF d = "r1" THEN "a" ELSE "b"]
Wait(d)  == [op |-> "wait", dest |-> d]
Copy     == [op |-> "copy"]

Move(direction, n) == Make(Nothing, Nothing, [op |-> direction, beats |-> n])

\* Loads and barriers of two registers, a store with and without a barrier in
\* its bundle, a copy, and transfers of no, one and two beats.
SafeBundles ==
  {Make(ld, Nothing, NoTransfer) : ld \in UNION {{Load(d), Wait(d)} : d \in TwoDests}}
    \cup {Make(ld, Store("v1"), NoTransfer) : ld \in {Nothing, Wait("r1")}}
    \cup {Make(Copy, Nothing, NoTransfer), Move("in", 0), Move("in", 2), Move("out", 1)}
=============================================================================

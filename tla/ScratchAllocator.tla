------------------------- MODULE ScratchAllocator -------------------------
(***************************************************************************)
(* The scratch allocator at work: the buffers of a kernel are placed in    *)
(* the order of their declaration (allocate_all).  Every declaration is    *)
(* chosen freely from Menu, so that every order of automatic and explicit  *)
(* placements is met.                                                      *)
(***************************************************************************)
EXTENDS ScratchLayout, Sequences

CONSTANTS
    Menu,           \* buffers a kernel may declare
    MaxBuffers      \* bound on the number of declarations

ASSUME MenuAssumption == Menu \subseteq ScratchBuffer

(* A vector that asks for more than a row of the banks asks for whole rows. *)
ASSUME RowsAssumption ==
    \A buf \in Menu : buf.vector /\ buf.align > VectorAlign
        => \E rows \in 1..buf.align : buf.align = rows * VectorAlign

VARIABLES
    placed,         \* buffers placed so far, each with the range it got
    nextAddr,       \* ScratchAllocator.next_addr
    refused         \* allocate_all raised an error

vars == <<placed, nextAddr, refused>>

Placement ==
    [auto: BOOLEAN, vector: BOOLEAN, first: 0..ScratchSize, end: 0..ScratchSize]

Init ==
    /\ placed = <<>>
    /\ nextAddr = 0
    /\ refused = FALSE

Placed(buf) ==
    [ auto |-> buf.base = NoBase, vector |-> buf.vector,
      first |-> BaseOf(buf, nextAddr), end |-> EndOf(buf, nextAddr) ]

(* _allocate_buffer returns a base.                                        *)
Place(buf) ==
    /\ ~refused
    /\ Fits(buf, nextAddr)
    /\ placed' = Append(placed, Placed(buf))
    /\ nextAddr' = NextAfter(buf, nextAddr)
    /\ UNCHANGED refused

(* _allocate_buffer raises ValueError: the kernel is not compiled.         *)
Refuse(buf) ==
    /\ ~refused
    /\ ~Fits(buf, nextAddr)
    /\ refused' = TRUE
    /\ UNCHANGED <<placed, nextAddr>>

Next ==
    \E buf \in Menu :
        \/ Len(placed) < MaxBuffers /\ Place(buf)
        \/ Refuse(buf)

Spec == Init /\ [][Next]_vars

-----------------------------------------------------------------------------
(* Every range handed out lies within scratch memory.                      *)
TypeOK ==
    /\ placed \in Seq(Placement)
    /\ nextAddr \in 0..ScratchSize
    /\ refused \in BOOLEAN

Apart(p, q) == p.end <= q.first \/ q.end <= p.first

(* A buffer the allocator places by itself never shares a word with a      *)
(* buffer that was declared before it, wherever that one was put.          *)
AutoClearOfEarlier ==
    \A j \in 1..Len(placed) : placed[j].auto =>
        \A i \in 1..(j - 1) : Apart(placed[i], placed[j])

(* A vector the allocator places starts on a row of the scratch banks,     *)
(* so that its lanes are read and written in one cycle.  A vector declared *)
(* at an alignment that is no multiple of a row is outside this promise.   *)
VectorsAligned ==
    \A i \in 1..Len(placed) :
        (placed[i].auto /\ placed[i].vector) => placed[i].first % VectorAlign = 0

=============================================================================

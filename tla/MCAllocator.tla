---------------------------- MODULE MCAllocator ----------------------------
(* Instance of ScratchAllocator for TLC: rows of four words.               *)
EXTENDS ScratchAllocator

Declared(vector, size, align, base) ==
    [vector |-> vector, size |-> size, align |-> align, base |-> base]

MCMenu ==
    { Declared(FALSE, 1, 1, NoBase), Declared(TRUE, 4, 4, NoBase), Declared(TRUE, 2, 2, NoBase),
      Declared(FALSE, 1, 1, 3), Declared(TRUE, 4, 4, 8), Declared(TRUE, 4, 4, 18) }
=============================================================================

----------------------------- MODULE MCDivider ------------------------------
(* Instances of AluDivider for TLC.                                        *)
EXTENDS AluDivider

CONSTANTS d1, d2
TwoDests == {d1, d2}

(* Every pair of words of three bits, zero as a divisor included; a        *)
(* division and operations of one cycle with the other destination.        *)
EveryPair ==
    [name : Divisions, dest : {d1}, a : 0..7, b : 0..7] \cup
    {[name |-> "div", dest |-> d2, a |-> 7, b |-> 2],
     [name |-> "single", dest |-> d2, a |-> 1, b |-> 0],
     [name |-> "single", dest |-> d1, a |-> 6, b |-> 0]}
=============================================================================

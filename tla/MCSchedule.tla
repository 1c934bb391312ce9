---------------------------- MODULE MCSchedule -----------------------------
(***************************************************************************)
(* Instances of ScheduleContract and ScheduledRun for TLC: small latencies,*)
(* one or two slots per engine, four registers in two banks.               *)
(***************************************************************************)
EXTENDS ScheduledRun

TwoAlus == [[e \in Engines |-> 1] EXCEPT !["alu"] = 2]
FourRegs == 0..3
OneLabel == {"head"}

(* Every latency class, vectors that cover the banks, a vector load with   *)
(* its barriers, a store, a loop and operations that share banks.          *)
AllOps ==
    {Const(2), Alu("add", 1, 0, 3), Div(2, 0, 1), FMul(1, 2, 3),
     Select("select", 0, 1, 2, 3), Valu("fadd", 2, 2, 2), VLoad(2, 0),
     Store(1, 3, "scalar"), CondJump(1, "head"), Halt}

(* A vector division and an operation that uses its quotient: the scheduler *)
(* takes it for a single-cycle operation.                                  *)
VectorDivision == {Const(0), Valu("div", 0, 2, 2), Alu("add", 3, 1, 1), Halt}

ASSUME SlowOnes == UnitsKnown <=> Ops # VectorDivision
=============================================================================

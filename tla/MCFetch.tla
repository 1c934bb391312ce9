------------------------------ MODULE MCFetch ------------------------------
(* Small instruction memories and the programs FetchOrder is checked on.    *)
EXTENDS FetchOrder, Sequences

B(flow, target, unit) == [flow |-> flow, target |-> target, unit |-> unit]
Do(unit) == B("none", 0, unit)
HaltB    == B("halt", 0, "none")

Memory(bundles) ==
  [a \in Addr |-> IF a < Len(bundles) THEN bundles[a + 1] ELSE Nop]

Busy == Units \ {"none"}

\* Three bundles of every kind, HALT, and left-over work right behind it.
Straight ==
  {Memory(<<Do(u), Do(v), Do(w), HaltB, Do("store"), Do("compute")>>) :
     u \in Busy, v \in MatrixUnits \cup {"alu", "scopy"}, w \in {"store", "mdmvout"}}

\* Forward branch, skipping a bundle that must not run.  A relative one names
\* the first of the two empty bundles in front of its target.
Forward ==
  {Memory(<<Do(u), B(fl, 6, "none"), Nop, Nop, Nop, Do("store"), Do(v), HaltB>>) :
     u \in Busy, v \in {"load", "compute"}, fl \in Branches \ {"cjumprel"}}
  \cup
  {Memory(<<Do(u), B("cjumprel", 5, "none"), Nop, Nop, Nop, Do("store"),
            Nop, Nop, Do(v), HaltB>>) : u \in Busy, v \in {"load", "compute"}}

\* A loop whose body is one bundle, entered again by a backward branch, with
\* left-over work behind HALT.
Backward ==
  {Memory(body) : body \in UNION {
     {<<Do(u), B("cjump", 0, w), Nop, Nop, Nop, Do(v), HaltB, Do("store")>>,
      <<Nop, Nop, Do(u), B("cjumprel", -3, w), Nop, Nop, Nop, Do(v), HaltB, Do("store")>>} :
     u \in {"store", "scopy", "compute", "mdmvin"}, v \in {"store", "mdmvin"},
     w \in {"none", "alu"}}}

AllPrograms == Straight \cup Forward \cup Backward

\* What the scheduler gives, and what a relative branch needs, hold of them.
ASSUME \A p \in AllPrograms : BranchPadded(p, 3) /\ HaltAlone(p) /\ LandingPadded(p)
=============================================================================

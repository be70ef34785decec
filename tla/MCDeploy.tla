------------------------------ MODULE MCDeploy ------------------------------
(* TLC's instance of Deploy.tla.                                           *)
EXTENDS Deploy, FiniteSets, TLC

Symmetry == Permutations(Runs)

(* BOUND: no more than two runs are under way at a time, the command that  *)
(* a run has left behind included.                                         *)
TwoAtATime == Cardinality({r \in Runs : UnderWay(r)}) <= 2
=============================================================================

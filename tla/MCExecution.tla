---------------------------- MODULE MCExecution ----------------------------
(***************************************************************************)
(* Instances of Execution for TLC.  Job 1 runs on t1 under a grant with    *)
(* the shell permission, job 2 on t2 under one without it.                 *)
(***************************************************************************)
EXTENDS Execution, TLC

CONSTANTS t1, t2, plain, powerful

MCGrantOf      == [j \in Jobs |-> IF j = 1 THEN powerful ELSE plain]
MCTargetOf     == [j \in Jobs |-> IF j = 1 THEN t1 ELSE t2]
MCExpires      == [j \in Jobs |-> MaxTime]
MCGrantExpires == [g \in Grants |-> MaxTime]

\* Sessions are interchangeable; used only where invariants alone are checked.
SessionSymmetry == Permutations(Sessions)

=============================================================================

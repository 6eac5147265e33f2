------------------------------ MODULE MCAdapter ------------------------------
(***************************************************************************)
(* Instances of Adapter for TLC: commands that run at once, that need an   *)
(* approval, and that are arbitrary code.                                  *)
(***************************************************************************)
EXTENDS Adapter

CONSTANTS g1, g2, p1, p2, k1, k2, read, restart, python

MCRequests == Ops \X (1..MaxSteps)

\* The targets of the second grant admit only one of the commands.
MCPermitted == [g \in Grants |-> IF g = First THEN Commands ELSE {restart}]

MCPlans == {[kind |-> "batch", parallel |-> FALSE, commands |-> <<restart, read>>],
            [kind |-> "batch", parallel |-> TRUE, commands |-> <<restart, read>>],
            [kind |-> "exec", parallel |-> FALSE, commands |-> <<restart>>],
            [kind |-> "code", parallel |-> FALSE, commands |-> <<python>>]}

=============================================================================

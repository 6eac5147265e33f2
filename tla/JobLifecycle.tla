---------------------------- MODULE JobLifecycle ----------------------------
(***************************************************************************)
(* What the Control Plane promises of every execution job, whatever else   *)
(* is going on: it moves forward only, it is published, claimed and        *)
(* started at most once, a result is recorded only from running, and once  *)
(* its grant has been revoked it is off the queue and can never start.     *)
(* One step may move many jobs: a revocation or a sweep.                   *)
(***************************************************************************)
CONSTANT Jobs

VARIABLES
    status,   \* status[j]: the status of job j
    killed    \* killed[j]: a revocation covering the grant of j has committed

vars == <<status, killed>>

Open    == {"staged", "pending", "claimed", "running"}
Results == {"succeeded", "failed"}

Moves(j, from, to) == status[j] = from /\ status'[j] = to

Same(j) == killed'[j] = killed[j]

\* The row is inserted without a look at the authority: its grant may be dead.
Stage(j)   == Moves(j, "none", "staged")
Publish(j) == ~killed[j] /\ Moves(j, "staged", "pending") /\ Same(j)
Take(j)    == ~killed[j] /\ Moves(j, "pending", "claimed") /\ Same(j)
Begin(j)   == ~killed[j] /\ Moves(j, "claimed", "running") /\ Same(j)
Finish(j)  == (\E r \in Results : Moves(j, "running", r)) /\ Same(j)
Abort(j)   == status[j] \in Open /\ status'[j] \in {"canceled", "expired"} /\ Same(j)

\* A revocation takes the job off the queue in the step that commits it, and
\* leaves running work and finished rows alone.
Kill(j) ==
    /\ status[j] # "none"
    /\ killed'[j] = TRUE
    /\ status'[j] = IF status[j] \in Open \ {"running"} THEN "canceled" ELSE status[j]

Rest(j) == status'[j] = status[j] /\ Same(j)

Step(j) == \/ Stage(j) \/ Publish(j) \/ Take(j) \/ Begin(j)
           \/ Finish(j) \/ Abort(j) \/ Kill(j) \/ Rest(j)

Init == status = [j \in Jobs |-> "none"] /\ killed = [j \in Jobs |-> FALSE]

Next == \A j \in Jobs : Step(j)

Spec == Init /\ [][Next]_vars

=============================================================================

------------------------------ MODULE AgentApi ------------------------------
(***************************************************************************)
(* The Agent API as its clients (the GitHub relay and the MCP adapter) meet *)
(* it: bootstrap, submit, job and request lookup, served by the Gateway    *)
(* over the Control Plane.  What the Control Plane decides is the subject  *)
(* of ControlPlane; here it is one step per call, keyed by request_id.     *)
(*                                                                         *)
(* The Gateway answers every failure of its own call to the Control Plane  *)
(* with the status of a refusal: 401 for a failed introspection, 403 for a *)
(* failed submission, 404 for a failed lookup.  Such an answer is "masked":*)
(* it says nothing about what the Control Plane did.  A submission whose   *)
(* answer is masked or lost stays on the wire and may still be committed,  *)
(* at any later time or never.                                             *)
(***************************************************************************)
EXTENDS Integers, FiniteSets

CONSTANTS
    Grants,     \* capabilities, each the bearer of one grant
    Requests,   \* request_id values
    Commands,   \* target, argv, reason and timeout of a command
    Risky,      \* the commands that need an operator's approval
    Barred,     \* the commands that the risk policy denies
    Permitted,  \* Permitted[g]: the commands on the targets of grant g that its
                \* permissions (exec, shell) admit
    Outcomes,   \* the terminal statuses a job may reach
    None,       \* the absent value
    MaxFaults   \* bound: failed calls, failed writes and crashes

Terminal == {"succeeded", "failed", "canceled", "expired"}

ASSUME ApiAssumption ==
    /\ Risky \subseteq Commands /\ Barred \subseteq Commands
    /\ Permitted \in [Grants -> SUBSET Commands]
    /\ Outcomes \subseteq Terminal
    /\ MaxFaults \in Nat
    /\ None \notin (Grants \cup Requests \cup Commands)

VARIABLES
    jobs,      \* jobs[g][r]: the job published for request r under grant g
    approval,  \* approval[g][c]: the operator's answer for command c
    live,      \* live[g]: introspection of the capability succeeds
    wire,      \* submissions whose answer was masked or lost
    masked,    \* history: the statuses that a failed call was answered with
    faults     \* failures so far

apiVars == <<jobs, approval, live, wire, masked, faults>>

Job == [command : Commands, status : {"staged", "pending"} \cup Terminal]

\* The absent value is not a job.
ASSUME JobAssumption == None \notin Job

ApiTypeOK ==
    /\ jobs \in [Grants -> [Requests -> Job \cup {None}]]
    /\ approval \in [Grants -> [Commands -> {"none", "pending", "allowed", "denied"}]]
    /\ live \in [Grants -> BOOLEAN]
    /\ wire \subseteq Grants \X Requests \X Commands
    /\ masked \subseteq {"401", "403", "404"}
    /\ faults \in 0..MaxFaults

ApiInit ==
    /\ jobs = [g \in Grants |-> [r \in Requests |-> None]]
    /\ approval = [g \in Grants |-> [c \in Commands |-> "none"]]
    /\ live = [g \in Grants |-> TRUE]
    /\ wire = {}
    /\ masked = {}
    /\ faults = 0

Fault == faults < MaxFaults /\ faults' = faults + 1

NoFault == UNCHANGED <<faults, masked>>

-----------------------------------------------------------------------------
(* The Control Plane behind the Gateway *)

\* What introspection of the capability finds.
Introspect(g) == live[g]

Approved(g, c) == c \notin Barred /\ (c \notin Risky \/ approval[g][c] = "allowed")

FaultKnownIsSpent(g, r, c) ==
    LET j == jobs[g][r] IN
    IF ~Introspect(g) THEN "401"
    ELSE IF c \notin Permitted[g] THEN "403"
    ELSE IF j # None
    THEN IF j.command # c \/ j.status \in Terminal \/ (j.status = "staged" /\ ~Approved(g, c))
         THEN "403" ELSE "accepted"
    ELSE IF Approved(g, c) THEN "accepted"
    ELSE IF c \in Barred \/ approval[g][c] = "denied" THEN "deny"
    ELSE "approval_required"

\* The answer to a submission.  The Gateway and the Control Plane refuse what the
\* grant does not permit.  A known request_id is answered from its job: it is
\* refused when it names another command or ended without running, and a staged
\* job is authorized now.
Decision(g, r, c) ==
    LET j == jobs[g][r] IN
    IF ~Introspect(g) THEN "401"
    ELSE IF c \notin Permitted[g] THEN "403"
    ELSE IF j # None
    THEN IF \/ j.command # c
            \/ j.status \in {"canceled", "expired"}
            \/ j.status = "staged" /\ ~Approved(g, c)
         THEN "403" ELSE "accepted"
    ELSE IF Approved(g, c) THEN "accepted"
    ELSE IF c \in Barred \/ approval[g][c] = "denied" THEN "deny"
    ELSE "approval_required"

Publishes(g, r, c) ==
    /\ Decision(g, r, c) = "accepted"
    /\ jobs[g][r] # None => jobs[g][r].status = "staged"

\* A staged job that cannot be authorized any more is cancelled with its refusal.
Rejects(g, r, c) ==
    LET j == jobs[g][r] IN
    /\ Introspect(g) /\ c \in Permitted[g]
    /\ j # None /\ j.command = c /\ j.status = "staged" /\ ~Approved(g, c)

\* What the submission commits: the job, and the approval it uses up or asks for.
Commit(g, r, c) ==
    /\ jobs' = IF Publishes(g, r, c)
               THEN [jobs EXCEPT ![g][r] = [command |-> c, status |-> "pending"]]
               ELSE IF Rejects(g, r, c)
               THEN [jobs EXCEPT ![g][r] = [command |-> c, status |-> "canceled"]]
               ELSE jobs
    /\ approval' =
         IF Publishes(g, r, c) /\ c \in Risky
         THEN [approval EXCEPT ![g][c] = "none"]
         ELSE IF Decision(g, r, c) = "approval_required"
         THEN [approval EXCEPT ![g][c] = "pending"]
         ELSE approval

\* The submission dies between staging the job and authorizing it.
StageOnly(g, r, c) ==
    /\ Publishes(g, r, c)
    /\ jobs[g][r] = None
    /\ jobs' = [jobs EXCEPT ![g][r] = [command |-> c, status |-> "staged"]]
    /\ UNCHANGED approval

\* A submission that its sender has given up reaches the Control Plane.  It may have
\* been sent, and given up, once for each failure.
Deliver ==
    \E m \in wire :
        /\ Commit(m[1], m[2], m[3]) \/ StageOnly(m[1], m[2], m[3])
        /\ wire' \in {wire \ {m}} \cup (IF faults > 1 THEN {wire} ELSE {})
        /\ UNCHANGED <<live, masked, faults>>

\* The operator decides an approval.
Decide(g, c) ==
    /\ approval[g][c] = "pending"
    /\ \E d \in {"allowed", "denied"} : approval' = [approval EXCEPT ![g][c] = d]
    /\ UNCHANGED <<jobs, live, wire, masked, faults>>

\* A worker runs the job, or its deadline or a revocation ends it.
EndJob(g, r) ==
    /\ jobs[g][r] # None
    /\ jobs[g][r].status = "pending"
    /\ \E s \in Outcomes : jobs' = [jobs EXCEPT ![g][r].status = s]
    /\ UNCHANGED <<approval, live, wire, masked, faults>>

\* The grant is revoked or expires.
EndGrant(g) ==
    /\ live[g]
    /\ live' = [live EXCEPT ![g] = FALSE]
    /\ UNCHANGED <<jobs, approval, wire, masked, faults>>

-----------------------------------------------------------------------------
(* Calls *)

\* The agent reads a job of its own grant, by job ID or by request_id.
JobView(g, r) == IF ~Introspect(g) THEN "401" ELSE IF jobs[g][r] = None THEN "404" ELSE "job"

\* Gateway and Control Plane fail to talk: the Gateway answers with a status
\* that a refusal would have.
Masked(status, reply) == Fault /\ reply = status /\ masked' = masked \cup {status}

\* The client gets no answer, or none that it can read.
Lost(reply) == Fault /\ reply = "lost" /\ UNCHANGED masked

\* POST /v1/commands/submit.
Submit(g, r, c, reply) ==
    \/ /\ reply = Decision(g, r, c)
       /\ Commit(g, r, c)
       /\ NoFault
       /\ UNCHANGED <<live, wire>>
    \/ /\ Masked("401", reply)
       /\ UNCHANGED <<jobs, approval, live, wire>>
    \/ /\ Masked("403", reply) \/ Lost(reply)
       /\ wire' = wire \cup {<<g, r, c>>}
       /\ UNCHANGED <<jobs, approval, live>>

\* GET /v1/bootstrap.
Bootstrap(g, reply) ==
    /\ \/ reply = (IF Introspect(g) THEN "ok" ELSE "401") /\ NoFault
       \/ Masked("401", reply)
       \/ Lost(reply)
    /\ UNCHANGED <<jobs, approval, live, wire>>

\* GET /v1/jobs/{id} and GET /v1/requests/{request_id}.
Lookup(g, r, reply) ==
    /\ \/ reply = JobView(g, r) /\ NoFault
       \/ Masked("401", reply) \/ Masked("404", reply)
       \/ Lost(reply)
    /\ UNCHANGED <<jobs, approval, live, wire>>

ApiNext ==
    \/ Deliver
    \/ \E g \in Grants, c \in Commands : Decide(g, c)
    \/ \E g \in Grants, r \in Requests : EndJob(g, r)

=============================================================================

---------------------------- MODULE ControlPlane ----------------------------
(***************************************************************************)
(* The Control Plane of Tethys Sentinel over its PostgreSQL repository:    *)
(* global authority (security epoch and kill switch), grants, one-time MCP *)
(* claims, operator approvals, command submission and the execution-job    *)
(* queue that workers consume.                                             *)
(*                                                                         *)
(* One action is one committed transaction, or one statement outside a     *)
(* transaction.  A transaction that fails rolls back and is a stuttering   *)
(* step.  Command submission is a handler of several transactions; it      *)
(* holds the process-wide executionMu, so one submission is in flight at a *)
(* time (variable sub) and it may die between any two of its steps.        *)
(* Row identifiers are numbered in creation order: created_at is the       *)
(* identifier.  Control and PostgreSQL share one clock.                    *)
(***************************************************************************)
EXTENDS Integers, FiniteSets

CONSTANTS
    Requests,      \* request_id values an agent may use
    Targets,       \* logical targets
    Commands,      \* argv values
    Workers,       \* worker processes; a claim secret is named by its receiver
    ScopeKeys,     \* (category, scope_key) pairs produced by risk.Classify
    ShellScopes,   \* those whose category is arbitrary code, launcher or remote exec
    Risk,          \* risk.Classify, a function on Commands
    GrantScopes,   \* permissions and targets an operator may grant
    GrantTTL,      \* lifetime of a grant, in ticks
    ClaimTTL,      \* lifetime of an MCP claim, in ticks
    JobTTLs,       \* execution timeouts an agent may request, in ticks
    MaxEpoch,      \* the largest epoch the column holds (math.MaxInt64)
    None,          \* the absent value
    \* bounds of the checked instance
    MaxGrants, MaxClaims, MaxApprovals, MaxJobs,
    MaxTime,       \* the clock stops here; nothing is issued that outlives it
    EpochBound     \* REVOKE ALL is exercised up to and including this epoch

GrantIds    == 1..MaxGrants
ClaimIds    == 1..MaxClaims
ApprovalIds == 1..MaxApprovals
JobIds      == 1..MaxJobs
Times       == 0..MaxTime
Epochs      == 0..MaxEpoch

RiskResult == [decision : {"allow", "approval_required", "deny"}, scope : ScopeKeys]

GrantScope == [exec : BOOLEAN, shell : BOOLEAN, targets : SUBSET Targets]

ASSUME BoundsAssumption ==
    /\ {MaxGrants, MaxClaims, MaxApprovals, MaxJobs, MaxTime, MaxEpoch, EpochBound} \subseteq Nat
    /\ GrantTTL \in Nat \ {0} /\ ClaimTTL \in Nat \ {0}
    /\ JobTTLs \subseteq Nat \ {0}

ASSUME DataAssumption ==
    /\ Risk \in [Commands -> RiskResult] /\ ShellScopes \subseteq ScopeKeys
    /\ GrantScopes \subseteq GrantScope /\ GrantScopes # {}
    /\ None \notin (Requests \cup Targets \cup Commands \cup Workers \cup ScopeKeys)

VARIABLES
    authority,  \* the authority_state row: epoch and kill switch
    now,        \* the clock
    grants,     \* the grants table
    claims,     \* the mcp_claims table
    approvals,  \* the approvals table
    jobs,       \* the execution_jobs table
    sub,        \* the submission holding executionMu
    polls,      \* workers whose claim request has passed the kill-switch guard
    audit,      \* the events ever appended, as <<kind, row>>
    dead        \* history: grants that a committed revocation has covered

vars == <<authority, now, grants, claims, approvals, jobs, sub, polls, audit, dead>>

-----------------------------------------------------------------------------
(* Rows *)

JobStatus  == {"none", "staged", "pending", "claimed", "running",
               "succeeded", "failed", "canceled", "expired"}
Terminal   == {"succeeded", "failed", "canceled", "expired"}
Held       == {"claimed", "running"}
Decisions  == {"deny", "allow_once", "allow_session"}

GrantRow == [issued : BOOLEAN, epoch : Epochs, expires : Times, revoked : BOOLEAN,
             scope : GrantScopes, claim : 0..MaxClaims]

ClaimRow == [status : {"none", "open", "used"}, epoch : Epochs, expires : Times,
             scope : GrantScopes]

ApprovalRow == [status : {"none", "pending", "decided", "consumed"},
                decision : Decisions \cup {None},
                grant : 0..MaxGrants, target : Targets \cup {None},
                scope : ScopeKeys \cup {None}, consumedBy : 0..MaxJobs]

JobRow == [status : JobStatus, grant : 0..MaxGrants, request : Requests \cup {None},
           target : Targets \cup {None}, command : Commands \cup {None},
           approval : 0..MaxApprovals, expires : Times, claim : Workers \cup {None}]

Submission == [pc : {"idle", "lookup", "match", "request", "enqueue", "authorize"},
               grant : 0..MaxGrants, request : Requests \cup {None},
               target : Targets \cup {None}, command : Commands \cup {None},
               approval : 0..MaxApprovals, job : 0..MaxJobs]

Idle == [pc |-> "idle", grant |-> 0, request |-> None, target |-> None,
         command |-> None, approval |-> 0, job |-> 0]

SomeScope == CHOOSE s \in GrantScopes : TRUE

TypeOK ==
    /\ authority \in [epoch : Epochs, disabled : BOOLEAN]
    /\ now \in Times
    /\ grants \in [GrantIds -> GrantRow]
    /\ claims \in [ClaimIds -> ClaimRow]
    /\ approvals \in [ApprovalIds -> ApprovalRow]
    /\ jobs \in [JobIds -> JobRow]
    /\ sub \in Submission
    /\ polls \subseteq Workers
    /\ dead \subseteq GrantIds

Init ==
    /\ authority = [epoch |-> 0, disabled |-> TRUE]
    /\ now = 0
    /\ grants = [g \in GrantIds |-> [issued |-> FALSE, epoch |-> 0, expires |-> 0,
                   revoked |-> FALSE, scope |-> SomeScope, claim |-> 0]]
    /\ claims = [c \in ClaimIds |-> [status |-> "none", epoch |-> 0, expires |-> 0,
                   scope |-> SomeScope]]
    /\ approvals = [a \in ApprovalIds |-> [status |-> "none", decision |-> None,
                   grant |-> 0, target |-> None, scope |-> None, consumedBy |-> 0]]
    /\ jobs = [j \in JobIds |-> [status |-> "none", grant |-> 0, request |-> None,
                   target |-> None, command |-> None, approval |-> 0, expires |-> 0,
                   claim |-> None]]
    /\ sub = Idle
    /\ polls = {}
    /\ audit = {}
    /\ dead = {}

-----------------------------------------------------------------------------
(* Authority.  A definition whose name starts with Fault is a deliberate       *)
(* error, used only to confirm that some property would notice it.             *)

FaultLiveAnyEpoch(g) ==
    ~authority.disabled /\ grants[g].issued /\ ~grants[g].revoked /\ now < grants[g].expires

FaultLiveIfRevoked(g) ==
    /\ ~authority.disabled /\ grants[g].issued
    /\ grants[g].epoch = authority.epoch /\ now < grants[g].expires

\* lockedGrantAuthority.allowed, and the checks of Repository.authenticate.
Live(g) ==
    /\ ~authority.disabled
    /\ grants[g].issued
    /\ grants[g].epoch = authority.epoch
    /\ ~grants[g].revoked
    /\ now < grants[g].expires

\* a.executionMu is free.
MutexFree == sub.pc = "idle"

FaultLeavesClaimed == {"staged", "pending"}

\* The states a revocation cancels; running work is left to its worker.
NotRunning == {"staged", "pending", "claimed"}

\* A row that reaches a terminal status loses its claim hash.
Ended(row, status) == [row EXCEPT !.status = status, !.claim = None]

CancelNotRunning(selected) ==
    jobs' = [j \in JobIds |-> IF j \in selected /\ jobs[j].status \in NotRunning
                              THEN Ended(jobs[j], "canceled") ELSE jobs[j]]

FaultEpochOverflows == authority.epoch + 1

\* At the largest epoch the kill switch is still thrown but the epoch cannot move.
NextEpoch == IF authority.epoch = MaxEpoch THEN authority.epoch ELSE authority.epoch + 1

\* REVOKE ALL: epoch, kill switch, queue cleanup and audit in one transaction.
RevokeAll ==
    /\ authority.epoch <= EpochBound
    /\ authority' = [epoch |-> NextEpoch, disabled |-> TRUE]
    /\ CancelNotRunning(JobIds)
    /\ audit' = audit \cup {<<"emergency.revoke_all", NextEpoch>>}
    /\ dead' = dead \cup {g \in GrantIds : grants[g].issued}
    /\ UNCHANGED <<now, grants, claims, approvals, sub, polls>>

Enable ==
    /\ authority.disabled
    /\ authority' = [authority EXCEPT !.disabled = FALSE]
    /\ audit' = audit \cup {<<"emergency.enable_requested", authority.epoch>>,
                            <<"emergency.enabled", authority.epoch>>}
    /\ UNCHANGED <<now, grants, claims, approvals, jobs, sub, polls, dead>>

-----------------------------------------------------------------------------
(* Grants and one-time MCP claims *)

NextGrant(g) == ~grants[g].issued /\ \A h \in GrantIds : h < g => grants[h].issued

InsertGrant(g, scope, claim) ==
    grants' = [grants EXCEPT ![g] =
        [issued |-> TRUE, epoch |-> authority.epoch, expires |-> now + GrantTTL,
         revoked |-> FALSE, scope |-> scope, claim |-> claim]]

IssueGrant(g, scope) ==
    /\ NextGrant(g)
    /\ ~authority.disabled
    /\ now + GrantTTL <= MaxTime
    /\ InsertGrant(g, scope, 0)
    /\ audit' = audit \cup {<<"grant.issued", g>>}
    /\ UNCHANGED <<authority, now, claims, approvals, jobs, sub, polls, dead>>

\* Works on an already revoked or stale grant as well; it then only cleans up.
RevokeGrant(g) ==
    /\ MutexFree
    /\ grants[g].issued
    /\ grants' = [grants EXCEPT ![g].revoked = TRUE]
    /\ CancelNotRunning({j \in JobIds : jobs[j].grant = g})
    /\ audit' = audit \cup {<<"grant.revoked", g>>}
    /\ dead' = dead \cup {g}
    /\ UNCHANGED <<authority, now, claims, approvals, sub, polls>>

\* ValidateIssueInput admits only claims that grant exec.
IssueClaim(c, scope) ==
    /\ claims[c].status = "none"
    /\ \A d \in ClaimIds : d < c => claims[d].status # "none"
    /\ scope.exec
    /\ ~authority.disabled
    /\ now + ClaimTTL <= MaxTime
    /\ claims' = [claims EXCEPT ![c] = [status |-> "open", epoch |-> authority.epoch,
                                        expires |-> now + ClaimTTL, scope |-> scope]]
    /\ audit' = audit \cup {<<"mcp.claim.issued", c>>}
    /\ UNCHANGED <<authority, now, grants, approvals, jobs, sub, polls, dead>>

FaultRedeemUsed(c) ==
    /\ ~authority.disabled /\ claims[c].status # "none"
    /\ now < claims[c].expires /\ claims[c].epoch = authority.epoch

Redeemable(c) ==
    /\ ~authority.disabled
    /\ claims[c].status = "open"
    /\ now < claims[c].expires
    /\ claims[c].epoch = authority.epoch

RedeemClaim(c, g) ==
    /\ Redeemable(c)
    /\ NextGrant(g)
    /\ now + GrantTTL <= MaxTime
    /\ InsertGrant(g, claims[c].scope, c)
    /\ claims' = [claims EXCEPT ![c].status = "used"]
    /\ audit' = audit \cup {<<"grant.issued", g>>, <<"mcp.claim.redeemed", c>>}
    /\ UNCHANGED <<authority, now, approvals, jobs, sub, polls, dead>>

-----------------------------------------------------------------------------
(* Operator decisions *)

FaultSessionForShell(scope) == TRUE

SessionApprovalAllowed(scope) == scope \notin ShellScopes

\* An approval can be refused at any time and granted only under a live grant.
Decide(a, decision) ==
    /\ approvals[a].status = "pending"
    /\ decision = "allow_session" => SessionApprovalAllowed(approvals[a].scope)
    /\ decision # "deny" => /\ Live(approvals[a].grant)
                            /\ grants[approvals[a].grant].scope.exec
    /\ approvals' = [approvals EXCEPT ![a] =
                       [@ EXCEPT !.status = "decided", !.decision = decision]]
    /\ audit' = audit \cup {<<"approval.decided", a>>}
    /\ UNCHANGED <<authority, now, grants, claims, jobs, sub, polls, dead>>

-----------------------------------------------------------------------------
(* Command submission: the steps of submitCommandWithOperations *)

SubRisk == Risk[sub.command]

Finish == sub' = Idle

\* Lock executionMu, authenticate the capability and check its scope.
SubmitCommand(g, r, t, c) ==
    /\ MutexFree
    /\ Live(g)
    /\ grants[g].scope.exec
    /\ t \in grants[g].scope.targets
    /\ sub' = [pc |-> "lookup", grant |-> g, request |-> r, target |-> t,
               command |-> c, approval |-> 0, job |-> 0]
    /\ UNCHANGED <<authority, now, grants, claims, approvals, jobs, polls, audit, dead>>

FaultForgetsEnded(g, r) == {j \in JobIds : /\ jobs[j].status \notin Terminal \cup {"none"}
                                           /\ jobs[j].grant = g /\ jobs[j].request = r}

\* The rows of the unique (grant_id, request_id).
ByRequest(g, r) == {j \in JobIds : /\ jobs[j].status # "none"
                                   /\ jobs[j].grant = g /\ jobs[j].request = r}

\* A known request_id is answered from its row, whatever became of it; only a
\* staged row of the same command continues.
AnswerFrom(j) ==
    IF /\ jobs[j].status = "staged"
       /\ jobs[j].target = sub.target /\ jobs[j].command = sub.command
    THEN sub' = [sub EXCEPT !.pc = "authorize", !.job = j]
    ELSE Finish

\* A new request_id is routed by its risk.
LookupRequest ==
    /\ sub.pc = "lookup"
    /\ \/ /\ \E j \in ByRequest(sub.grant, sub.request) : AnswerFrom(j)
          /\ UNCHANGED audit
       \/ /\ ByRequest(sub.grant, sub.request) = {}
          /\ \/ /\ SubRisk.decision = "deny"
                /\ audit' = audit \cup {<<"command.submission_denied", sub.grant>>}
                /\ Finish
             \/ /\ SubRisk.decision = "allow"
                /\ sub' = [sub EXCEPT !.pc = "enqueue"]
                /\ UNCHANGED audit
             \/ /\ SubRisk.decision = "approval_required"
                /\ sub' = [sub EXCEPT !.pc = "match"]
                /\ UNCHANGED audit
    /\ UNCHANGED <<authority, now, grants, claims, approvals, jobs, polls, dead>>

SameScope(a) == /\ approvals[a].grant = sub.grant
                /\ approvals[a].target = sub.target
                /\ approvals[a].scope = SubRisk.scope

\* What Match scans, newest first.
Matching == {a \in ApprovalIds :
    /\ approvals[a].status = "decided"
    /\ SameScope(a)
    /\ approvals[a].decision = "allow_session" => SessionApprovalAllowed(approvals[a].scope)}

MatchApproval ==
    /\ sub.pc = "match"
    /\ \/ /\ Matching = {}
          /\ sub' = [sub EXCEPT !.pc = "request"]
          /\ UNCHANGED audit
       \/ \E a \in Matching :
            /\ \A b \in Matching : b <= a
            /\ IF approvals[a].decision = "deny"
               THEN /\ audit' = audit \cup {<<"command.submission_denied", sub.grant>>}
                    /\ Finish
               ELSE /\ sub' = [sub EXCEPT !.pc = "enqueue", !.approval = a]
                    /\ UNCHANGED audit
    /\ UNCHANGED <<authority, now, grants, claims, approvals, jobs, polls, dead>>

PendingSameScope == {a \in ApprovalIds : approvals[a].status = "pending" /\ SameScope(a)}

\* The authority is checked again under row locks; a pending row of the same
\* scope is returned instead of a second one.
RequestApproval ==
    /\ sub.pc = "request"
    /\ Finish
    /\ \/ /\ ~(Live(sub.grant) /\ grants[sub.grant].scope.exec) \/ PendingSameScope # {}
          /\ UNCHANGED <<approvals, audit>>
       \/ /\ Live(sub.grant) /\ grants[sub.grant].scope.exec
          /\ PendingSameScope = {}
          /\ \E a \in ApprovalIds :
               /\ approvals[a].status = "none"
               /\ \A b \in ApprovalIds : b < a => approvals[b].status # "none"
               /\ approvals' = [approvals EXCEPT ![a] =
                     [status |-> "pending", decision |-> None, grant |-> sub.grant,
                      target |-> sub.target, scope |-> SubRisk.scope, consumedBy |-> 0]]
               /\ audit' = audit \cup {<<"approval.requested", a>>}
    /\ UNCHANGED <<authority, now, grants, claims, jobs, polls, dead>>

FaultOutlivesGrant(g, ttl) == IF now + ttl > MaxTime THEN MaxTime ELSE now + ttl

\* stageAndAuthorizeResponse: a job never outlives its grant.
Deadline(g, ttl) == IF grants[g].expires < now + ttl THEN grants[g].expires ELSE now + ttl

StageJob(j, ttl) ==
    /\ jobs[j].status = "none"
    /\ \A i \in JobIds : i < j => jobs[i].status # "none"
    /\ jobs' = [jobs EXCEPT ![j] =
          [status |-> "staged", grant |-> sub.grant, request |-> sub.request,
           target |-> sub.target, command |-> sub.command, approval |-> sub.approval,
           expires |-> Deadline(sub.grant, ttl), claim |-> None]]
    /\ sub' = [sub EXCEPT !.pc = "authorize", !.job = j]

\* The staged row is inserted without looking at the authority; Authorize does.
\* A deadline already reached violates CHECK (expires_at > created_at); a known
\* request_id meets ON CONFLICT DO NOTHING and is answered from its row.
Enqueue ==
    /\ sub.pc = "enqueue"
    /\ \E ttl \in JobTTLs :
         IF Deadline(sub.grant, ttl) <= now THEN Finish /\ UNCHANGED jobs
         ELSE IF ByRequest(sub.grant, sub.request) # {}
         THEN /\ \E j \in ByRequest(sub.grant, sub.request) : AnswerFrom(j)
              /\ UNCHANGED jobs
         ELSE \E j \in JobIds : StageJob(j, ttl)
    /\ UNCHANGED <<authority, now, grants, claims, approvals, polls, audit, dead>>

Admitted(j) == LET g == jobs[j].grant IN
    Live(g) /\ grants[g].scope.exec /\ jobs[j].target \in grants[g].scope.targets

FaultReusesConsumed(j) ==
    LET a == jobs[j].approval IN
    /\ a # 0
    /\ approvals[a].grant = jobs[j].grant
    /\ approvals[a].target = jobs[j].target
    /\ approvals[a].scope = Risk[jobs[j].command].scope
    /\ approvals[a].decision \in {"allow_once", "allow_session"}

\* The approval bound to a staged job still authorizes exactly that job.
ApprovalHolds(j) ==
    LET a == jobs[j].approval IN
    /\ a # 0
    /\ approvals[a].grant = jobs[j].grant
    /\ approvals[a].target = jobs[j].target
    /\ approvals[a].scope = Risk[jobs[j].command].scope
    /\ \/ /\ approvals[a].decision = "allow_session"
          /\ approvals[a].status = "decided"
          /\ SessionApprovalAllowed(approvals[a].scope)
       \/ /\ approvals[a].decision = "allow_once"
          /\ \/ approvals[a].status = "decided"
             \/ approvals[a].status = "consumed" /\ approvals[a].consumedBy = j

PolicyHolds(j) == LET decision == Risk[jobs[j].command].decision IN
    /\ decision # "deny"
    /\ decision = "approval_required" => ApprovalHolds(j)

Consume(j) == LET a == jobs[j].approval IN
    IF /\ Risk[jobs[j].command].decision = "approval_required"
       /\ approvals[a].decision = "allow_once"
    THEN approvals' = [approvals EXCEPT ![a] =
                          [@ EXCEPT !.status = "consumed", !.consumedBy = j]]
    ELSE UNCHANGED approvals

\* One transaction takes every decision again from the current rows, spends an
\* allow_once and publishes, or ends the staged job.
Authorize ==
    /\ sub.pc = "authorize"
    /\ Finish
    /\ LET j == sub.job IN
       \/ /\ jobs[j].status # "staged"
          /\ UNCHANGED <<jobs, approvals, audit>>
       \/ /\ jobs[j].status = "staged"
          /\ Admitted(j) /\ now < jobs[j].expires /\ PolicyHolds(j)
          /\ jobs' = [jobs EXCEPT ![j].status = "pending"]
          /\ Consume(j)
          /\ audit' = audit \cup {<<"execution.job_authorized", j>>}
       \/ /\ jobs[j].status = "staged"
          /\ ~(Admitted(j) /\ now < jobs[j].expires /\ PolicyHolds(j))
          /\ jobs' = [jobs EXCEPT ![j] = Ended(jobs[j],
                 IF Admitted(j) /\ now >= jobs[j].expires THEN "expired" ELSE "canceled")]
          /\ audit' = audit \cup {<<"execution.job_authorization_rejected", j>>}
          /\ UNCHANGED approvals
    /\ UNCHANGED <<authority, now, grants, claims, polls, dead>>

\* The request context is cancelled, the database fails or Control restarts.
AbandonSubmission ==
    /\ ~MutexFree
    /\ Finish
    /\ UNCHANGED <<authority, now, grants, claims, approvals, jobs, polls, audit, dead>>

-----------------------------------------------------------------------------
(* The execution queue *)

\* GuardWorkerEnabled reads the kill switch before the claim waits for executionMu.
GuardWorkerEnabled(w) ==
    /\ ~authority.disabled
    /\ w \notin polls
    /\ polls' = polls \cup {w}
    /\ UNCHANGED <<authority, now, grants, claims, approvals, jobs, sub, audit, dead>>

\* The worker hangs up, or Control restarts, while the claim waits.
LosePoll(w) ==
    /\ w \in polls
    /\ polls' = polls \ {w}
    /\ UNCHANGED <<authority, now, grants, claims, approvals, jobs, sub, audit, dead>>

FaultNeverExpiresRunning == {"pending", "claimed"}

Sweepable == {"pending", "claimed", "running"}

FaultRequeuesOverdue(j) ==
    IF jobs[j].status = "running" /\ jobs[j].expires <= now
    THEN [jobs[j] EXCEPT !.status = "pending", !.claim = None] ELSE jobs[j]

Swept(j) == IF jobs[j].status \in Sweepable /\ jobs[j].expires <= now
            THEN Ended(jobs[j], "expired") ELSE jobs[j]

Claimable == {j \in JobIds : jobs[j].status = "pending" /\ jobs[j].expires > now}

\* Every claim first expires overdue rows, then takes the oldest pending one.
\* SKIP LOCKED passes over a row only while REVOKE ALL, which then cancels it,
\* holds its lock.
Claim(w) ==
    /\ w \in polls
    /\ MutexFree
    /\ polls' = polls \ {w}
    /\ \/ /\ Claimable = {}
          /\ jobs' = [j \in JobIds |-> Swept(j)]
          /\ UNCHANGED audit
       \/ \E j \in Claimable :
            /\ \A i \in Claimable : j <= i
            /\ jobs' = [i \in JobIds |-> IF i = j
                          THEN [jobs[j] EXCEPT !.status = "claimed", !.claim = w]
                          ELSE Swept(i)]
            /\ audit' = audit \cup {<<"execution.job_claimed", j>>}
    /\ UNCHANGED <<authority, now, grants, claims, approvals, sub, dead>>

\* The grant is authenticated again; a stale one ends the job instead.
Start(w, j) ==
    /\ MutexFree
    /\ jobs[j].status = "claimed" /\ jobs[j].claim = w
    /\ \/ /\ ~Live(jobs[j].grant)
          /\ jobs' = [jobs EXCEPT ![j] = Ended(jobs[j], "canceled")]
          /\ audit' = audit \cup {<<"execution.job_rejected", j>>}
       \/ /\ Live(jobs[j].grant) /\ jobs[j].expires <= now
          /\ jobs' = [jobs EXCEPT ![j] = Ended(jobs[j], "expired")]
          /\ audit' = audit \cup {<<"execution.job_rejected", j>>}
       \/ /\ Live(jobs[j].grant) /\ now < jobs[j].expires
          /\ jobs' = [jobs EXCEPT ![j].status = "running"]
          /\ audit' = audit \cup {<<"execution.job_started", j>>}
    /\ UNCHANGED <<authority, now, grants, claims, approvals, sub, polls, dead>>

FaultCompletesClaimed(w, j, success) ==
    /\ jobs[j].status \in Held /\ jobs[j].claim = w
    /\ jobs' = [jobs EXCEPT ![j] = Ended(jobs[j], IF success THEN "succeeded" ELSE "failed")]
    /\ audit' = audit \cup {<<"execution.job_completed", j>>}
    /\ UNCHANGED <<authority, now, grants, claims, approvals, sub, polls, dead>>

\* Neither the authority nor the deadline is looked at: a result is a fact.
Complete(w, j, success) ==
    /\ jobs[j].status = "running" /\ jobs[j].claim = w
    /\ jobs' = [jobs EXCEPT ![j] = Ended(jobs[j], IF success THEN "succeeded" ELSE "failed")]
    /\ audit' = audit \cup {<<"execution.job_completed", j>>}
    /\ UNCHANGED <<authority, now, grants, claims, approvals, sub, polls, dead>>

\* A refused certificate request cancels the job its caller holds.  A claimed
\* job is refused only for being overdue, and that refusal is not audited.
RejectClaim(w, j) ==
    /\ jobs[j].status \in Held /\ jobs[j].claim = w
    /\ jobs[j].status = "claimed" => jobs[j].expires <= now
    /\ jobs' = [jobs EXCEPT ![j] = Ended(jobs[j], "canceled")]
    /\ \/ UNCHANGED audit
       \/ /\ jobs[j].status = "running"
          /\ audit' = audit \cup {<<"ssh.certificate_rejected", j>>}
    /\ UNCHANGED <<authority, now, grants, claims, approvals, sub, polls, dead>>

Tick ==
    /\ now < MaxTime
    /\ now' = now + 1
    /\ UNCHANGED <<authority, grants, claims, approvals, jobs, sub, polls, audit, dead>>

-----------------------------------------------------------------------------

SubmissionStep ==
    \/ LookupRequest
    \/ MatchApproval
    \/ RequestApproval
    \/ Enqueue
    \/ Authorize
    \/ AbandonSubmission

OperatorStep ==
    \/ RevokeAll
    \/ Enable
    \/ \E g \in GrantIds, s \in GrantScopes : IssueGrant(g, s)
    \/ \E g \in GrantIds : RevokeGrant(g)
    \/ \E c \in ClaimIds, s \in GrantScopes : IssueClaim(c, s)
    \/ \E a \in ApprovalIds, d \in Decisions : Decide(a, d)

AgentStep ==
    \/ \E c \in ClaimIds, g \in GrantIds : RedeemClaim(c, g)
    \/ \E g \in GrantIds, r \in Requests, t \in Targets, c \in Commands : SubmitCommand(g, r, t, c)

WorkerStep ==
    \E w \in Workers :
        \/ GuardWorkerEnabled(w)
        \/ LosePoll(w)
        \/ Claim(w)
        \/ \E j \in JobIds : \/ Start(w, j)
                             \/ \E success \in BOOLEAN : Complete(w, j, success)
                             \/ RejectClaim(w, j)

Next == OperatorStep \/ AgentStep \/ SubmissionStep \/ WorkerStep \/ Tick

Spec == Init /\ [][Next]_vars

\* The clock advances, a submission ends (its HTTP request has a deadline) and
\* the worker loop polls for ever; executionMu is a sync.Mutex, whose
\* starvation mode hands it to every waiter in turn.
Fairness ==
    /\ WF_vars(Tick)
    /\ WF_vars(SubmissionStep)
    /\ \A w \in Workers : WF_vars(GuardWorkerEnabled(w)) /\ SF_vars(Claim(w))

FairSpec == Spec /\ Fairness

-----------------------------------------------------------------------------
(* Properties *)

Authorized(j) == <<"execution.job_authorized", j>> \in audit

\* A job a worker may claim or start belongs to a grant that no committed
\* revocation covers: RevokeAll, Revoke and Enable leave no such row behind,
\* whatever submission or claim they overtake.
PublishedIsAuthorized ==
    \A j \in JobIds : jobs[j].status \in {"pending", "claimed"} =>
        LET g == jobs[j].grant IN
        /\ ~authority.disabled
        /\ g \in GrantIds /\ grants[g].issued /\ ~grants[g].revoked
        /\ grants[g].epoch = authority.epoch
        /\ grants[g].scope.exec /\ jobs[j].target \in grants[g].scope.targets

\* A grant covered by RevokeAll or Revoke never authenticates again, whatever is
\* enabled later ("every grant from the previous epoch remains permanently stale").
RevokedStayDead == \A g \in dead : ~Live(g)

\* Once a revocation of its grant has committed, a job that is not running never
\* starts: not from the queue, not from a claim, not from a retried submission.
RevokedNeverStart ==
    [][\A j \in JobIds : jobs'[j].grant \in dead /\ jobs[j].status # "running"
                            => jobs'[j].status # "running"]_vars

\* Every risky job that was ever authorized is bound to an approval of its own
\* grant, target and scope that the operator allowed: a session approval of a
\* category that permits one, or an allow_once spent on this very job.
ApprovalBinding ==
    \A j \in JobIds :
        Authorized(j) /\ Risk[jobs[j].command].decision = "approval_required" =>
            LET a == jobs[j].approval IN
            /\ a \in ApprovalIds
            /\ approvals[a].grant = jobs[j].grant
            /\ approvals[a].target = jobs[j].target
            /\ approvals[a].scope = Risk[jobs[j].command].scope
            /\ \/ /\ approvals[a].decision = "allow_once"
                  /\ approvals[a].status = "consumed" /\ approvals[a].consumedBy = j
               \/ /\ approvals[a].decision = "allow_session"
                  /\ approvals[a].status = "decided"
                  /\ approvals[a].scope \notin ShellScopes

\* An allow_once decision authorizes at most one job, over all retries, crashes
\* between Enqueue and Authorize, and requests that matched it at the same time.
AllowOnceSpentOnce ==
    \A i, j \in JobIds :
        /\ Authorized(i) /\ Authorized(j)
        /\ jobs[i].approval = jobs[j].approval
        /\ jobs[i].approval \in ApprovalIds
        /\ approvals[jobs[i].approval].decision = "allow_once"
        => i = j

\* A request_id of a grant names one job for ever, so a repeated submission is
\* answered from that job and runs nothing again.
OneJobPerRequest ==
    \A i, j \in JobIds :
        /\ jobs[i].status # "none" /\ jobs[j].status # "none"
        /\ jobs[i].grant = jobs[j].grant /\ jobs[i].request = jobs[j].request
        => i = j

\* A job's deadline, which becomes the end of its SSH certificate, lies within
\* the life of its grant.
JobWithinGrant ==
    \A j \in JobIds : jobs[j].status # "none" =>
        jobs[j].grant \in GrantIds /\ jobs[j].expires <= grants[jobs[j].grant].expires

\* One MCP claim yields one grant, with the claim's scope, in the security epoch
\* the claim was issued in.
ClaimYieldsOneGrant ==
    \A g \in GrantIds : grants[g].claim # 0 =>
        LET c == grants[g].claim IN
        /\ claims[c].status = "used"
        /\ grants[g].epoch = claims[c].epoch /\ grants[g].scope = claims[c].scope
        /\ \A h \in GrantIds : grants[h].claim = c => h = g

\* The audit trail and the job table tell one story: work runs only after it was
\* authorized, claimed and started, a completion is recorded exactly for the rows
\* that carry a result, and no completed job was also rejected.
AuditMatchesJobs ==
    \A j \in JobIds :
        /\ jobs[j].status \in {"pending", "claimed", "running", "succeeded", "failed"}
             => Authorized(j)
        /\ jobs[j].status \in {"claimed", "running", "succeeded", "failed"}
             => <<"execution.job_claimed", j>> \in audit
        /\ jobs[j].status \in {"running", "succeeded", "failed"}
             => <<"execution.job_started", j>> \in audit
        /\ <<"execution.job_completed", j>> \in audit <=> jobs[j].status \in {"succeeded", "failed"}
        /\ <<"execution.job_completed", j>> \in audit =>
             /\ <<"execution.job_rejected", j>> \notin audit
             /\ <<"execution.job_authorization_rejected", j>> \notin audit

\* While global access keeps coming back, no published job stays open for ever:
\* it is run to a result, cancelled, or expired by the sweep of some later claim,
\* even if its worker never returns.
PublishedWorkEnds ==
    []<>(~authority.disabled) =>
        \A j \in JobIds : (jobs[j].status \in {"pending", "claimed", "running"})
                             ~> (jobs[j].status \in Terminal)

Lifecycle == INSTANCE JobLifecycle
             WITH Jobs   <- JobIds,
                  status <- [j \in JobIds |-> jobs[j].status],
                  killed <- [j \in JobIds |-> jobs[j].grant \in dead]

\* The job table implements the abstract life cycle of JobLifecycle.
JobsFollowLifecycle == Lifecycle!Spec

=============================================================================

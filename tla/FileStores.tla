----------------------------- MODULE FileStores -----------------------------
(***************************************************************************)
(* The Control Plane in file mode.  Every store is a map in memory and one *)
(* JSON file that is replaced by rename under the store's own mutex, and a *)
(* handler updates several stores and the audit log one after the other:   *)
(* there is no transaction.  Any write may fail, the process may die       *)
(* between any two of them, and a restart reads the files back.            *)
(*                                                                         *)
(* One action is one call of a store or of the audit log.  op is the       *)
(* handler that holds executionMu (submit, claim, start, revoke); adm[o]   *)
(* is the request of operator o, none of which takes that mutex: two       *)
(* operators may revoke, enable, issue and decide at the same time.  A     *)
(* command names its target.  Time is the set of deadlines that passed.    *)
(***************************************************************************)
EXTENDS Integers, FiniteSets

CONSTANTS
    Requests,      \* request_id values an agent may use
    Commands,      \* argv values, each with its target
    Operators,     \* concurrent operator requests
    ScopeKeys,     \* (category, scope_key) pairs produced by risk.Classify
    ShellScopes,   \* those that may not be approved for a session
    Risk,          \* risk.Classify, a function on Commands
    MaxEpoch,      \* the largest epoch (math.MaxUint64)
    None,          \* the absent value
    \* bounds of the checked instance
    MaxGrants, MaxApprovals, MaxJobs,
    EpochBound,    \* REVOKE ALL is exercised below this epoch
    MaxFaults      \* failed writes and crashes

GrantIds    == 1..MaxGrants
ApprovalIds == 1..MaxApprovals
JobIds      == 1..MaxJobs
Epochs      == 0..MaxEpoch

RiskResult == [decision : {"allow", "approval_required", "deny"}, scope : ScopeKeys]

ASSUME FileBounds ==
    {MaxGrants, MaxApprovals, MaxJobs, MaxEpoch, EpochBound, MaxFaults} \subseteq Nat

ASSUME FileData ==
    /\ Risk \in [Commands -> RiskResult] /\ ShellScopes \subseteq ScopeKeys
    /\ None \notin (Requests \cup Commands \cup ScopeKeys)

VARIABLES
    mem,        \* the stores as the process sees them
    disk,       \* the stores as their files hold them
    op,         \* the handler that holds executionMu
    adm,        \* adm[o]: the request of operator o
    poll,       \* a worker's claim has passed the kill-switch guard
    holds,      \* jobs whose claim token a worker received
    told,       \* jobs whose start was confirmed to the worker
    report,     \* report[j]: the completion of job j that is being handled
    past,       \* the grants and jobs whose deadline has passed
    audit,      \* the remembered events of the log, as <<kind, row>>
    published,  \* history: jobs that were ever pending
    dead,       \* history: grants covered by a revocation that was confirmed
    faults      \* failed writes and crashes so far

vars == <<mem, disk, op, adm, poll, holds, told, report, past, audit,
          published, dead, faults>>

-----------------------------------------------------------------------------
(* State *)

JobStatus == {"none", "staged", "pending", "claimed", "running",
              "succeeded", "failed", "canceled", "expired"}
Held      == {"claimed", "running"}
Decisions == {"deny", "allow_once", "allow_session"}

AuthorityRow == [epoch : Epochs, disabled : BOOLEAN]

GrantRow == [issued : BOOLEAN, epoch : Epochs, revoked : BOOLEAN]

ApprovalRow == [status : {"none", "pending", "decided", "consumed"},
                decision : Decisions \cup {None},
                grant : 0..MaxGrants, scope : ScopeKeys \cup {None}]

JobRow == [status : JobStatus, grant : 0..MaxGrants, request : Requests \cup {None},
           command : Commands \cup {None}, approval : 0..MaxApprovals,
           output : BOOLEAN]  \* the result was reported with an output

Report == [pc : {"none", "complete", "log"}, output : BOOLEAN]

NoReport == [pc |-> "none", output |-> FALSE]

Stores == [authority : AuthorityRow, grants : [GrantIds -> GrantRow],
           approvals : [ApprovalIds -> ApprovalRow], jobs : [JobIds -> JobRow],
           outputs : SUBSET JobIds]

OpPC == {"idle", "lookup", "match", "request", "enqueue", "authenticate", "approve",
         "authorize", "consume", "publish", "cancel", "claimed", "reject", "start",
         "started", "unqueue", "revoked", "denied", "requested", "rejected"}

Handler == [pc : OpPC, grant : 0..MaxGrants, request : Requests \cup {None},
            command : Commands \cup {None}, approval : 0..MaxApprovals,
            job : 0..MaxJobs, failed : BOOLEAN]

Idle == [pc |-> "idle", grant |-> 0, request |-> None, command |-> None,
         approval |-> 0, job |-> 0, failed |-> FALSE]

AdminPC == {"idle", "create", "issued", "undo", "queue", "revoked", "enable",
            "enabled", "fallback", "decided"}

Admin == [pc : AdminPC, epoch : Epochs, row : Nat, failed : BOOLEAN, auto : BOOLEAN]

Resting == [pc |-> "idle", epoch |-> 0, row |-> 0, failed |-> FALSE, auto |-> FALSE]

\* The events that something else depends on; of the others only the success or
\* failure matters to the handler that appends them.
Remembered == {"grant.issued", "emergency.enable_requested", "execution.job_authorized",
               "execution.job_claimed", "execution.job_started"}

TypeOK ==
    /\ mem \in Stores /\ disk \in Stores
    /\ op \in Handler /\ adm \in [Operators -> Admin]
    /\ poll \in BOOLEAN
    /\ {holds, told, published} \subseteq SUBSET JobIds
    /\ report \in [JobIds -> Report]
    /\ past \in [grants : SUBSET GrantIds, jobs : SUBSET JobIds]
    /\ audit \subseteq Remembered \X Nat
    /\ dead \subseteq GrantIds
    /\ faults \in 0..MaxFaults

\* No file exists: every store opens empty and, unlike the schema's row, the
\* emergency state opens enabled.
Empty ==
    [authority |-> [epoch |-> 0, disabled |-> FALSE],
     grants    |-> [g \in GrantIds |-> [issued |-> FALSE, epoch |-> 0, revoked |-> FALSE]],
     approvals |-> [a \in ApprovalIds |-> [status |-> "none", decision |-> None,
                                           grant |-> 0, scope |-> None]],
     jobs      |-> [j \in JobIds |-> [status |-> "none", grant |-> 0, request |-> None,
                                      command |-> None, approval |-> 0, output |-> FALSE]],
     outputs   |-> {}]

Init ==
    /\ mem = Empty /\ disk = Empty
    /\ op = Idle /\ adm = [o \in Operators |-> Resting]
    /\ poll = FALSE
    /\ holds = {} /\ told = {} /\ report = [j \in JobIds |-> NoReport]
    /\ past = [grants |-> {}, jobs |-> {}]
    /\ audit = {} /\ published = {} /\ dead = {}
    /\ faults = 0

-----------------------------------------------------------------------------
(* Stores.  A definition whose name starts with Fault is a deliberate error,   *)
(* used only to confirm that some property would notice it.                    *)

Try(ok) == /\ ok \/ faults < MaxFaults
           /\ faults' = IF ok THEN faults ELSE faults + 1

FaultNoRollback(store, value, ok) ==
    /\ mem'  = [mem EXCEPT ![store] = value]
    /\ disk' = IF ok THEN [disk EXCEPT ![store] = value] ELSE disk

\* A store changes its map, rewrites its file, and undoes the change when the
\* write fails.
Persist(store, value, ok) ==
    /\ mem'  = IF ok THEN [mem EXCEPT ![store] = value] ELSE mem
    /\ disk' = IF ok THEN [disk EXCEPT ![store] = value] ELSE disk

SaveJobs(value, ok)      == Try(ok) /\ Persist("jobs", value, ok)
SaveApprovals(value, ok) == Try(ok) /\ Persist("approvals", value, ok)
SaveGrants(value, ok)    == Try(ok) /\ Persist("grants", value, ok)
SaveOutputs(value, ok)   == Try(ok) /\ Persist("outputs", value, ok)

\* The kill switch alone stays thrown in memory when its file cannot be written.
SaveSwitch(value, ok) ==
    /\ Try(ok)
    /\ mem'  = [mem EXCEPT !.authority = value]
    /\ disk' = IF ok THEN [disk EXCEPT !.authority = value] ELSE disk

FaultKeepsEnabled(value, ok) ==
    /\ Try(ok)
    /\ mem'  = [mem EXCEPT !.authority = value]
    /\ disk' = IF ok THEN [disk EXCEPT !.authority = value] ELSE disk

SaveEnable(value, ok) == Try(ok) /\ Persist("authority", value, ok)

Append(kind, row, ok) ==
    /\ Try(ok)
    /\ audit' = IF ok /\ kind \in Remembered THEN audit \cup {<<kind, row>>} ELSE audit

OpenJobs      == disk.jobs
OpenApprovals == disk.approvals
OpenGrants    == disk.grants
OpenOutputs   == disk.outputs
OpenEmergency == disk.authority

\* The process dies and is started again; workers keep what they were told.
Restart ==
    /\ faults < MaxFaults /\ faults' = faults + 1
    /\ mem' = [authority |-> OpenEmergency, grants |-> OpenGrants,
               approvals |-> OpenApprovals, jobs |-> OpenJobs, outputs |-> OpenOutputs]
    /\ op' = Idle /\ adm' = [o \in Operators |-> Resting]
    /\ poll' = FALSE /\ report' = [j \in JobIds |-> NoReport]
    /\ UNCHANGED <<disk, holds, told, past, audit, published, dead>>

\* legacyBackend.authenticateGrant
Live(g) ==
    /\ ~mem.authority.disabled
    /\ g \in GrantIds /\ mem.grants[g].issued
    /\ mem.grants[g].epoch = mem.authority.epoch
    /\ ~mem.grants[g].revoked
    /\ g \notin past.grants

WithStatus(jobs, selected, status) ==
    [j \in JobIds |-> IF j \in selected THEN [jobs[j] EXCEPT !.status = status] ELSE jobs[j]]

JobsIn(statuses) == {j \in JobIds : mem.jobs[j].status \in statuses}

\* A grant ends, and with it, at the latest, the jobs it carries.
GrantLapses(g) ==
    /\ mem.grants[g].issued /\ g \notin past.grants
    /\ past' = [grants |-> past.grants \cup {g},
                jobs   |-> past.jobs \cup {j \in JobIds : mem.jobs[j].grant = g}]
    /\ UNCHANGED <<mem, disk, op, adm, poll, holds, told, report, audit, published, dead, faults>>

JobLapses(j) ==
    /\ mem.jobs[j].status # "none" /\ j \notin past.jobs
    /\ past' = [past EXCEPT !.jobs = @ \cup {j}]
    /\ UNCHANGED <<mem, disk, op, adm, poll, holds, told, report, audit, published, dead, faults>>

-----------------------------------------------------------------------------
(* Emergency controls: legacyController over emergency.Store *)

AdminFrame == UNCHANGED <<op, poll, holds, told, report, past, published>>

Step(o, pc)  == adm' = [adm EXCEPT ![o].pc = pc]
Done(o)      == adm' = [adm EXCEPT ![o] = Resting]

Exhausted == mem.authority.epoch = MaxEpoch

FaultEpochOverflows == [epoch |-> mem.authority.epoch + 1, disabled |-> TRUE]

Killed == [epoch |-> IF Exhausted THEN MaxEpoch ELSE mem.authority.epoch + 1, disabled |-> TRUE]

\* REVOKE ALL first throws the switch, whatever becomes of its file.  auto marks
\* the fallback of an Enable that could not be audited, whose answer is an error.
ThrowSwitch(o, ok) ==
    /\ mem.authority.epoch < EpochBound
    /\ \/ adm[o].pc = "idle"
       \/ adm[o].pc = "fallback"
    /\ SaveSwitch(Killed, ok)
    /\ adm' = [adm EXCEPT ![o] = [pc |-> "queue", epoch |-> Killed.epoch, row |-> 0,
                                  failed |-> ~ok \/ Exhausted, auto |-> adm[o].pc = "fallback"]]
    /\ AdminFrame /\ UNCHANGED <<audit, dead>>

FaultLeavesClaimed == {"staged", "pending"}

NotRunning == {"staged", "pending", "claimed"}

CancelNotRunningAll(o, ok) ==
    /\ adm[o].pc = "queue"
    /\ \/ /\ JobsIn(NotRunning) # {}
          /\ SaveJobs(WithStatus(mem.jobs, JobsIn(NotRunning), "canceled"), ok)
       \/ /\ JobsIn(NotRunning) = {} /\ ok
          /\ UNCHANGED <<mem, disk, faults>>
    /\ adm' = [adm EXCEPT ![o].pc = "revoked", ![o].failed = @ \/ ~ok]
    /\ AdminFrame /\ UNCHANGED <<audit, dead>>

\* The revocation is confirmed only if nothing failed on the way.
RevokeAllAnswers(o, ok) ==
    /\ adm[o].pc = "revoked"
    /\ Append(IF adm[o].auto THEN "emergency.enable_failed_closed" ELSE "emergency.revoke_all",
              adm[o].epoch, ok)
    /\ dead' = IF ok /\ ~adm[o].failed /\ ~adm[o].auto
               THEN dead \cup {g \in GrantIds : /\ mem.grants[g].issued
                                                /\ mem.grants[g].epoch < adm[o].epoch}
               ELSE dead
    /\ Done(o)
    /\ AdminFrame /\ UNCHANGED <<mem, disk>>

FaultEnableUnlogged(o, ok) ==
    /\ adm[o].pc = "idle" /\ mem.authority.disabled
    /\ Append("emergency.enable_requested", mem.authority.epoch, ok)
    /\ adm' = [adm EXCEPT ![o].pc = "enable", ![o].epoch = mem.authority.epoch]
    /\ AdminFrame /\ UNCHANGED <<mem, disk, dead>>

\* Enable looks at the switch and logs the request before it touches the state.
RequestEnable(o, ok) ==
    /\ adm[o].pc = "idle" /\ mem.authority.disabled
    /\ Append("emergency.enable_requested", mem.authority.epoch, ok)
    /\ adm' = IF ok THEN [adm EXCEPT ![o].pc = "enable", ![o].epoch = mem.authority.epoch]
              ELSE adm
    /\ AdminFrame /\ UNCHANGED <<mem, disk, dead>>

\* emergency.Store.Enable does not look at the switch again: a REVOKE ALL that
\* came in between is undone, in its new epoch.
Enable(o, ok) ==
    /\ adm[o].pc = "enable"
    /\ \/ /\ Exhausted /\ ok
          /\ Done(o) /\ UNCHANGED <<mem, disk, faults>>
       \/ /\ ~Exhausted
          /\ SaveEnable([mem.authority EXCEPT !.disabled = FALSE], ok)
          /\ IF ok THEN adm' = [adm EXCEPT ![o].pc = "enabled", ![o].epoch = mem.authority.epoch]
                   ELSE Done(o)
    /\ AdminFrame /\ UNCHANGED <<audit, dead>>

EnableAnswers(o, ok) ==
    /\ adm[o].pc = "enabled"
    /\ Append("emergency.enabled", adm[o].epoch, ok)
    /\ IF ok THEN Done(o) ELSE Step(o, "fallback")
    /\ AdminFrame /\ UNCHANGED <<mem, disk, dead>>

-----------------------------------------------------------------------------
(* Grants and decisions: LegacyGrantLifecycle and LegacyApprovalLifecycle *)

\* IssueGrant takes its epoch from a snapshot and creates the grant later.
IssueGrant(o) ==
    /\ adm[o].pc = "idle" /\ ~mem.authority.disabled
    /\ Cardinality({g \in GrantIds : ~mem.grants[g].issued})
         > Cardinality({p \in Operators : adm[p].pc = "create"})
    /\ adm' = [adm EXCEPT ![o].pc = "create", ![o].epoch = mem.authority.epoch]
    /\ AdminFrame /\ UNCHANGED <<mem, disk, audit, dead, faults>>

CreateGrant(o, g, ok) ==
    /\ adm[o].pc = "create"
    /\ ~mem.grants[g].issued /\ \A h \in GrantIds : h < g => mem.grants[h].issued
    /\ SaveGrants([mem.grants EXCEPT ![g] =
                     [issued |-> TRUE, epoch |-> adm[o].epoch, revoked |-> FALSE]], ok)
    /\ IF ok THEN adm' = [adm EXCEPT ![o].pc = "issued", ![o].row = g] ELSE Done(o)
    /\ AdminFrame /\ UNCHANGED <<audit, dead>>

IssueAnswers(o, ok) ==
    /\ adm[o].pc = "issued"
    /\ Append("grant.issued", adm[o].row, ok)
    /\ IF ok THEN Done(o) ELSE Step(o, "undo")
    /\ AdminFrame /\ UNCHANGED <<mem, disk, dead>>

\* A grant that could not be logged is revoked again, if that can be written.
UndoIssue(o, ok) ==
    /\ adm[o].pc = "undo"
    /\ SaveGrants([mem.grants EXCEPT ![adm[o].row].revoked = TRUE], ok)
    /\ Done(o)
    /\ AdminFrame /\ UNCHANGED <<audit, dead>>

SessionApprovalAllowed(scope) == scope \notin ShellScopes

\* In file mode the grant is not consulted.
Decide(o, a, decision, ok) ==
    /\ adm[o].pc = "idle"
    /\ mem.approvals[a].status = "pending"
    /\ decision = "allow_session" => SessionApprovalAllowed(mem.approvals[a].scope)
    /\ SaveApprovals([mem.approvals EXCEPT ![a] =
                        [@ EXCEPT !.status = "decided", !.decision = decision]], ok)
    /\ IF ok THEN adm' = [adm EXCEPT ![o].pc = "decided", ![o].row = a] ELSE UNCHANGED adm
    /\ AdminFrame /\ UNCHANGED <<audit, dead>>

DecideAnswers(o, ok) ==
    /\ adm[o].pc = "decided"
    /\ Append("approval.decided", adm[o].row, ok)
    /\ Done(o)
    /\ AdminFrame /\ UNCHANGED <<mem, disk, dead>>

-----------------------------------------------------------------------------
(* Command submission: submitCommandWithOperations and LegacyJobAuthorizer *)

MutexFree == op.pc = "idle"

Goto(pc) == op' = [op EXCEPT !.pc = pc]
Finish   == op' = Idle

OpFrame == UNCHANGED <<adm, poll, report, past>>

OpRisk == Risk[op.command]

\* The token of a grant is returned after its issue has been logged.
TokenReturned(g) == <<"grant.issued", g>> \in audit

ByRequest(g, r) == {j \in JobIds : /\ mem.jobs[j].status # "none"
                                   /\ mem.jobs[j].grant = g /\ mem.jobs[j].request = r}

SubmitCommand(g, r, c) ==
    /\ MutexFree
    /\ ByRequest(g, r) # {} \/ JobsIn({"none"}) # {}
    /\ TokenReturned(g) /\ Live(g)
    /\ op' = [Idle EXCEPT !.pc = "lookup", !.grant = g, !.request = r, !.command = c]
    /\ OpFrame /\ UNCHANGED <<mem, disk, holds, told, audit, published, dead, faults>>

AnswerFrom(j) ==
    IF mem.jobs[j].status = "staged" /\ mem.jobs[j].command = op.command
    THEN op' = [op EXCEPT !.pc = "authenticate", !.job = j]
    ELSE Finish

Route == Goto(CASE OpRisk.decision = "deny"  -> "denied"
                [] OpRisk.decision = "allow" -> "enqueue"
                [] OTHER                     -> "match")

LookupRequest ==
    /\ op.pc = "lookup"
    /\ IF ByRequest(op.grant, op.request) = {} THEN Route
       ELSE \E j \in ByRequest(op.grant, op.request) : AnswerFrom(j)
    /\ OpFrame /\ UNCHANGED <<mem, disk, holds, told, audit, published, dead, faults>>

SameScope(a) == mem.approvals[a].grant = op.grant /\ mem.approvals[a].scope = OpRisk.scope

Matching == {a \in ApprovalIds :
    /\ mem.approvals[a].status = "decided" /\ SameScope(a)
    /\ mem.approvals[a].decision = "allow_session"
         => SessionApprovalAllowed(mem.approvals[a].scope)}

\* The newest decision of the scope, in creation order.
MatchApproval ==
    /\ op.pc = "match"
    /\ \/ Matching = {} /\ Goto("request")
       \/ \E a \in Matching :
            /\ \A b \in Matching : b <= a
            /\ IF mem.approvals[a].decision = "deny" THEN Goto("denied")
               ELSE op' = [op EXCEPT !.pc = "enqueue", !.approval = a]
    /\ OpFrame /\ UNCHANGED <<mem, disk, holds, told, audit, published, dead, faults>>

PendingSameScope == {a \in ApprovalIds : mem.approvals[a].status = "pending" /\ SameScope(a)}

RequestApproval(ok) ==
    /\ op.pc = "request"
    /\ \/ /\ \/ PendingSameScope # {}
             \/ \A a \in ApprovalIds : mem.approvals[a].status # "none"  \* no row left
          /\ ok
          /\ Finish /\ UNCHANGED <<mem, disk, faults>>
       \/ /\ PendingSameScope = {}
          /\ \E a \in ApprovalIds :
               /\ mem.approvals[a].status = "none"
               /\ \A b \in ApprovalIds : b < a => mem.approvals[b].status # "none"
               /\ SaveApprovals([mem.approvals EXCEPT ![a] =
                     [status |-> "pending", decision |-> None, grant |-> op.grant,
                      scope |-> OpRisk.scope]], ok)
               /\ IF ok THEN op' = [op EXCEPT !.pc = "requested", !.approval = a] ELSE Finish
    /\ OpFrame /\ UNCHANGED <<holds, told, audit, published, dead>>

\* Events that end a handler: a failure to append is only reported.
LogAndFinish(ok) ==
    /\ \/ op.pc = "denied"    /\ Append("command.submission_denied", op.grant, ok)
       \/ op.pc = "requested" /\ Append("approval.requested", op.approval, ok)
       \/ op.pc = "rejected"  /\ Append("execution.job_rejected", op.job, ok)
    /\ Finish
    /\ OpFrame /\ UNCHANGED <<mem, disk, holds, told, published, dead>>

Enqueue(j, ok) ==
    /\ op.pc = "enqueue"
    /\ ByRequest(op.grant, op.request) = {}
    /\ mem.jobs[j].status = "none"
    /\ \A i \in JobIds : i < j => mem.jobs[i].status # "none"
    /\ SaveJobs([mem.jobs EXCEPT ![j] =
          [status |-> "staged", grant |-> op.grant, request |-> op.request,
           command |-> op.command, approval |-> op.approval, output |-> FALSE]], ok)
    /\ IF ok THEN op' = [op EXCEPT !.pc = "authenticate", !.job = j] ELSE Finish
    /\ past' = IF ok /\ op.grant \in past.grants
               THEN [past EXCEPT !.jobs = @ \cup {j}] ELSE past
    /\ UNCHANGED <<adm, poll, report, holds, told, audit, published, dead>>

\* The staged row is read, then the grant is authenticated again.
Authenticate ==
    /\ op.pc = "authenticate"
    /\ IF mem.jobs[op.job].status # "staged" THEN Finish
       ELSE IF ~Live(mem.jobs[op.job].grant) THEN Goto("cancel")
       ELSE Goto("approve")
    /\ OpFrame /\ UNCHANGED <<mem, disk, holds, told, audit, published, dead, faults>>

FaultAcceptsConsumed(a) ==
    \/ mem.approvals[a].decision = "allow_once"
    \/ /\ mem.approvals[a].decision = "allow_session"
       /\ mem.approvals[a].status = "decided"
       /\ SessionApprovalAllowed(mem.approvals[a].scope)

\* Nothing on disk says which job consumed an allow_once: a consumed one is
\* refused, even to the job that consumed it.
Usable(a) ==
    /\ mem.approvals[a].status = "decided"
    /\ \/ mem.approvals[a].decision = "allow_once"
       \/ /\ mem.approvals[a].decision = "allow_session"
          /\ SessionApprovalAllowed(mem.approvals[a].scope)

ApprovalHolds(j) ==
    LET a == mem.jobs[j].approval IN
    /\ a # 0
    /\ mem.approvals[a].grant = mem.jobs[j].grant
    /\ mem.approvals[a].scope = Risk[mem.jobs[j].command].scope
    /\ Usable(a)

Approve ==
    /\ op.pc = "approve"
    /\ LET decision == Risk[mem.jobs[op.job].command].decision IN
       Goto(IF decision = "allow" \/ (decision = "approval_required" /\ ApprovalHolds(op.job))
            THEN "authorize" ELSE "cancel")
    /\ OpFrame /\ UNCHANGED <<mem, disk, holds, told, audit, published, dead, faults>>

NeedsConsumption(j) ==
    LET a == mem.jobs[j].approval IN
    /\ Risk[mem.jobs[j].command].decision = "approval_required"
    /\ mem.approvals[a].decision = "allow_once"

AuthorizeLogged(ok) ==
    /\ op.pc = "authorize"
    /\ Append("execution.job_authorized", op.job, ok)
    /\ Goto(IF ~ok THEN "cancel" ELSE IF NeedsConsumption(op.job) THEN "consume" ELSE "publish")
    /\ OpFrame /\ UNCHANGED <<mem, disk, holds, told, published, dead>>

\* Consuming twice is a success.
ConsumeAllowOnce(ok) ==
    /\ op.pc = "consume"
    /\ LET a == mem.jobs[op.job].approval IN
       SaveApprovals([mem.approvals EXCEPT ![a].status = "consumed"], ok)
    /\ Goto(IF ok THEN "publish" ELSE "cancel")
    /\ OpFrame /\ UNCHANGED <<holds, told, audit, published, dead>>

Publish(ok) ==
    /\ op.pc = "publish"
    /\ LET j == op.job IN
       \/ /\ mem.jobs[j].status # "staged" /\ ok
          /\ Goto("cancel") /\ UNCHANGED <<mem, disk, faults, published>>
       \/ /\ mem.jobs[j].status = "staged"
          /\ SaveJobs(WithStatus(mem.jobs, {j}, IF j \in past.jobs THEN "expired" ELSE "pending"), ok)
          /\ IF ok THEN Finish ELSE Goto("cancel")
          /\ published' = IF ok /\ j \notin past.jobs THEN published \cup {j} ELSE published
    /\ OpFrame /\ UNCHANGED <<holds, told, audit, dead>>

\* CancelPending; its error is dropped.
CancelPending(ok) ==
    /\ op.pc = "cancel"
    /\ \/ /\ mem.jobs[op.job].status \in {"staged", "pending"}
          /\ SaveJobs(WithStatus(mem.jobs, {op.job}, "canceled"), ok)
       \/ /\ mem.jobs[op.job].status \notin {"staged", "pending"} /\ ok
          /\ UNCHANGED <<mem, disk, faults>>
    /\ Finish
    /\ OpFrame /\ UNCHANGED <<holds, told, audit, published, dead>>

-----------------------------------------------------------------------------
(* Workers: LegacyExecutionLifecycle *)

GuardWorkerEnabled ==
    /\ ~mem.authority.disabled /\ ~poll
    /\ poll' = TRUE
    /\ UNCHANGED <<mem, disk, op, adm, holds, told, report, past, audit, published, dead, faults>>

Overdue   == {j \in JobIds : mem.jobs[j].status = "pending" /\ j \in past.jobs}
Claimable == {j \in JobIds : mem.jobs[j].status = "pending" /\ j \notin past.jobs}

\* Store.Claim walks the jobs in creation order, expires the overdue ones it
\* meets and stops at the first it can hand out.
Claim(ok) ==
    /\ poll /\ MutexFree /\ poll' = FALSE
    /\ \/ /\ Claimable = {}
          /\ \/ Overdue = {} /\ ok /\ UNCHANGED <<mem, disk, faults>>
             \/ Overdue # {} /\ SaveJobs(WithStatus(mem.jobs, Overdue, "expired"), ok)
          /\ UNCHANGED op
       \/ \E j \in Claimable :
            /\ \A i \in Claimable : j <= i
            /\ SaveJobs(WithStatus(WithStatus(mem.jobs, {i \in Overdue : i < j}, "expired"),
                                   {j}, "claimed"), ok)
            /\ op' = IF ok THEN [Idle EXCEPT !.pc = "claimed", !.job = j] ELSE op
    /\ UNCHANGED <<adm, holds, told, report, past, audit, published, dead>>

\* The token leaves the process only if the claim was logged.
ClaimAnswers(ok) ==
    /\ op.pc = "claimed"
    /\ Append("execution.job_claimed", op.job, ok)
    /\ holds' = IF ok THEN holds \cup {op.job} ELSE holds
    /\ IF ok THEN Finish ELSE Goto("reject")
    /\ OpFrame /\ UNCHANGED <<mem, disk, told, published, dead>>

\* RejectClaim; its error is dropped.  failed: a rejection still to be logged.
Reject(ok) ==
    /\ op.pc = "reject"
    /\ \/ /\ mem.jobs[op.job].status \in Held
          /\ SaveJobs(WithStatus(mem.jobs, {op.job}, "canceled"), ok)
       \/ /\ mem.jobs[op.job].status \notin Held /\ ok
          /\ UNCHANGED <<mem, disk, faults>>
    /\ IF op.failed THEN Goto("rejected") ELSE Finish
    /\ OpFrame /\ UNCHANGED <<holds, told, audit, published, dead>>

\* Start authenticates the grant before it turns to the job store.
StartRequest(j) ==
    /\ MutexFree /\ j \in holds
    /\ op' = [Idle EXCEPT !.job = j,
                          !.pc = IF Live(mem.jobs[j].grant) THEN "start" ELSE "reject",
                          !.failed = ~Live(mem.jobs[j].grant)]
    /\ OpFrame /\ UNCHANGED <<mem, disk, holds, told, audit, published, dead, faults>>

Start(ok) ==
    /\ op.pc = "start"
    /\ LET j == op.job IN
       \/ /\ mem.jobs[j].status # "claimed" /\ ok
          /\ Finish /\ UNCHANGED <<mem, disk, faults>>
       \/ /\ mem.jobs[j].status = "claimed"
          /\ SaveJobs(WithStatus(mem.jobs, {j}, IF j \in past.jobs THEN "expired" ELSE "running"), ok)
          /\ IF ok /\ j \notin past.jobs THEN Goto("started") ELSE Finish
    /\ OpFrame /\ UNCHANGED <<holds, told, audit, published, dead>>

FaultStartsUnlogged(ok) ==
    /\ op.pc = "started"
    /\ Append("execution.job_started", op.job, ok)
    /\ told' = told \cup {op.job} /\ Finish
    /\ OpFrame /\ UNCHANGED <<mem, disk, holds, published, dead>>

\* The worker may go on only if its start was logged.
StartAnswers(ok) ==
    /\ op.pc = "started"
    /\ Append("execution.job_started", op.job, ok)
    /\ told' = IF ok THEN told \cup {op.job} ELSE told
    /\ IF ok THEN Finish ELSE Goto("reject")
    /\ OpFrame /\ UNCHANGED <<mem, disk, holds, published, dead>>

ReportFrame == UNCHANGED <<op, adm, poll, holds, told, past, published, dead>>

\* CompleteWithOutput stores an output that is not empty first, without a look
\* at the job.
PutOutput(j, output, ok) ==
    /\ j \in told /\ report[j].pc = "none"
    /\ \/ ~output /\ ok /\ UNCHANGED <<mem, disk, faults>>
       \/ output /\ SaveOutputs(mem.outputs \cup {j}, ok)
    /\ report' = IF ok THEN [report EXCEPT ![j] = [pc |-> "complete", output |-> output]]
                 ELSE report
    /\ ReportFrame /\ UNCHANGED audit

WithResult(j, success, output) ==
    [mem.jobs EXCEPT ![j] = [@ EXCEPT !.status = IF success THEN "succeeded" ELSE "failed",
                                      !.output = output]]

FaultCompletesFirst(j, success, ok) ==
    /\ j \in told /\ mem.jobs[j].status = "running"
    /\ SaveJobs(WithResult(j, success, TRUE), ok)
    /\ ReportFrame /\ UNCHANGED <<audit, report>>

Complete(j, success, ok) ==
    /\ report[j].pc = "complete"
    /\ \/ /\ mem.jobs[j].status = "running"
          /\ SaveJobs(WithResult(j, success, report[j].output), ok)
          /\ report' = [report EXCEPT ![j] = IF ok THEN [@ EXCEPT !.pc = "log"] ELSE NoReport]
       \/ /\ mem.jobs[j].status # "running" /\ ok
          /\ report' = [report EXCEPT ![j] = NoReport]
          /\ UNCHANGED <<mem, disk, faults>>
    /\ ReportFrame /\ UNCHANGED audit

\* A completion that cannot be logged is reported as an error and stands.
CompleteAnswers(j, ok) ==
    /\ report[j].pc = "log"
    /\ Append("execution.job_completed", j, ok)
    /\ report' = [report EXCEPT ![j] = NoReport]
    /\ ReportFrame /\ UNCHANGED <<mem, disk>>

\* A refused certificate request cancels the running job.
CertificateRefused(j, ok) ==
    /\ j \in told /\ mem.jobs[j].status = "running"
    /\ SaveJobs(WithStatus(mem.jobs, {j}, "canceled"), ok)
    /\ UNCHANGED <<op, adm, poll, holds, told, report, past, audit, published, dead>>

-----------------------------------------------------------------------------
(* Revocation of one grant, under executionMu *)

RevokeGrant(g, ok) ==
    /\ MutexFree
    /\ mem.grants[g].issued
    /\ SaveGrants([mem.grants EXCEPT ![g].revoked = TRUE], ok)
    /\ op' = IF ok THEN [Idle EXCEPT !.pc = "unqueue", !.grant = g] ELSE op
    /\ OpFrame /\ UNCHANGED <<holds, told, audit, published, dead>>

Unclaimed(g) == {j \in JobsIn({"staged", "pending"}) : mem.jobs[j].grant = g}

\* Claimed jobs are left to Start, which authenticates again.
CancelPendingByGrant(ok) ==
    /\ op.pc = "unqueue"
    /\ \/ /\ Unclaimed(op.grant) # {}
          /\ SaveJobs(WithStatus(mem.jobs, Unclaimed(op.grant), "canceled"), ok)
       \/ /\ Unclaimed(op.grant) = {} /\ ok
          /\ UNCHANGED <<mem, disk, faults>>
    /\ op' = [op EXCEPT !.pc = "revoked", !.failed = ~ok]
    /\ OpFrame /\ UNCHANGED <<holds, told, audit, published, dead>>

RevokeAnswers(ok) ==
    /\ op.pc = "revoked"
    /\ Append("grant.revoked", op.grant, ok)
    /\ dead' = IF ok /\ ~op.failed THEN dead \cup {op.grant} ELSE dead
    /\ Finish
    /\ OpFrame /\ UNCHANGED <<mem, disk, holds, told, published>>

-----------------------------------------------------------------------------
OperatorStep(o, ok) ==
    \/ ThrowSwitch(o, ok)
    \/ CancelNotRunningAll(o, ok)
    \/ RevokeAllAnswers(o, ok)
    \/ RequestEnable(o, ok)
    \/ Enable(o, ok)
    \/ EnableAnswers(o, ok)
    \/ \E g \in GrantIds : CreateGrant(o, g, ok)
    \/ IssueAnswers(o, ok)
    \/ UndoIssue(o, ok)
    \/ \E a \in ApprovalIds, d \in Decisions : Decide(o, a, d, ok)
    \/ DecideAnswers(o, ok)

SubmissionStep(ok) ==
    \/ RequestApproval(ok)
    \/ LogAndFinish(ok)
    \/ \E j \in JobIds : Enqueue(j, ok)
    \/ AuthorizeLogged(ok)
    \/ ConsumeAllowOnce(ok)
    \/ Publish(ok)
    \/ CancelPending(ok)

WorkerStep(ok) ==
    \/ Claim(ok)
    \/ ClaimAnswers(ok)
    \/ Reject(ok)
    \/ Start(ok)
    \/ StartAnswers(ok)
    \/ \E j \in JobIds, output \in BOOLEAN : PutOutput(j, output, ok)
    \/ \E j \in JobIds, success \in BOOLEAN : Complete(j, success, ok)
    \/ \E j \in JobIds : CompleteAnswers(j, ok)
    \/ \E j \in JobIds : CertificateRefused(j, ok)

RevokeStep(ok) ==
    \/ \E g \in GrantIds : RevokeGrant(g, ok)
    \/ CancelPendingByGrant(ok)
    \/ RevokeAnswers(ok)

\* Steps that write nothing.
ReadStep ==
    \/ \E o \in Operators : IssueGrant(o)
    \/ \E g \in GrantIds, r \in Requests, c \in Commands : SubmitCommand(g, r, c)
    \/ LookupRequest
    \/ MatchApproval
    \/ Authenticate
    \/ Approve
    \/ GuardWorkerEnabled
    \/ \E j \in JobIds : StartRequest(j)
    \/ \E g \in GrantIds : GrantLapses(g)
    \/ \E j \in JobIds : JobLapses(j)

Next ==
    \/ \E ok \in BOOLEAN : \/ \E o \in Operators : OperatorStep(o, ok)
                           \/ SubmissionStep(ok)
                           \/ WorkerStep(ok)
                           \/ RevokeStep(ok)
    \/ ReadStep
    \/ Restart

Spec == Init /\ [][Next]_vars

-----------------------------------------------------------------------------
(* Properties *)

\* However writes fail and whenever the process dies between the audit log, the
\* approval file and the job file, one allow_once decision makes at most one job
\* available to workers.
AllowOnceAuthorizesOne ==
    \A i, j \in published :
        LET a == mem.jobs[i].approval IN
        (a # 0 /\ a = mem.jobs[j].approval /\ mem.approvals[a].decision = "allow_once") => i = j

\* Once a revocation has been confirmed to the operator, no job of the grants it
\* covers is published or started any more: not by a handler that authenticated
\* the grant before, not after a restart, not after a later enable.
ConfirmedRevocationStopsStarts ==
    [][\A j \in JobIds :
         mem'.jobs[j].status \in {"pending", "running"} /\ mem'.jobs[j] # mem.jobs[j]
            => mem'.jobs[j].grant \notin dead]_vars

\* A worker that was allowed to go on holds a job whose authorization, claim and
\* start are all in the audit log.
UnauditedNeverRuns ==
    \A j \in told : {<<"execution.job_authorized", j>>, <<"execution.job_claimed", j>>,
                     <<"execution.job_started", j>>} \subseteq audit

\* What a restart forgets is at most that the kill switch was thrown.
RestartLosesOnlyKillSwitch ==
    /\ [disk EXCEPT !.authority = mem.authority] = mem
    /\ mem.authority # disk.authority =>
          mem.authority.disabled /\ mem.authority.epoch >= disk.authority.epoch

\* After a REVOKE ALL, access is enabled only if a request to enable it, made
\* after the first one, is in the audit log.
EnabledWasRequested ==
    (mem.authority.epoch > 0 /\ ~mem.authority.disabled) =>
        \E e \in 1..mem.authority.epoch : <<"emergency.enable_requested", e>> \in audit

\* A result that was reported with an output has that output in its file, whatever
\* fails between the two writes.
OutputBeforeResult ==
    \A j \in JobIds : disk.jobs[j].output => j \in disk.outputs

\* A grant is never of an epoch that the files have not reached, so a restart
\* that loses an unwritten REVOKE ALL cannot lead to an epoch being used twice.
GrantEpochsDurable ==
    \A g \in GrantIds : mem.grants[g].issued => mem.grants[g].epoch <= disk.authority.epoch

\* What failed writes and crashes leave in the files can be gone on with: the two
\* properties above.
FilesConsistent == GrantEpochsDurable /\ OutputBeforeResult

\* A staged job that was authorized and consumed its approval before a crash, with
\* no other job authorized by it.
Recoverable(j) ==
    LET a == mem.jobs[j].approval IN
    /\ mem.jobs[j].status = "staged" /\ a # 0
    /\ mem.approvals[a].status = "consumed"
    /\ <<"execution.job_authorized", j>> \in audit
    /\ \A i \in JobIds \ {j} : mem.jobs[i].approval # a

\* Retrying the request of such a job publishes it instead of canceling it.
RetryRecovers ==
    [][op.pc = "approve" /\ Recoverable(op.job) => op'.pc # "cancel"]_vars

=============================================================================

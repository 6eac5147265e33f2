----------------------------- MODULE Execution -----------------------------
(***************************************************************************)
(* The execution of published jobs: the worker's RunOnce, the certificate  *)
(* gate and signer, the authority check that precedes and then monitors an *)
(* execution, and the forced wrapper with its replay marker on the target. *)
(*                                                                         *)
(* Behaviours start with every job on the queue under a live grant, the    *)
(* states ControlPlane publishes; the control state is what RunOnce can    *)
(* tell apart.  One action is one statement of Control, one step of the    *)
(* worker or one step of a process on the target.  All hosts share one     *)
(* clock.  A definition whose name starts with Fault is a deliberate       *)
(* error, used only to confirm that some property would notice it.         *)
(***************************************************************************)
EXTENDS Integers, FiniteSets

CONSTANTS
    MaxJobs,       \* jobs are numbered in creation order
    Workers, Sessions, Targets, Grants,
    GrantOf,       \* the grant of each job
    TargetOf,      \* the target of each job
    Expires,       \* the deadline of each job
    GrantExpires,  \* the end of each grant
    ShellJobs,     \* jobs whose category requires the shell permission
    ShellGrants,   \* grants that carry it
    CertTTL,       \* the signer's certificate lifetime
    Backdate,      \* how far the signer backdates a certificate
    MaxTime,       \* the clock stops here
    MaxEpoch,      \* REVOKE ALL is exercised up to this epoch
    None

Jobs  == 1..MaxJobs
Times == 0..MaxTime

\* The deadlines are those ControlPlane hands out: within the grant.
ASSUME ExecutionAssumption ==
    /\ {MaxJobs, MaxTime, MaxEpoch, Backdate} \subseteq Nat /\ CertTTL \in Nat \ {0}
    /\ GrantOf \in [Jobs -> Grants] /\ TargetOf \in [Jobs -> Targets]
    /\ Expires \in [Jobs -> Times] /\ GrantExpires \in [Grants -> Times]
    /\ \A j \in Jobs : Expires[j] <= GrantExpires[GrantOf[j]]
    /\ ShellJobs \subseteq Jobs /\ ShellGrants \subseteq Grants
    /\ None \notin Workers \cup Sessions \cup Targets \cup Grants \cup Jobs

VARIABLES
    now,
    authority,  \* epoch and kill switch; every grant was issued in epoch 0
    revoked,    \* grants revoked one by one
    jobs,       \* the execution_jobs rows
    workers,    \* RunOnce of each worker
    checks,     \* the authority check each worker has under way
    certs,      \* the certificate released for each job
    sessions,   \* SSH sessions, as the target sees them
    markers     \* replay markers, as <<host, job>>

vars == <<now, authority, revoked, jobs, workers, checks, certs, sessions, markers>>

-----------------------------------------------------------------------------

\* The steps of RunOnce that hold an SSH connection, or try to.
Executing == {"dial", "handshake", "session"}

WorkerPC == {"idle", "claimed", "started", "gate", "auth", "sign", "reject", "bind",
             "check", "report"} \cup Executing

\* readAt is RunOnce's one clock read; aware says whether the grant was live when
\* the check before execution began (history).
Worker == [pc : WorkerPC, job : Jobs \cup {None}, readAt : Times, deadline : 0..(2 * MaxTime),
           session : Sessions \cup {None}, lost : BOOLEAN, ok : BOOLEAN, aware : BOOLEAN]

Idle == [pc |-> "idle", job |-> None, readAt |-> 0, deadline |-> 0, session |-> None,
         lost |-> FALSE, ok |-> FALSE, aware |-> FALSE]

CheckPC == {"none", "state", "claim", "grant", "again"}

Certificate == [at : Times, before : Times]

ASSUME NoneAssumption == None \notin Certificate

\* What a client sends as its command: a job id, a target and the rest of a
\* job's binding (grant, request and argv), which identifies that job.
Envelope == [job : Jobs, target : Targets, body : Jobs]

Session == [pc : {"unused", "open", "marking", "consumed", "running", "succeeded",
                  "failed", "refused"},
            job : Jobs \cup {None}, host : Targets \cup {None}, env : Envelope \cup {None}]

Started(s) == sessions[s].pc \in {"running", "succeeded", "failed"}

TypeOK ==
    /\ now \in Times
    /\ authority \in [epoch : 0..MaxEpoch, disabled : BOOLEAN]
    /\ revoked \subseteq Grants
    /\ jobs \in [Jobs -> [status : {"pending", "claimed", "running", "succeeded", "failed",
                                    "canceled", "expired"},
                          claim : Workers \cup {None}]]
    /\ workers \in [Workers -> Worker]
    /\ checks \in [Workers -> CheckPC]
    /\ certs \in [Jobs -> Certificate \cup {None}]
    /\ sessions \in [Sessions -> Session]
    /\ markers \subseteq Targets \X Jobs

Init ==
    /\ now = 0
    /\ authority = [epoch |-> 0, disabled |-> FALSE]
    /\ revoked = {}
    /\ jobs = [j \in Jobs |-> [status |-> "pending", claim |-> None]]
    /\ workers = [w \in Workers |-> Idle]
    /\ checks = [w \in Workers |-> "none"]
    /\ certs = [j \in Jobs |-> None]
    /\ sessions = [s \in Sessions |-> [pc |-> "unused", job |-> None, host |-> None, env |-> None]]
    /\ markers = {}

-----------------------------------------------------------------------------
(* Control: authority and rows *)

\* Repository.authenticate, for a grant issued in epoch 0.
Live(g) ==
    /\ ~authority.disabled /\ authority.epoch = 0
    /\ g \notin revoked /\ now < GrantExpires[g]

Ended(status) == [status |-> status, claim |-> None]

Cancel(selected) ==
    jobs' = [j \in Jobs |-> IF j \in selected /\ jobs[j].status \in {"pending", "claimed"}
                            THEN Ended("canceled") ELSE jobs[j]]

RevokeAll ==
    /\ authority.epoch < MaxEpoch
    /\ authority' = [epoch |-> authority.epoch + 1, disabled |-> TRUE]
    /\ Cancel(Jobs)
    /\ UNCHANGED <<now, revoked, workers, checks, certs, sessions, markers>>

Enable ==
    /\ authority.disabled
    /\ authority' = [authority EXCEPT !.disabled = FALSE]
    /\ UNCHANGED <<now, revoked, jobs, workers, checks, certs, sessions, markers>>

RevokeGrant(g) ==
    /\ g \notin revoked
    /\ revoked' = revoked \cup {g}
    /\ Cancel({j \in Jobs : GrantOf[j] = g})
    /\ UNCHANGED <<now, authority, workers, checks, certs, sessions, markers>>

FaultHoldsForever(w) == jobs[workers[w].job].status \notin {"pending", "claimed"}

HoldsRunning(w) == LET j == workers[w].job IN
    jobs[j].status = "running" /\ jobs[j].claim = w

\* ValidateRunningClaim.
ValidRunningClaim(w) == HoldsRunning(w) /\ now < Expires[workers[w].job]

-----------------------------------------------------------------------------
(* RunOnce, up to the certificate *)

Goto(w, pc) == workers' = [workers EXCEPT ![w].pc = pc]

Return(w) == workers' = [workers EXCEPT ![w] = Idle]

\* Give up and tell Control so: completeLocalFailure.
ReportFailure(w) == workers' = [workers EXCEPT ![w] = [@ EXCEPT !.pc = "report", !.ok = FALSE]]

Claimable == {j \in Jobs : jobs[j].status = "pending" /\ now < Expires[j]}

Swept(j) == IF jobs[j].status \in {"pending", "claimed", "running"} /\ Expires[j] <= now
            THEN Ended("expired") ELSE jobs[j]

\* ControlPlane shows that a row on the queue has live authority, so the guard
\* that precedes a claim is left out: it only decides whether the sweep runs.
Claim(w) ==
    /\ workers[w].pc = "idle"
    /\ \/ /\ Claimable = {}
          /\ jobs' = [j \in Jobs |-> Swept(j)]
          /\ UNCHANGED workers
       \/ \E j \in Claimable :
            /\ \A i \in Claimable : j <= i
            /\ jobs' = [i \in Jobs |-> IF i = j THEN [status |-> "claimed", claim |-> w]
                                       ELSE Swept(i)]
            /\ workers' = [workers EXCEPT ![w] = [@ EXCEPT !.pc = "claimed", !.job = j]]
    /\ UNCHANGED <<now, authority, revoked, checks, certs, sessions, markers>>

Start(w) == LET j == workers[w].job IN
    /\ workers[w].pc = "claimed"
    /\ \/ /\ ~(jobs[j].status = "claimed" /\ jobs[j].claim = w)
          /\ Return(w)
          /\ UNCHANGED jobs
       \/ /\ jobs[j].status = "claimed" /\ jobs[j].claim = w
          /\ ~(Live(GrantOf[j]) /\ now < Expires[j])
          /\ jobs' = [jobs EXCEPT ![j] =
                        Ended(IF Live(GrantOf[j]) THEN "expired" ELSE "canceled")]
          /\ Return(w)
       \/ /\ jobs[j].status = "claimed" /\ jobs[j].claim = w
          /\ Live(GrantOf[j]) /\ now < Expires[j]
          /\ jobs' = [jobs EXCEPT ![j].status = "running"]
          /\ Goto(w, "started")
    /\ UNCHANGED <<now, authority, revoked, checks, certs, sessions, markers>>

\* The only clock read of RunOnce, then the ephemeral key.
ReadClock(w) ==
    /\ workers[w].pc = "started"
    /\ \/ ReportFailure(w)
       \/ /\ now < Expires[workers[w].job]
          /\ workers' = [workers EXCEPT ![w] = [@ EXCEPT !.pc = "gate", !.readAt = now]]
    /\ UNCHANGED <<now, authority, revoked, jobs, checks, certs, sessions, markers>>

-----------------------------------------------------------------------------
(* The certificate gate: issueCertificate, one statement at a time *)

GateClaim(w) ==
    /\ workers[w].pc = "gate"
    /\ IF ValidRunningClaim(w) THEN Goto(w, "auth")
       ELSE IF Expires[workers[w].job] <= now THEN Goto(w, "reject")
       ELSE ReportFailure(w)
    /\ UNCHANGED <<now, authority, revoked, jobs, checks, certs, sessions, markers>>

\* Powerful categories need the shell permission beside exec.
ShellPermitted(j) == j \in ShellJobs => GrantOf[j] \in ShellGrants

GateGrant(w) == LET j == workers[w].job IN
    /\ workers[w].pc = "auth"
    /\ Goto(w, IF Live(GrantOf[j]) /\ ShellPermitted(j) THEN "sign" ELSE "reject")
    /\ UNCHANGED <<now, authority, revoked, jobs, checks, certs, sessions, markers>>

FaultUncapped(a, b) == a

Earlier(a, b) == IF a < b THEN a ELSE b

\* The signer caps the certificate at the job's deadline.  The certificate is
\* withheld if the target does not resolve, the signer refuses or the audit fails.
Sign(w) == LET j == workers[w].job IN
    /\ workers[w].pc = "sign"
    /\ \/ /\ now < Expires[j]
          /\ certs' = [certs EXCEPT ![j] = [at |-> now, before |-> Earlier(now + CertTTL, Expires[j])]]
          /\ Goto(w, "bind")
       \/ /\ Goto(w, "reject")
          /\ UNCHANGED certs
    /\ UNCHANGED <<now, authority, revoked, jobs, checks, sessions, markers>>

\* RejectClaim ends a row its caller still holds; the worker then sees an error.
RejectClaim(w) == LET j == workers[w].job IN
    /\ workers[w].pc = "reject"
    /\ jobs' = IF jobs[j].status \in {"claimed", "running"} /\ jobs[j].claim = w
               THEN [jobs EXCEPT ![j] = Ended("canceled")] ELSE jobs
    /\ ReportFailure(w)
    /\ UNCHANGED <<now, authority, revoked, checks, certs, sessions, markers>>

\* The request for a certificate, or the answer, is lost; Control's handler is
\* abandoned where it was, as the cancelled request context makes it.
IssuanceFails(w) ==
    /\ workers[w].pc \in {"gate", "auth", "sign", "reject", "bind"}
    /\ ReportFailure(w)
    /\ UNCHANGED <<now, authority, revoked, jobs, checks, certs, sessions, markers>>

\* The timeout is what remained at the clock read, counted from now.
ExecDeadline(w) == now + (Expires[workers[w].job] - workers[w].readAt)

\* Ephemeral.Bind takes no certificate that outlives the job, and judges it by the
\* old clock read.
Bind(w) == LET c == certs[workers[w].job] IN
    /\ workers[w].pc = "bind"
    /\ IF /\ c.before <= Expires[workers[w].job]
          /\ c.at <= workers[w].readAt + Backdate /\ workers[w].readAt < c.before
       THEN /\ workers' = [workers EXCEPT ![w] =
                  [@ EXCEPT !.pc = "check", !.deadline = ExecDeadline(w),
                            !.aware = Live(GrantOf[workers[w].job])]]
            /\ checks' = [checks EXCEPT ![w] = "state"]
       ELSE ReportFailure(w) /\ UNCHANGED checks
    /\ UNCHANGED <<now, authority, revoked, jobs, certs, sessions, markers>>

-----------------------------------------------------------------------------
(* checkAuthority: before execution, and then from the monitor *)

\* The monitor cancels the execution; before execution the job is given up.
Deny(w) ==
    /\ checks' = [checks EXCEPT ![w] = "none"]
    /\ IF workers[w].pc = "check" THEN ReportFailure(w)
       ELSE workers' = [workers EXCEPT ![w].lost = TRUE]

Allow(w) ==
    /\ checks' = [checks EXCEPT ![w] = "none"]
    /\ IF workers[w].pc = "check" THEN Goto(w, "dial") ELSE UNCHANGED workers

Read(w, pc, holds, next) ==
    /\ checks[w] = pc
    /\ IF holds THEN checks' = [checks EXCEPT ![w] = next] /\ UNCHANGED workers
       ELSE Deny(w)
    /\ UNCHANGED <<now, authority, revoked, jobs, certs, sessions, markers>>

CheckState(w) == Read(w, "state", ~authority.disabled, "claim")
CheckClaim(w) == Read(w, "claim", ValidRunningClaim(w), "grant")

FaultSkipsGrant(w) == Read(w, "grant", TRUE, "again")

CheckGrant(w) == Read(w, "grant", Live(GrantOf[workers[w].job]), "again")

CheckAgain(w) ==
    /\ checks[w] = "again"
    /\ IF ~authority.disabled /\ authority.epoch = 0 THEN Allow(w) ELSE Deny(w)
    /\ UNCHANGED <<now, authority, revoked, jobs, certs, sessions, markers>>

\* Control does not answer within the interval, or the execution context ends.
CheckFails(w) ==
    /\ checks[w] # "none"
    /\ Deny(w)
    /\ UNCHANGED <<now, authority, revoked, jobs, certs, sessions, markers>>

MonitorTick(w) ==
    /\ workers[w].pc \in Executing /\ ~workers[w].lost /\ checks[w] = "none"
    /\ checks' = [checks EXCEPT ![w] = "state"]
    /\ UNCHANGED <<now, authority, revoked, jobs, workers, certs, sessions, markers>>

-----------------------------------------------------------------------------
(* ExecuteCaptured *)

FaultIgnoresMonitor(w) == workers[w].deadline <= now

ContextDone(w) == workers[w].lost \/ workers[w].deadline <= now

\* DialContext obeys the context.
Dial(w) ==
    /\ workers[w].pc = "dial"
    /\ \/ ~ContextDone(w) /\ Goto(w, "handshake")
       \/ ReportFailure(w)
    /\ checks' = [checks EXCEPT ![w] = IF workers'[w].pc = "report" THEN "none" ELSE @]
    /\ UNCHANGED <<now, authority, revoked, jobs, certs, sessions, markers>>

OpenSession(s, j, host, env) ==
    /\ sessions[s].pc = "unused"
    /\ certs[j] # None /\ now < certs[j].before
    /\ sessions' = [sessions EXCEPT ![s] = [pc |-> "open", job |-> j, host |-> host, env |-> env]]

\* The handshake obeys a deadline but not the cancellation: a session may open,
\* and its command be sent, although the monitor has already cancelled it.
Handshake(w) == LET j == workers[w].job IN
    /\ workers[w].pc = "handshake"
    /\ \/ /\ now < workers[w].deadline
          /\ \E s \in Sessions :
               /\ OpenSession(s, j, TargetOf[j], [job |-> j, target |-> TargetOf[j], body |-> j])
               /\ workers' = [workers EXCEPT ![w] = [@ EXCEPT !.pc = "session", !.session = s]]
          /\ UNCHANGED checks
       \/ /\ ReportFailure(w)
          /\ checks' = [checks EXCEPT ![w] = "none"]
          /\ UNCHANGED sessions
    /\ UNCHANGED <<now, authority, revoked, jobs, certs, markers>>

FaultTrustsTransport(w) == ~workers[w].lost

\* Only an exit status of zero counts, and not once authority was lost.
RemoteSucceeded(w) == sessions[workers[w].session].pc = "succeeded" /\ ~workers[w].lost

\* The command ended, the context ended, the output limit was crossed or the
\* transport failed; then the monitor is stopped, with the check it has under way.
ExecuteReturns(w) ==
    /\ workers[w].pc = "session"
    /\ \/ /\ sessions[workers[w].session].pc \in {"succeeded", "failed", "refused"}
          /\ workers' = [workers EXCEPT ![w] = [@ EXCEPT !.pc = "report", !.ok = RemoteSucceeded(w)]]
       \/ ReportFailure(w)
    /\ checks' = [checks EXCEPT ![w] = "none"]
    /\ UNCHANGED <<now, authority, revoked, jobs, certs, sessions, markers>>

\* Complete takes a result only for the running row its caller holds.
Report(w) == LET j == workers[w].job IN
    /\ workers[w].pc = "report"
    /\ jobs' = IF HoldsRunning(w)
               THEN [jobs EXCEPT ![j] = Ended(IF workers[w].ok THEN "succeeded" ELSE "failed")]
               ELSE jobs
    /\ Return(w)
    /\ UNCHANGED <<now, authority, revoked, checks, certs, sessions, markers>>

\* The worker dies, or an answer it cannot do without is lost: RunOnce ends and
\* its row stays as it is.  A session it opened goes on by itself.
Crash(w) ==
    /\ workers[w].pc # "idle"
    /\ Return(w)
    /\ checks' = [checks EXCEPT ![w] = "none"]
    /\ UNCHANGED <<now, authority, revoked, jobs, certs, sessions, markers>>

-----------------------------------------------------------------------------
(* The target: tethys-sentinel-exec and tethys-sentinel-consume *)

\* While it is valid a certificate may be presented again, on any host and with
\* any command: nothing but the wrapper stands against that.
Replay(s) ==
    /\ \E j \in Jobs, host \in Targets, env \in Envelope : OpenSession(s, j, host, env)
    /\ UNCHANGED <<now, authority, revoked, jobs, workers, checks, certs, markers>>

FaultVerifiesJobOnly(s) == sessions[s].env.job = sessions[s].job

\* The force-command names the certificate's job and its binding, a hash of the
\* target and the body.
Verified(s) == LET x == sessions[s] IN
    /\ x.env.job = x.job
    /\ x.env.target = x.host
    /\ <<x.env.body, x.env.target>> = <<x.job, TargetOf[x.job]>>

FaultMarkerMayExist(s) == sessions[s].pc = "open" /\ Verified(s)

\* O_EXCL: the marker must not exist yet.
MayConsume(s) ==
    /\ sessions[s].pc = "open"
    /\ Verified(s)
    /\ <<sessions[s].host, sessions[s].job>> \notin markers

SessionGoto(s, pc) == sessions' = [sessions EXCEPT ![s].pc = pc]

Consume(s) ==
    /\ MayConsume(s)
    /\ markers' = markers \cup {<<sessions[s].host, sessions[s].job>>}
    /\ SessionGoto(s, "marking")
    /\ UNCHANGED <<now, authority, revoked, jobs, workers, checks, certs>>

\* Writing, syncing or closing the marker fails: it is removed and nothing runs.
MarkFails(s) ==
    /\ sessions[s].pc = "marking"
    /\ markers' = markers \ {<<sessions[s].host, sessions[s].job>>}
    /\ SessionGoto(s, "refused")
    /\ UNCHANGED <<now, authority, revoked, jobs, workers, checks, certs>>

MarkDone(s) ==
    /\ sessions[s].pc = "marking"
    /\ SessionGoto(s, "consumed")
    /\ UNCHANGED <<now, authority, revoked, jobs, workers, checks, certs, markers>>

\* The wrapper refuses, the program does not resolve or start, or sshd drops it.
Refuse(s) ==
    /\ sessions[s].pc \in {"open", "consumed"}
    /\ SessionGoto(s, "refused")
    /\ UNCHANGED <<now, authority, revoked, jobs, workers, checks, certs, markers>>

Exec(s) ==
    /\ sessions[s].pc = "consumed"
    /\ SessionGoto(s, "running")
    /\ UNCHANGED <<now, authority, revoked, jobs, workers, checks, certs, markers>>

Exit(s) ==
    /\ sessions[s].pc = "running"
    /\ \E result \in {"succeeded", "failed"} : SessionGoto(s, result)
    /\ UNCHANGED <<now, authority, revoked, jobs, workers, checks, certs, markers>>

Tick ==
    /\ now < MaxTime
    /\ now' = now + 1
    /\ UNCHANGED <<authority, revoked, jobs, workers, checks, certs, sessions, markers>>

-----------------------------------------------------------------------------

Monitor(w) == MonitorTick(w) \/ CheckState(w) \/ CheckClaim(w) \/ CheckGrant(w) \/ CheckAgain(w)

WorkerStep(w) ==
    \/ Claim(w) \/ Start(w) \/ ReadClock(w)
    \/ GateClaim(w) \/ GateGrant(w) \/ Sign(w) \/ RejectClaim(w)
    \/ IssuanceFails(w) \/ Bind(w) \/ Monitor(w) \/ CheckFails(w)
    \/ Dial(w) \/ Handshake(w) \/ ExecuteReturns(w) \/ Report(w) \/ Crash(w)

TargetStep(s) ==
    \/ Replay(s) \/ Consume(s) \/ MarkFails(s) \/ MarkDone(s)
    \/ Refuse(s) \/ Exec(s) \/ Exit(s)

OperatorStep == RevokeAll \/ Enable \/ \E g \in Grants : RevokeGrant(g)

Next ==
    \/ OperatorStep
    \/ \E w \in Workers : WorkerStep(w)
    \/ \E s \in Sessions : TargetStep(s)
    \/ Tick

Spec == Init /\ [][Next]_vars

\* Dialling and the handshake are bounded by timeouts, the monitor's ticker fires
\* and its checks time out, and ExecuteCaptured returns once its context is done.
\* Nothing is assumed of the clock, of the command or of the worker's survival.
Fairness == \A w \in Workers :
    /\ WF_vars(Dial(w)) /\ WF_vars(Handshake(w)) /\ WF_vars(Monitor(w))
    /\ WF_vars(ContextDone(w) /\ ExecuteReturns(w))

FairSpec == Spec /\ Fairness

-----------------------------------------------------------------------------
(* Properties *)

\* The command of a job is started at most once, on whatever host and however
\* often its certificate is presented ("the semantic is at-most-once").
AtMostOnce ==
    \A s, t \in Sessions :
        Started(s) /\ Started(t) /\ sessions[s].job = sessions[t].job => s = t

\* What runs is what was authorized: the command and target of a job for which
\* the gate released a certificate, under a grant that permits its category.
RunsAsAuthorized ==
    \A s \in Sessions : Started(s) => LET j == sessions[s].job IN
        /\ sessions[s].env.body = j /\ sessions[s].host = TargetOf[j]
        /\ certs[j] # None
        /\ j \in ShellJobs => GrantOf[j] \in ShellGrants

\* A job recorded as succeeded did run on its target and exit with status zero.
SuccessIsReal ==
    \A j \in Jobs : jobs[j].status = "succeeded" =>
        \E s \in Sessions : sessions[s].job = j /\ sessions[s].pc = "succeeded"

\* Authority lost after the certificate but before the check that precedes
\* execution keeps the worker from connecting at all.
RevokedBeforeCheckNeverConnects ==
    \A w \in Workers : workers[w].pc \in Executing => workers[w].aware

\* An execution whose grant is no longer live, or whose job has expired, is
\* abandoned by its worker through the monitor: the worker's own deadline, which
\* is counted from after the certificate was fetched, may lie beyond the job's.
AuthorityLossStops ==
    \A w \in Workers :
        (/\ workers[w].pc \in Executing
         /\ ~Live(GrantOf[workers[w].job]) \/ Expires[workers[w].job] <= now)
            ~> (workers[w].pc \notin Executing)

Lifecycle == INSTANCE JobLifecycle
             WITH status <- [j \in Jobs |-> jobs[j].status],
                  killed <- [j \in Jobs |-> authority.epoch > 0 \/ GrantOf[j] \in revoked]

\* From the queue on, the rows keep the contract that ControlPlane implements,
\* whatever a late, crashed or cancelled worker still reports.
RowsFollowLifecycle == [][Lifecycle!Next]_<<jobs, authority, revoked>>

=============================================================================

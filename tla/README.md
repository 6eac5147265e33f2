# Formal model of Tethys Sentinel

Tethys Sentinel lets AI agents run commands on an operator's hosts. The Control
Plane decides what may run: it holds time-bounded grants, operator approvals and
a queue of execution jobs. Workers take jobs from the queue, obtain a short-lived
SSH certificate for each of them and run its command on a target, where a forced
wrapper makes sure that the certificate runs that command, there, once. The
operator may withdraw one grant or all of them (REVOKE ALL) at any time. Agents
reach the Control Plane through a Gateway: directly, through an MCP adapter, or
through a relay that reads signed requests from a GitHub issue.

This directory holds TLA+ modules that model this system, the TLC configurations
that check them on small instances, and TLAPS proofs of their main properties for
instances of any size. `PROJECT.json` maps every definition to the source lines it
models.

## Inventory

| Component | State it keeps | Operations | What makes it correct |
|---|---|---|---|
| Global authority (`postgresrepo/authority.go`, `emergencyapi`) | `authority_state`: epoch, kill switch | RevokeAll, Enable, State, checkAuthority | a revoked grant never authenticates again; no queued work survives a revocation |
| Grants (`postgresrepo/grant_lifecycle.go`) | `grants`: scope, epoch, expiry, revocation | Issue, Revoke, authenticate | revocation takes the grant's waiting work with it in the same step |
| MCP claims (`postgresrepo/mcp_claims.go`) | `mcp_claims`: status, epoch, deadline | Issue, Redeem | one claim yields one grant, in the epoch it was issued in |
| Approvals (`postgresrepo/approval_lifecycle.go`) | `approvals`: scope, decision, consumption | Request, Decide, Match, consumption by Authorize | an allow_once is spent once; an approval covers only its own grant, target and scope |
| Submission (`controlapi/commands.go`) | the request in flight under `executionMu` | authenticate, look up, match, request, enqueue, authorize | a repeated `request_id` names one job; nothing is published without live authority |
| Queue (`postgresrepo/execution_lifecycle.go`, `job_store.go`, `job_authorizer.go`) | `execution_jobs`: status, claim, deadline, approval | Enqueue, Authorize, Claim with its sweep, Start, Complete, RejectClaim | rows only move forward; deadlines lie within grants; published work ends |
| Certificate gate and signer (`credentialapi`, `sshsigner`) | none of its own; the certificate it releases | issueCertificate, Sign | a certificate only for a running claim under a live, permitted grant, capped by the job |
| Worker (`worker/runner.go`, `workerclient`, `workeridentity`) | the local state of `RunOnce` and of its authority monitor | claim, start, issue, bind, check, execute, monitor, report | no connection without authority; lost authority stops execution; a reported success is real |
| SSH executor (`sshexec/executor.go`) | one connection | dial, handshake, run | ends with its context |
| Target wrapper (`tethys-sentinel-exec`, `tethys-sentinel-consume`, `remotewrapper`) | replay markers on the target | Verify, ConsumeExecution, run | the command of a job starts at most once, only as authorized |
| File-mode stores (`executionjob`, `approval`, `store`, `emergency`) and lifecycles (`controlops`, `emergencyapi/legacy.go`) | the same tables as JSON files, each written by rename | the same, without a transaction over several stores | each operation fails closed when a write fails half way |
| Audit chain (`audit`, `postgresrepo/audit_store.go`) | hash chain with its head: lines of a file, or rows | Append, verify, ReadVerified | acknowledged events stay, the chain is unbroken, and what a read says of it is right |
| Gateway and clients (`gatewayapi`, `agentclient`, `controlclient`) | none | bootstrap, submit, lookup | an answer that is lost or stands for a failure says nothing about what was done |
| GitHub relay (`githubrelay`, `cmd/sentinel-github-relay`) | a session file: sequence, request in flight, comments seen, ETag | serve (poll, submit, respond), authorize, close | one request per sequence number, durable before it is submitted, answered before the next; what the operator closes stays closed |
| MCP adapter (`mcpadapter`, `cmd/sentinel-mcp`) | a journal of operations shared by processes, a copy in each | exec, exec_batch, code, check, output | what was submitted can be recovered, under its own session; reports stay true; calls return |
| Operator view (`operatorview`, `postgresrepo/operator_reader.go`) | none; the cursor is the client's | pages of grants, approvals, jobs, events; overview | no row is skipped or shown twice, or in a state it never had |
| Risk classification (`risk`) | none | Classify | total and stable |
| Operator proxy and web, context and notes, egress policy, target inventory | none, or read-mostly data | forwarding, rendering, reading | – |

Components interact through HTTP calls to the Control Plane, which serializes
submissions, claims, starts and the revocation of one grant with the process-wide
mutex `executionMu` and otherwise relies on row locks of PostgreSQL, or on one mutex
per store in file mode; REVOKE ALL, Enable, Issue, Decide and Complete do not take
`executionMu`. Worker and target interact through SSH only. The relay's three commands
share a session file, adapter processes share a journal; neither is locked.

What is hard here: revocations that overtake a handler between two of its
transactions; submissions that die half way and are repeated; expiry racing with
a worker's report; an authority check made of four separate reads; a monitor that
cancels an execution which is just ending; certificates presented more than once;
files written one after the other by one handler, any of which may fail;
a clock read that is old when it is used; an epoch counter at its limit; a file that
two processes read, change and replace; answers that arrive as refusals although
the work was done; tables that change while they are paged through. Every
such hazard is listed in `PROJECT.json` at its line, with the properties for it.

## Modules

| Module | Models |
|---|---|
| `JobLifecycle` | the abstract contract of one job: forward moves only, one publication, one claim, one start, results from running only, and no start after a revocation |
| `ControlPlane` | authority, grants, claims, approvals, submission and queue over PostgreSQL |
| `Execution` | RunOnce, certificate gate and signer, authority check and monitor, executor, target wrapper |
| `FileStores` | the Control Plane in file mode: its stores, files and lifecycles with failing writes and crashes |
| `AgentApi` | bootstrap, submit and lookup as clients meet them, with lost and masked answers and late commits |
| `Relay` | the GitHub relay over `AgentApi`: serve, authorize, close, the issue |
| `Adapter` | the MCP adapter over `AgentApi`: processes, journal, tool calls |
| `AuditChain` | the audit chain in a file and in PostgreSQL |
| `OperatorView` | lists and overview over changing tables and over `AuditChain` |
| `MCControlPlane`, `MCExecution`, `MCFileStores`, `MCRelay`, `MCAdapter`, `MCOperatorView` | the instances for TLC |
| `ControlPlaneProofs`, `ApprovalProofs` | the theorems about `ControlPlane` |
| `ExecutionProofs`, `FileProofs` | those about `Execution` and `FileStores` |
| `ViewProofs` | those about `OperatorView` and the `AuditChain` it extends |
| `ApiProofs`, `AdapterProofs`, `RelayProofs` | lemmas about the calls of `AgentApi`, and the theorems about its two clients |

`ControlPlane` and `Execution` meet at the queue. `ControlPlane` treats a worker as
any caller of Claim, Start, Complete and RejectClaim. `Execution` starts from what
`ControlPlane` establishes, a queue of jobs under live grants whose deadlines lie
within them (`JobWithinGrant`, `PublishedIsAuthorized`, both proved), and follows one
job to the target. Both implement `JobLifecycle`. `FileStores` is the other persistence
mode of the same handlers and stands beside `ControlPlane`: what one transaction does
there is a sequence of store calls here. `Relay` and `Adapter` extend `AgentApi`, which
is the Control Plane reduced to what a client can tell apart: one step per call, keyed
by `request_id` (OneJobPerRequest, proved of `ControlPlane`), an approval that is used up
by the job it authorizes, and a submission that may die between its transactions.
`OperatorView` extends `AuditChain` and repeats of the tables only their times and states.

### ControlPlane

One action is one committed transaction or one statement outside a transaction. A
failed transaction rolls back and is a stuttering step. The variables are the
tables; `sub` is the submission that holds `executionMu`, with a program counter
(`lookup`, `match`, `request`, `enqueue`, `authorize`), and `AbandonSubmission` ends it
between any two transactions, as a crash, a cancelled request or a failed statement
does. `polls` holds the workers whose claim has passed the kill-switch guard but not
yet the mutex. `audit` is the set of events appended, and `dead` a history variable:
the grants that a committed revocation has covered. Identifiers are numbered in
creation order, so that "newest" and "oldest" are comparisons of identifiers. A
secret (token, claim code, claim token) is named by what it opens; a hash is
injective. `risk.Classify` is the constant `Risk`; only its decision and its scope
matter here. Control and PostgreSQL share one clock.

### Execution

A worker is a program counter in `RunOnce` with the local variables that outlive a
step. The certificate gate is one action per statement (`GateClaim`, `GateGrant`,
`Sign`, `RejectClaim`), so that revocations and expiry come between them, and
`IssuanceFails` loses the request or its answer anywhere. The authority check is
four reads (`CheckState`, `CheckClaim`, `CheckGrant`, `CheckAgain`), used before the
execution and then by the monitor, and may fail at any read. `Crash` ends `RunOnce`
at any step and leaves row, session and certificate behind. The target is a set of
sessions: `Handshake` opens one with the job's own command, `Replay` (the environment)
opens one with any live certificate, on any host, with any command. A command is
abstracted to its job id, its target and a body that identifies the job it was
encoded from; the binding hash is injective on target and body. The replay marker is
taken by `Consume`, confirmed by `MarkDone` or removed again by `MarkFails`. The
certificate names its job; keys, serials and fingerprints are left out.

Not modelled: captured output, loss of a committed marker by the target's file
system, and clocks that disagree between hosts (Backdate covers the skew the signer
allows for).

### FileStores

`mem` is what the process holds of the five stores (authority, grants, approvals, jobs,
outputs) and `disk` what their files hold. A store call is one action with a parameter
`ok`: when the write fails the store undoes its change in memory (`Persist`), except for
REVOKE ALL, which stays in force (`SaveSwitch`). The handler that holds `executionMu`
is `op`, with one program counter value per store or audit call that is still to come;
each operator request is an `adm[o]`, and those do not take the mutex, so that the
steps of two operators interleave with each other and with `op`. `report[j]` is a completion on its
way through the output store, the job store and the log. `Restart` drops all of these
and reads `disk` back. `holds` and `told` are what workers were given: a claim token, and
a confirmed start. `audit` keeps the events that something else depends on; of the
others only success or failure matters. Time is the set `past` of grants and jobs whose
deadline has passed.

In `FileStores` permissions and targets are left out; `ControlPlane` and `AgentApi` have
them. The record MAC is
taken to verify, and a rename to be durable once it returned (the stores ignore errors of
the directory sync that follows). The steps of the certificate gate are in `Execution`;
here it is the one action that cancels a running job.

### AgentApi, Relay and Adapter

The Gateway answers a failure of its own call to Control with the status of a
refusal (401, 403 or 404), `Masked`; a client may also get no answer, `Lost`. In both
cases the submission stays on `wire` and may be committed at any later time
(`Deliver`), wholly or up to the staged job, and as often as the same submission can have
been sent and given up, that is once per failure. `masked` remembers that a client was given
such a status: the properties that make an exception for it say so. A request without a
job may be refused too: `Permitted[g]` are the commands within the targets and permissions
of a grant, and anything else is answered 403 by the Gateway (exec and shell,
`gatewayapi/api.go:133`) or by Control (`commands.go:52-59`); neither the adapter nor the
relay's authorize asks for all of that before. `Barred` are the commands the risk policy
denies. A staged job that cannot be authorized any more is cancelled by the refusal
(`Rejects`), in one transaction of PostgreSQL; the same in file mode, where the cancellation
may fail, is in `FileStores`. Approvals are
allow_once; the time limits of approvals and denials are in `ControlPlane`. Control
mounts the handlers of `commands.go`, `grants.go`, `approvals.go` and `execution.go` in front
of the older ones in `controlapi/api.go`, which are therefore not reached and not
modelled, except introspection.

`Relay`: `pc` is the place of the runner in `processSession` and `resumeInflight`, `copy` its
session, `disk` the file. One action is one call that leaves the process. A comment is
reduced to what it is to this session (`Kinds`), its sequence number, request and
command. GitHub returns one page of 100 comments and the relay refuses to read an issue
with more (`githubrelay/github.go:159-185`): `PageSize` is that limit, `Earlier` the comments
from before the session, `Overfull` the state in which every listing fails for good.
`behind` and `raced` are history: another process replaced the file under the
runner's copy, and the runner has written such a copy. `Calm` bounds the disturbances:
ticks, edits, a close, the end of the grant, of the repository or of the issue.

`Adapter`: a call keeps the progress of each step of its operation; steps of a parallel
batch interleave. `memory[p]` is what the process knows of the journal, read once when
it starts, and `Create` writes the file from it. `clobbered` is history: a process has
written a journal that lacked an operation of another one. `refused` is history too: the
requests that were answered 403, each with the status its job had at that moment.

### AuditChain and OperatorView

The id of an event is its number among all that were ever built. Its hash (`eventHash`)
stands for the id and for the zone in which its time is written, because the time is
hashed as text: `BuildEvent` hashes it in UTC, a line of the file keeps it so, and PostgreSQL
returns it in the zone of the driver, the constant `Zone`. `Verifies` walks the numbers, the
links and the hashes of the events as they were read. The other columns come back from
PostgreSQL as they were hashed: times of the database's own clock have its resolution,
and metadata are strings. In the file a write may leave nothing, a part of its line, the line without
its end, or all of it, and the next line is glued to an unfinished one (`ragged`);
`littered` is history: one of these happened to an append that failed, or a crash tore a
line. In PostgreSQL the head row is locked from the read to the commit (`Locks`), and a
reader takes events and head in two statements.

A behaviour of `OperatorView` is one listing or overview of one table. It starts with any
table that insertions and moves can have left (`Earlier`) and changes while the requests
run (`Change`). Row ids are random, so their order is not that of time; the time of a row
is read before its transaction commits, so that a row may appear behind a later one.
`In` is the state of a grant as authentication decides it, `DeriveGrantState` as the view
derives it. `steady` and `ever` are history: the rows in the filter's state all along the
listing, and those in it at some moment of the request. Of the overview one count per
table is followed, and the recent failures. Looking up a single grant or job is a page
of one row and left out.

## Runs

| Run | Checks | What it shows |
|---|---|---|
| `approvals` | AllowOnceSpentOnce, OneJobPerRequest, ApprovalBinding, TypeOK, PublishedIsAuthorized | two request ids with commands of two approval scopes and a denied one, with retries, abandoned submissions and revocations, and the epoch at its largest value: an approval authorizes once and only what it was given for, and still only live work is on the queue |
| `authority` | RevokedStayDead, JobWithinGrant, ClaimYieldsOneGrant, RevokedNeverStart | grants and claims over two global revocations, timeouts shorter and longer than the grant |
| `queue` | PublishedWorkEnds, AuditMatchesJobs, JobsFollowLifecycle | two workers that may vanish, two jobs; published work ends and the table implements `JobLifecycle` |
| `replay` | TypeOK, AtMostOnce, RunsAsAuthorized, SuccessIsReal | certificates of two jobs presented again, on either host, with any command |
| `worker` | RowsFollowLifecycle, RevokedBeforeCheckNeverConnects, AuthorityLossStops | two workers, crashes, lost answers, revocation and expiry; the monitor alone stops an execution that lost its authority or whose job expired |
| `file_approvals` | AllowOnceAuthorizesOne, FilesConsistent (GrantEpochsDurable, OutputBeforeResult), UnauditedNeverRuns | two requests of a shell scope and a denied command, from request to result, one REVOKE ALL, two faults anywhere |
| `file_revoke` | TypeOK, RestartLosesOnlyKillSwitch, EnabledWasRequested, ConfirmedRevocationStopsStarts | two operators, a submission and a worker, one fault, three epochs of which the last is the largest |
| `file_retry` | RetryRecovers, violated | see Findings |
| `relay` | DurableSession (TypeOK, SubmittedIsDurable, OneRequestPerSequence, AnsweredBeforeAdvance), CompletedIsFinal, DenialHolds, OperatorWritesStick, MailboxDrains | a session with two commands, competing signed requests, one of them beyond the grant's permissions, and other comments, on an issue that may outgrow its page; one fault anywhere, one disturbance: a close, an edit, expiry or the end of the grant |
| `relay_close` | CloseDisables, violated | see Findings |
| `adapter` | RecoverableOperations (TypeOK, SubmittedIsJournaled, OneSessionPerOperation), SequentialOrder, ReportsStayTrue, RefusedForCause, CallsReturn | two processes on one journal, two concurrent calls, single commands, sequential and parallel batches and code; one fault, a new capability that admits one command only, or a revoked grant |
| `operator` | ChainIntact, VerdictIsRight, StablePages (RowPagesStable, AuditPagesContiguous), TruthfulView (TypeOK, ShownWasTrue, OverviewWasTrue) | pages of one row over three rows with three changes in between, the overview, and pages of a chain of four events with two concurrent writers and a failure, on a host in UTC |

Every property was confirmed to be sensitive to the code: for each there is a fault
(a definition named `Fault...`) that a plausible error in the mapped lines would
introduce and that makes the property fail; a property with named parts has one for
each part.

### Bounds

Two jobs, two request ids and two approvals are what the properties speak about:
each is violated by at most two rows that collide. Two epochs separate "older" from
"current", and one Enable between two revocations is enough to revive something. Two
or three clock ticks give every deadline a before, an at and an after, and let a job
be shorter than, equal to and cut by its grant. In `Execution` two sessions are the
smallest replay, two hosts the smallest misdirection, and two workers the smallest
race for a row; `MaxTime` lets the certificate expire before its job. `MaxEpoch` is the
largest value of the column: far beyond `EpochBound` in most runs, and reached in
`approvals`. The theorems remove these bounds for the
properties they cover: they hold for all values of the constants that satisfy the
named assumptions.

In `FileStores` a fault is a failed write or a crash. One fault is enough to interrupt any
sequence of calls, and the second can hit the clean-up after the first or what a retry
does; GrantEpochsDurable needs both (a lost REVOKE ALL and a lost Enable). Two operators
are the smallest race between revoking, enabling and issuing; `file_revoke` treats them
as symmetric, which the specification and its properties are.

`relay` and `adapter`: two commands or operations are the smallest reuse of a sequence
number, and the smallest batch with an order. One fault (a lost or masked answer, a
failed write, a crash) hits every call once; the properties about what a restart or a
retry does need one. Two processes are the smallest conflict over the journal. In
`relay` three signed requests, of which two compete for a number, are more than the
session admits. `operator`: three rows on pages of one give every cursor a row before
and after it, and of two times at least two rows share one; three changes are a
revocation, an Enable and a new grant between two statements. A window of two over four
events moves past the cursor. No run checks for deadlock where the bounds, a finished
listing or a closed session end the behaviour.

### Fairness

`ControlPlane` (`queue`): the clock advances; a submission in flight ends, because
its HTTP request has a deadline and abandonment counts as ending; each worker polls
for ever (`cmd/sentinel-worker/main.go`, the loop around RunOnce), and its claim,
repeatedly possible while the mutex is repeatedly free, is eventually served because
a `sync.Mutex` hands itself to its longest waiter (strong fairness of `Claim`).
Nothing is assumed of Start and Complete: a worker may vanish with its job. The
property assumes that access is enabled again and again, since nothing is claimed
while the kill switch is thrown.

`Execution` (`worker`): dialling and the handshake end by their timeouts, the
monitor's ticker fires and each check is bounded by the poll interval, and
ExecuteCaptured returns once its context is done. The clock need not advance and the
command need not end.

`Relay` (`relay`): `serve` polls for ever (`Runner.Run`), so that some step of a poll is
eventually taken while one is possible, and jobs end, by their worker or their
deadline. Nobody need decide an approval. `Adapter` (`adapter`): a call runs on while the
process does, and jobs end.

## Proofs

TLAPS checks the following for every value of the constants.

| Theorem | States | Assumptions beyond the modules' own |
|---|---|---|
| `ControlPlaneProofs!TypeCorrect` | TypeOK | |
| `ControlPlaneProofs!QueueIsAuthorized` | PublishedIsAuthorized | |
| `ControlPlaneProofs!RevocationIsPermanent` | RevokedStayDead | EpochBound < MaxEpoch |
| `ControlPlaneProofs!RevokedJobsNeverStart` | RevokedNeverStart | EpochBound < MaxEpoch |
| `ControlPlaneProofs!Refinement` | JobsFollowLifecycle | EpochBound < MaxEpoch |
| `ApprovalProofs!ApprovalsBind` | ApprovalBinding | |
| `ApprovalProofs!AllowOnceIsOnce` | AllowOnceSpentOnce | |
| `ApprovalProofs!RequestsAreIdempotent` | OneJobPerRequest | |
| `ApprovalProofs!DeadlinesWithinGrants` | JobWithinGrant | |
| `ExecutionProofs!ExecutionTypeCorrect` | TypeOK | |
| `ExecutionProofs!StartedAtMostOnce` | AtMostOnce | |
| `ExecutionProofs!OnlyAuthorizedRuns` | RunsAsAuthorized | |
| `ExecutionProofs!NoConnectionAfterRevocation` | RevokedBeforeCheckNeverConnects | |
| `ExecutionProofs!RecordedSuccessIsReal` | SuccessIsReal | |
| `ApprovalProofs!ClaimsAreOneTime` | ClaimYieldsOneGrant | |
| `ApprovalProofs!AuditTellsTheJobs` | AuditMatchesJobs | |
| `ExecutionProofs!ExecutionFollowsLifecycle` | RowsFollowLifecycle | |
| `FileProofs!FileTypeCorrect` | TypeOK | |
| `FileProofs!RestartLosesLittle` | RestartLosesOnlyKillSwitch | |
| `FileProofs!FilesStayConsistent` | FilesConsistent | |
| `FileProofs!EnablingIsRequested` | EnabledWasRequested | |
| `FileProofs!UnauditedNeverRunsAlways` | UnauditedNeverRuns | |
| `FileProofs!AllowOnceHolds` | AllowOnceAuthorizesOne | |
| `FileProofs!ConfirmedRevocationHolds` | ConfirmedRevocationStopsStarts | |
| `ViewProofs!ChainStaysIntact` | ChainIntact | |
| `ViewProofs!ReadsTellTheTruth` | VerdictIsRight | |
| `ViewProofs!PaginationIsStable` | StablePages | |
| `ViewProofs!ViewIsTruthful` | TruthfulView | |
| `AdapterProofs!OperationsRecoverable` | RecoverableOperations | |
| `AdapterProofs!BatchesKeepTheirOrder` | SequentialOrder | |
| `AdapterProofs!ReportsAreTrue` | ReportsStayTrue | |
| `AdapterProofs!RefusalsHaveCause` | RefusedForCause | |
| `RelayProofs!SessionIsDurable` | DurableSession | |
| `RelayProofs!OperatorWritesHold` | OperatorWritesStick | |
| `RelayProofs!CompletedStaysFinal` | CompletedIsFinal | |
| `RelayProofs!DenialsHold` | DenialHolds | |

The modules' own assumptions are type facts about the constants
(`BoundsAssumption`, `DataAssumption`, `ExecutionAssumption`, `FileBounds`, `FileData`,
`ChainAssumption`, `ViewAssumption`, `ApiAssumption`, `AdapterAssumption`, `RelayAssumption`),
and that the value `None`, which stands for an absent row, certificate, read, session,
operation or call, is not one of these (`NoneAssumption`, `ReadingAssumption`, `ItemAssumption`,
`JobAssumption`, `AbsentAssumption`, `SessionAssumption`); TLC evaluates them all.
`ViewAssumption` also says that the ids of a table are finitely many and that a grant lives
for two units of time or more (in the code 30 seconds, `controlapi/grants.go:42`): a grant does not expire in the moment
of its insertion. `ExecutionAssumption` also says that deadlines lie within grants, which
`DeadlinesWithinGrants` proves of `ControlPlane`. EpochBound < MaxEpoch excludes the one
case in which revocation is not permanent, see Observations.

Arguments:

* *Types of ControlPlane.* TypeOK is not inductive: what a step writes depends on
  rows that a submission only refers to. `Typed` adds that a submission in flight and
  every row refer to existing grants, approvals and jobs (`SubBound`, `JobBound`,
  `ApprovalBound`).
* *Queue.* `EveryJobMoves` reduces every step to at most one of six moves of each job
  (staged, published, taken, begun, ended, at rest), `EveryGrantMoves` every step to a
  revocation, an Enable, the insertion of a grant or none of these. With them
  PublishedIsAuthorized is inductive by itself: publication looks at the authority in
  the same transaction, and each revocation cancels what it covers.
* *Revocation.* `Stale`: no grant is ahead of the epoch, and each dead grant is revoked
  or behind it. Epochs grow strictly below the limit, so that "behind" is final.
* *Refinement.* `Rooted` (every job hangs under an issued grant) makes `killed` stable for
  jobs not yet staged; then each of the six moves is an action of `JobLifecycle`.
* *Approvals.* ApprovalBinding is strengthened by: an authorized job has left the
  staged state for good (`AuthorizedLeft`), and only risky submissions and jobs carry an
  approval (`BoundIsRisky`). That an allow_once is spent once then follows from its
  consumption naming the job.
* *Types of Execution.* The execution deadline stays in its range only because the
  clock was read in the past and before the deadline of the job (`ReadInTime`), a check
  only belongs to a worker that checks or executes (`CheckOwned`), and an opened session
  has a job, a host and a command (`Opened`). `RunOnceMoves` reduces the steps of a
  worker to fourteen moves, `SessionMoves` those of sessions to four; the later proofs
  rest on these.
* *At most once.* A session past the marker was verified and its marker is on disk
  (`Marked`), and no two sessions of a job are past it (`Unique`). Neither is inductive
  without the other: removing the marker after a failed write is harmless only because
  no other session of the job can be past it.
* *Authorized.* The gate is past its grant check only for permitted categories, a
  certificate exists only for those, and no session opens without one (`Permitted`).
* *The check before execution.* A dead grant stays dead (`LostForGood`); a check that
  began with a dead grant finds it dead at its third read, so that whoever reaches the
  fourth began with a live one (`Aware`).
* *Results.* A worker looks at a session of its own job and reports success only after
  that session succeeded (`Truthful`), and sessions that succeeded stay so.
* *Claims and audit.* A claim is redeemed once because the grant of a redeemed claim
  carries its number and the claim is used from then on. For the trail every step is
  reduced to what it appends about a job next to what it does to its row (`Tells`);
  AuditMatchesJobs then needs that a job whose rejection is on record has ended without
  a result (`RejectedEnded`).
* *Refinement by Execution.* A row moves by at most one of five moves (`Takes`, `Begins`,
  `Ends`, `Rests`, `Dies`). Starting is a step of `JobLifecycle` only for a job under no
  revocation, which holds because REVOKE ALL and the revocation of a grant clear the
  queue in the same transaction (`QueueIsLive`).
* *Types and files of FileStores.* A handler may only name rows that exist (`HandlerBound`).
  Every step writes at most one store and leaves memory and file the same, whether or not
  the write fails, except for a thrown switch (`Sync`); `RowMoves`, `AdminMove` and `OpMove`
  then say how rows, operators and the handler may change. `EpochInv` adds to
  GrantEpochsDurable the grants about to be created and the revocations about to be
  confirmed, `EnableInv` to EnabledWasRequested the state in the file and the Enables under
  way, and `OutputInv` the reports between their two writes.
* *Audit before effect.* UnauditedNeverRuns needs that each place of the handler has the
  events of the places before it, and that everything from the queue upwards is
  authorized in the log (`LogInv`); no mutex is held between the claim and the start.
* *Allow once in two files.* Consumption and publication are two writes, and a crash or a
  failure may come between. `OnceInv` says what each place of the handler knows of its
  approval; that the approval of a staged job does not change hands (`RowInv`: rows and
  approvals keep their binding, a decision is final) makes it inductive.
* *Confirmed revocation.* The handler that holds the mutex looked at the authority before
  an operator without the mutex changed it. `RevokeInv`: between that look and the write a
  grant is not confirmed gone while the row still waits, since the revocation empties the
  queue, in a step of its own, before it is confirmed.
* *Chain.* In PostgreSQL a transaction that has built its event holds the lock of the head
  (`PendingInv`), so that the event still follows the head when it is inserted. In the file
  an unlittered chain has no line without its end (`LinkInv`). A reader between its two
  statements has the whole chain, or was overtaken and the head is past what it has
  (`ReaderInv`), so that it is never told "verified" of a part. In a littered file an
  acknowledged event may be glued to the line before it, but that line cannot be decoded
  and no later write repairs it (`StoredInv`): the file then never verifies.
* *Lists.* `NewestFirst` is the descending list of a finite set of items. That there is one
  for every finite set (`EverySetHasAList`) is proved by a least counterexample (WFMin of the
  library): take the smallest size of a set without a list, remove its oldest item, append
  it to the list of the others. That a page, its cursor and the list before it join into
  one descending list (`JoinedLists`) needs no induction.
* *Listings.* Every change of the tables is reduced to one step `Drift` (time passes, a row
  is inserted, a row moves, the authority changes), every step of the reader to one lemma.
  TruthfulView is not inductive: what a request shows was true because of what cannot have
  happened since its snapshot. `QueryInv` records that: relative to the
  snapshot a grant's state changes by revocation only, and a grant issued since in the epoch
  of the snapshot was active. For StablePages `CursorInv` says that the cursor is
  the last row shown and that each row that stayed within the filter is shown or comes after
  it. `CountInv`
  covers the overview between its two statements: failed is a final status, so that the
  failures read later are no fewer than those counted.
* *Audit pages.* `AuditInv`: a read that was not refused is numbered without gaps, so that its window is a
  run of consecutive numbers, and the cursor is an event of the read and of the chain; the
  next window may have moved past the cursor but is a run as well, so that the first event
  after the cursor is its neighbour or there is none (`RestOfWindow`, `JoinedRuns`). This rests on ChainInv, the invariant of
  `ChainStaysIntact`. The attempt also showed that two definitions, `In` and
  `DeriveGrantState`, had CASE arms that overlapped: TLC takes the first, the logic leaves
  the value open. They now follow the order of the code's conditions explicitly.
* *Adapter.* Everything on the wire, in the job table and in a call is a step of a journaled
  plan, under the session of its operation (`ServedInv`, `CallInv`), and in a sequential
  batch its predecessor is settled; being settled is stable (`Grows`), so that even a late
  delivery keeps the order. What a call holds of a step is true of its job (`StepInv`).
* *Relay.* `PlaceInv` says what the runner holds at each place. The file and the runner's
  copy agree on the request in flight, or the file is closed (`AgreeInv`), and whatever was
  sent or answered is answered or in flight in both (`HeldInv`): neither is inductive alone,
  since the runner writes its copy over the file. Until authorize has printed the secret
  nothing is signed (`EarlyInv`). Finality rests on: a response "completed" tells the status
  of a job that has ended (`Completed`), and no other one is in preparation (`FinalInv`).
* *Refusals.* A refused step had a job that was staged or over, which is cancelled or
  expired from then on, or its command is outside the grant, and no submission of it, late
  ones included, ever makes a job (`RefusalInv`).
* *Denials.* A denial rests on a refusal that is final (the operator's, the risk policy's
  or the grant's scope) while the request has no job, or on a job that is there and does
  not run (`Grounds`). That a refusal cancels the staged job it was about is needed here:
  otherwise a late copy of the submission could authorize it after the denial.

### Only model-checked

* The liveness properties PublishedWorkEnds, AuthorityLossStops, MailboxDrains and
  CallsReturn: fairness and ENABLED are out of the prover's reach.
* RetryRecovers and CloseDisables, which the code violates (see Findings).

## Findings

* `file_retry`. In file mode a crash between the consumption of an allow_once approval and
  the publication of its job (`controlops/authorization.go:129` and `:134`) cannot be
  repaired by a retry: the approval is consumed, nothing says by which job, and
  Authorize cancels the staged job (`:106`). `docs/EXECUTION_PROTOCOL.md:156` says that the
  retry "recovers and publishes the already-staged matching job". The code errs on the
  safe side (AllowOnceAuthorizesOne holds); the operator has to approve again.
* `relay_close`. close loads the session file, marks it closed and replaces it
  (`cmd/sentinel-github-relay/main.go:430`), and reports "closed locally". A poll of serve
  that had loaded the file before writes its own open copy back at its next save
  (`githubrelay/runner.go:193`, `205`, `271`, `309`, `420`), and the session is open again. A
  poll that waits for an approval or a job holds such a copy all that time. The usage
  text says "locally disable a relay session" (`main.go:589`). Without that race what
  close wrote stays (OperatorWritesStick).

### Observations

What the models show about the code without a run of its own:

* At the largest epoch RevokeAll throws the kill switch without advancing the epoch
  (`postgresrepo/authority.go:214`), and Enable has no check for it, so that enabling
  again revives the revoked grants; `docs/EMERGENCY_CONTROLS.md:18` and
  `docs/POSTGRESQL_PERSISTENCE.md:98` say that grants of a previous epoch stay stale. The
  file-mode store refuses Enable there. Reaching it takes 2^63 revocations. The
  theorems about revocation therefore assume EpochBound < MaxEpoch.
* RunOnce computes the remaining lifetime before it fetches the certificate
  (`worker/runner.go:78`) and starts the timeout after it (`:107`), so the execution
  context outlives the job by the time issuance took; `docs/SSH_EXECUTION.md:105` says that
  it is capped. The monitor ends the execution (AuthorityLossStops).
* A 403 of the Gateway also stands for a call to Control that failed
  (`gatewayapi/api.go:126`); the relay then answers `sentinel_denied` although the job may
  still be published (the exception in DenialHolds), and a masked 401 closes the
  session for good.
* A job that was staged when its submission died, and that recoverRequest finds, is
  waited for until the session expires (`Blocked`); submitting it again would authorize it.
* sentinel_check of a step whose job was cancelled or expired fails with "Sentinel backend
  request failed" instead of reporting that status, since it submits the request again
  and Control refuses (`mcpadapter/service.go:308`); sentinel_output still reads it.
* On a host whose time zone is not UTC a healthy audit chain in PostgreSQL does not verify
  (the exception in VerdictIsRight; the run `operator` is on a host in UTC). BuildEvent
  hashes the time of an event in UTC (`audit/build.go:16`); AuditStore.ReadVerified hashes it
  again as the driver returned it (`postgresrepo/audit_store.go:70`, `105`), without the
  `.UTC()` that other readers apply after their scans (`postgresrepo/operator_reader.go:356`),
  and every read fails with "audit hash mismatch", history, audit pages and overview with
  it. The comment of BuildEvent promises "one hash-chain format across development and
  PostgreSQL storage" (`audit/build.go:6`). This rests on pgx returning a timestamptz in the
  local zone of the process by default, which is outside the repository; a container runs
  in UTC by default and does not show it.
* A failed audit append in file mode may leave its line behind; the next one takes the
  same number, and from then on reads fail and Control does not start (the exception
  in ChainIntact).
* A grant issued between the two statements of a list may be shown as disabled or stale
  although it is active (the exception in ShownWasTrue); never the other way round.
* Audit events older than the newest 5000 cannot be paged to.
* An issue with more than 100 comments is never read again (`githubrelay/github.go:182`), by
  design; an issue used by several sessions reaches this sooner. Only a request already in
  flight is still answered (the exception in MailboxDrains).
* An Enable that was under way before a REVOKE ALL may undo its kill switch
  (`emergencyapi/controller.go:76`): EnabledWasRequested admits this. The grants that the
  revocation covered stay dead (ConfirmedRevocationStopsStarts).
* Newer denials: Match takes the newest decision of a scope before the authorizing
  transaction (`controlapi/commands.go:97`); a denial recorded meanwhile on another approval
  of the scope is not looked at again.
* A step whose target or permission the grant lacks is journaled and submitted by the
  adapter and refused by the Gateway or Control; sentinel_check repeats the refusal.
* A staged row whose submission died and is never retried is not swept
  (`postgresrepo/execution_lifecycle.go:41`); it can never be claimed either.
* The file stores ignore the error of the directory's sync after a rename
  (`executionjob/store.go:601`); the models take a returned rename as durable.

## Plan

Done: `JobLifecycle`, `ControlPlane`, `Execution`, `FileStores`, `AgentApi`, `Relay`, `Adapter`,
`AuditChain` and `OperatorView`, and proofs of every safety property that the passing runs
check. Next: agreement of `AgentApi` with `ControlPlane`, which is argued in prose above.

## Not modelled

* Operator proxy and web, the command line clients, the resource routes of the Gateway,
  context, notes and the target inventory forward, render or read and keep no state
  that a property is about.
* The rules of `risk` and of the egress policy are pure tables over strings of commands
  and addresses; `Risk` is a constant of `ControlPlane`, so that the results hold for every
  classification.
* Rendering of output in the adapter and the relay, GitHub's authentication and
  rate limits, TLS and tokens.
* The handlers of `controlapi/api.go` that newer ones replace.

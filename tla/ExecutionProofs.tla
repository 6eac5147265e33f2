-------------------------- MODULE ExecutionProofs --------------------------
(***************************************************************************)
(* Proofs about Execution, for any jobs, workers, sessions and targets.    *)
(***************************************************************************)
EXTENDS Execution, TLAPS

\* RunOnce knows its job at every step but the first.
Bound == \A w \in Workers : workers[w].pc # "idle" => workers[w].job \in Jobs

Typed == TypeOK /\ Bound

-----------------------------------------------------------------------------
(* Type correctness *)

\* An idle worker is well typed.
LEMMA IdleTyped == Idle \in Worker
  BY ExecutionAssumption DEF Idle, Worker, WorkerPC, Executing, Times

\* Each way RunOnce assigns its own state keeps it well typed.
LEMMA WorkerMoves ==
    ASSUME NEW x \in Worker
    PROVE  /\ \A pc \in WorkerPC : [x EXCEPT !.pc = pc] \in Worker
           /\ [x EXCEPT !.pc = "report", !.ok = FALSE] \in Worker
           /\ \A b \in BOOLEAN : [x EXCEPT !.pc = "report", !.ok = b] \in Worker
           /\ \A j \in Jobs : [x EXCEPT !.pc = "claimed", !.job = j] \in Worker
           /\ \A t \in Times : [x EXCEPT !.pc = "gate", !.readAt = t] \in Worker
           /\ \A d \in 0..(2 * MaxTime), b \in BOOLEAN :
                 [x EXCEPT !.pc = "check", !.deadline = d, !.aware = b] \in Worker
           /\ \A s \in Sessions : [x EXCEPT !.pc = "session", !.session = s] \in Worker
           /\ [x EXCEPT !.lost = TRUE] \in Worker
  BY DEF Worker, WorkerPC, Executing

\* The helpers Goto, ReportFailure and Return keep the workers well typed.
LEMMA HelpersTyped ==
    ASSUME Typed, NEW w \in Workers, workers[w].pc # "idle",
           \/ \E pc \in WorkerPC : Goto(w, pc)
           \/ ReportFailure(w)
           \/ Return(w)
    PROVE  workers' \in [Workers -> Worker] /\ Bound'
<1>1. workers \in [Workers -> Worker] /\ workers[w] \in Worker /\ workers[w].job \in Jobs
  BY DEF Typed, TypeOK, Bound
<1>2. ASSUME NEW pc \in WorkerPC, Goto(w, pc) PROVE workers' \in [Workers -> Worker] /\ Bound'
  <2>1. [workers[w] EXCEPT !.pc = pc] \in Worker
    BY <1>1, WorkerMoves
  <2> QED
    BY <1>1, <1>2, <2>1 DEF Goto, Typed, Bound, Worker
<1>3. CASE ReportFailure(w)
  <2>1. [workers[w] EXCEPT !.pc = "report", !.ok = FALSE] \in Worker
    BY <1>1, WorkerMoves
  <2> QED
    BY <1>1, <1>3, <2>1 DEF ReportFailure, Typed, Bound, Worker
<1>4. CASE Return(w)
  BY <1>1, <1>4, IdleTyped DEF Return, Typed, Bound, Idle
<1> QED
  BY <1>2, <1>3, <1>4

JobRow == [status : {"pending", "claimed", "running", "succeeded", "failed", "canceled", "expired"},
           claim : Workers \cup {None}]

\* The initial state, a full queue and idle workers, is well typed.
LEMMA InitTyped == Init => Typed
<1> SUFFICES ASSUME Init PROVE Typed
  OBVIOUS
<1>1. workers \in [Workers -> Worker]
  BY IdleTyped DEF Init
<1>2. now \in Times /\ authority \in [epoch : 0..MaxEpoch, disabled : BOOLEAN]
  BY ExecutionAssumption DEF Init, Times
<1> QED
  BY <1>1, <1>2 DEF Init, Typed, TypeOK, Bound, Idle, CheckPC, Session

\* Every update of the rows writes rows.
LEMMA RowsTyped ==
    ASSUME Typed
    PROVE  /\ \A st \in {"succeeded", "failed", "canceled", "expired"} : Ended(st) \in JobRow
           /\ \A j \in Jobs : jobs[j] \in JobRow /\ Swept(j) \in JobRow
           /\ \A sel : Cancel(sel) => jobs' \in [Jobs -> JobRow]
  BY DEF Typed, TypeOK, JobRow, Ended, Swept, Cancel

\* Revocations and Enable keep the state well typed.
LEMMA OperatorTyped == Typed /\ OperatorStep => Typed'
<1> SUFFICES ASSUME Typed, OperatorStep PROVE Typed'
  OBVIOUS
<1>1. CASE RevokeAll
  <2>1. jobs' \in [Jobs -> JobRow]
    BY <1>1, RowsTyped DEF RevokeAll
  <2>2. authority' \in [epoch : 0..MaxEpoch, disabled : BOOLEAN]
    BY <1>1, ExecutionAssumption DEF RevokeAll, Typed, TypeOK
  <2> QED
    BY <1>1, <2>1, <2>2 DEF RevokeAll, Typed, TypeOK, Bound, JobRow
<1>2. CASE Enable
  BY <1>2 DEF Enable, Typed, TypeOK, Bound
<1>3. ASSUME NEW g \in Grants, RevokeGrant(g) PROVE Typed'
  <2>1. jobs' \in [Jobs -> JobRow]
    BY <1>3, RowsTyped DEF RevokeGrant
  <2> QED
    BY <1>3, <2>1 DEF RevokeGrant, Typed, TypeOK, Bound, JobRow
<1> QED
  BY <1>1, <1>2, <1>3 DEF OperatorStep

\* So do the statements that move rows: claim, start, reject and complete.
LEMMA QueueTyped ==
    ASSUME Typed, NEW w \in Workers, Claim(w) \/ Start(w) \/ RejectClaim(w) \/ Report(w)
    PROVE  Typed'
<1>1. workers \in [Workers -> Worker] /\ workers[w] \in Worker /\ jobs \in [Jobs -> JobRow]
  BY DEF Typed, TypeOK, JobRow
<1>2. CASE Claim(w)
  <2>1. jobs' \in [Jobs -> JobRow]
    <3>1. [status |-> "claimed", claim |-> w] \in JobRow
      BY DEF JobRow
    <3> QED
      BY <1>2, <3>1, RowsTyped DEF Claim
  <2>2. workers' \in [Workers -> Worker] /\ Bound'
    <3>1. CASE UNCHANGED workers
      BY <3>1 DEF Typed, TypeOK, Bound
    <3>2. ASSUME NEW j \in Jobs,
                 workers' = [workers EXCEPT ![w] = [@ EXCEPT !.pc = "claimed", !.job = j]]
          PROVE  workers' \in [Workers -> Worker] /\ Bound'
      <4>1. [workers[w] EXCEPT !.pc = "claimed", !.job = j] \in Worker
        BY <1>1, WorkerMoves
      <4> QED
        BY <1>1, <3>2, <4>1 DEF Typed, Bound, Worker
    <3> QED
      BY <1>2, <3>1, <3>2 DEF Claim, Claimable
  <2> QED
    BY <1>2, <2>1, <2>2 DEF Claim, Typed, TypeOK, JobRow
<1>3. CASE Start(w)
  <2>1. workers[w].job \in Jobs
    BY <1>3 DEF Start, Typed, Bound
  <2>2. jobs' \in [Jobs -> JobRow]
    BY <1>1, <1>3, <2>1, RowsTyped DEF Start, JobRow
  <2>3. workers' \in [Workers -> Worker] /\ Bound'
    BY <1>3, HelpersTyped DEF Start, WorkerPC
  <2> QED
    BY <1>3, <2>2, <2>3 DEF Start, Typed, TypeOK, JobRow
<1>4. CASE RejectClaim(w)
  <2>1. jobs' \in [Jobs -> JobRow]
    BY <1>1, <1>4, RowsTyped DEF RejectClaim
  <2>2. workers' \in [Workers -> Worker] /\ Bound'
    BY <1>4, HelpersTyped DEF RejectClaim
  <2> QED
    BY <1>4, <2>1, <2>2 DEF RejectClaim, Typed, TypeOK, JobRow
<1>5. CASE Report(w)
  <2>1. jobs' \in [Jobs -> JobRow]
    BY <1>1, <1>5, RowsTyped DEF Report
  <2>2. workers' \in [Workers -> Worker] /\ Bound'
    BY <1>5, HelpersTyped DEF Report
  <2> QED
    BY <1>5, <2>1, <2>2 DEF Report, Typed, TypeOK, JobRow
<1> QED
  BY <1>2, <1>3, <1>4, <1>5

\* So does the certificate gate; the signer caps the certificate within the clock.
LEMMA GateTyped ==
    ASSUME Typed, NEW w \in Workers,
           ReadClock(w) \/ GateClaim(w) \/ GateGrant(w) \/ Sign(w) \/ IssuanceFails(w)
    PROVE  Typed'
<1>1. workers \in [Workers -> Worker] /\ workers[w] \in Worker /\ now \in Times
  BY DEF Typed, TypeOK
<1>2. CASE ReadClock(w)
  <2>1. CASE ReportFailure(w)
    BY <1>2, <2>1, HelpersTyped DEF ReadClock, Typed, TypeOK
  <2>2. CASE workers' = [workers EXCEPT ![w] = [@ EXCEPT !.pc = "gate", !.readAt = now]]
    <3>1. [workers[w] EXCEPT !.pc = "gate", !.readAt = now] \in Worker
      BY <1>1, WorkerMoves
    <3>2. Bound'
      BY <1>1, <1>2, <2>2, <3>1 DEF ReadClock, Typed, Bound, Worker
    <3> QED
      BY <1>1, <1>2, <2>2, <3>1, <3>2 DEF ReadClock, Typed, TypeOK
  <2> QED
    BY <1>2, <2>1, <2>2 DEF ReadClock
<1>3. CASE GateClaim(w)
  <2>1. workers' \in [Workers -> Worker] /\ Bound'
    BY <1>3, HelpersTyped DEF GateClaim, WorkerPC
  <2> QED
    BY <1>3, <2>1 DEF GateClaim, Typed, TypeOK
<1>4. CASE GateGrant(w)
  <2>1. workers' \in [Workers -> Worker] /\ Bound'
    BY <1>4, HelpersTyped DEF GateGrant, WorkerPC
  <2> QED
    BY <1>4, <2>1 DEF GateGrant, Typed, TypeOK
<1>5. CASE Sign(w)
  <2>1. workers' \in [Workers -> Worker] /\ Bound'
    BY <1>5, HelpersTyped DEF Sign, WorkerPC
  <2>2. workers[w].job \in Jobs
    BY <1>5 DEF Sign, Typed, Bound
  <2>3. now < Expires[workers[w].job] =>
          [at |-> now, before |-> Earlier(now + CertTTL, Expires[workers[w].job])] \in Certificate
    BY <1>1, <2>2, ExecutionAssumption DEF Certificate, Earlier, Times
  <2>4. certs' \in [Jobs -> Certificate \cup {None}]
    BY <1>5, <2>2, <2>3 DEF Sign, Typed, TypeOK
  <2> QED
    BY <1>5, <2>1, <2>4 DEF Sign, Typed, TypeOK
<1>6. CASE IssuanceFails(w)
  <2>1. workers' \in [Workers -> Worker] /\ Bound'
    BY <1>6, HelpersTyped DEF IssuanceFails
  <2> QED
    BY <1>6, <2>1 DEF IssuanceFails, Typed, TypeOK
<1> QED
  BY <1>2, <1>3, <1>4, <1>5, <1>6

\* The clock was read in the past, before the job's deadline.
ReadInTime == \A w \in Workers :
    workers[w].pc \in {"gate", "auth", "sign", "bind"} => workers[w].readAt <= now
                                             /\ workers[w].readAt < Expires[workers[w].job]

\* So does Bind: an old clock read keeps the execution deadline within twice the horizon.
LEMMA BindTyped ==
    ASSUME Typed, ReadInTime, NEW w \in Workers, Bind(w)
    PROVE  Typed'
<1>1. workers \in [Workers -> Worker] /\ workers[w] \in Worker /\ workers[w].job \in Jobs
  BY DEF Bind, Typed, TypeOK, Bound
<1>2. CASE ReportFailure(w) /\ UNCHANGED checks
  BY <1>2, HelpersTyped DEF Bind, Typed, TypeOK
<1>3. CASE /\ workers' = [workers EXCEPT ![w] =
                  [@ EXCEPT !.pc = "check", !.deadline = ExecDeadline(w),
                            !.aware = Live(GrantOf[workers[w].job])]]
           /\ checks' = [checks EXCEPT ![w] = "state"]
  <2>1. ExecDeadline(w) \in 0..(2 * MaxTime)
    BY <1>1, ExecutionAssumption DEF Bind, ReadInTime, Typed, TypeOK, Worker, ExecDeadline, Times
  <2>2. Live(GrantOf[workers[w].job]) \in BOOLEAN
    BY DEF Live
  <2>3. [workers[w] EXCEPT !.pc = "check", !.deadline = ExecDeadline(w),
                           !.aware = Live(GrantOf[workers[w].job])] \in Worker
    BY <1>1, <2>1, <2>2, WorkerMoves
  <2>4. Bound'
    BY <1>1, <1>3, <2>3 DEF Typed, Bound, Worker
  <2> QED
    BY <1>1, <1>3, <2>3, <2>4 DEF Bind, Typed, TypeOK, CheckPC
<1> QED
  BY <1>2, <1>3 DEF Bind

\* A check in flight belongs to a worker that knows its job.
CheckOwned == \A w \in Workers : checks[w] # "none" => workers[w].pc \in {"check"} \cup Executing

\* So does every read of checkAuthority, before execution or from the monitor.
LEMMA CheckTyped ==
    ASSUME Typed, CheckOwned, NEW w \in Workers, Monitor(w) \/ CheckFails(w)
    PROVE  Typed'
<1>1. workers \in [Workers -> Worker] /\ workers[w] \in Worker
  BY DEF Typed, TypeOK
<1>2. workers[w].pc # "idle"
  BY DEF CheckOwned, Executing, Monitor, CheckFails, MonitorTick, CheckState, CheckClaim,
         CheckGrant, CheckAgain, Read
<1>3. UNCHANGED <<now, authority, revoked, jobs, certs, sessions, markers>>
  BY DEF Monitor, CheckFails, MonitorTick, CheckState, CheckClaim, CheckGrant, CheckAgain, Read
<1>4. checks' \in [Workers -> CheckPC]
  BY DEF Monitor, CheckFails, MonitorTick, CheckState, CheckClaim, CheckGrant, CheckAgain, Read,
         Deny, Allow, Typed, TypeOK, CheckPC
<1>5. \/ UNCHANGED workers
      \/ ReportFailure(w)
      \/ Goto(w, "dial")
      \/ workers' = [workers EXCEPT ![w].lost = TRUE]
  BY DEF Monitor, CheckFails, MonitorTick, CheckState, CheckClaim, CheckGrant, CheckAgain, Read,
         Deny, Allow
<1>6. workers' \in [Workers -> Worker] /\ Bound'
  <2>1. CASE UNCHANGED workers
    BY <1>1, <2>1 DEF Typed, Bound
  <2>2. CASE ReportFailure(w) \/ Goto(w, "dial")
    BY <1>2, <2>2, HelpersTyped DEF WorkerPC, Executing
  <2>3. CASE workers' = [workers EXCEPT ![w].lost = TRUE]
    <3>1. [workers[w] EXCEPT !.lost = TRUE] \in Worker
      BY <1>1, WorkerMoves
    <3> QED
      BY <1>1, <2>3, <3>1 DEF Typed, Bound, Worker
  <2> QED
    BY <1>5, <2>1, <2>2, <2>3
<1> QED
  BY <1>3, <1>4, <1>6 DEF Typed, TypeOK

\* So do dialling, the handshake, the end of an execution and a crash.
LEMMA ConnectTyped ==
    ASSUME Typed, NEW w \in Workers,
           Dial(w) \/ Handshake(w) \/ ExecuteReturns(w) \/ Crash(w)
    PROVE  Typed'
<1>1. workers \in [Workers -> Worker] /\ workers[w] \in Worker /\ checks \in [Workers -> CheckPC]
  BY DEF Typed, TypeOK
<1>2. CASE Dial(w)
  <2>1. workers' \in [Workers -> Worker] /\ Bound'
    BY <1>2, HelpersTyped DEF Dial, WorkerPC, Executing
  <2> QED
    BY <1>1, <1>2, <2>1 DEF Dial, Typed, TypeOK, CheckPC
<1>3. CASE Handshake(w)
  <2>1. workers[w].job \in Jobs
    BY <1>3 DEF Handshake, Typed, Bound
  <2>2. CASE ReportFailure(w) /\ checks' = [checks EXCEPT ![w] = "none"] /\ UNCHANGED sessions
    <3>1. workers' \in [Workers -> Worker] /\ Bound'
      BY <1>3, <2>2, HelpersTyped DEF Handshake
    <3> QED
      BY <1>1, <1>3, <2>2, <3>1 DEF Handshake, Typed, TypeOK, CheckPC
  <2>3. ASSUME NEW s \in Sessions, UNCHANGED checks,
               OpenSession(s, workers[w].job, TargetOf[workers[w].job],
                   [job |-> workers[w].job, target |-> TargetOf[workers[w].job],
                    body |-> workers[w].job]),
               workers' = [workers EXCEPT ![w] = [@ EXCEPT !.pc = "session", !.session = s]]
        PROVE  Typed'
    <3>1. [workers[w] EXCEPT !.pc = "session", !.session = s] \in Worker
      BY <1>1, WorkerMoves
    <3>2. workers' \in [Workers -> Worker]
      BY <1>1, <2>3, <3>1
    <3>3. Bound'
      BY <1>1, <2>1, <2>3, <3>1 DEF Typed, Bound, Worker
    <3>4. TargetOf[workers[w].job] \in Targets
      BY <2>1, ExecutionAssumption
    <3>5. sessions' \in [Sessions -> Session]
      BY <2>1, <2>3, <3>4 DEF OpenSession, Typed, TypeOK, Session, Envelope
    <3> QED
      BY <1>3, <2>3, <3>2, <3>3, <3>5 DEF Handshake, Typed, TypeOK
  <2> QED
    BY <1>3, <2>2, <2>3 DEF Handshake
<1>4. CASE ExecuteReturns(w)
  <2>1. workers' \in [Workers -> Worker] /\ Bound'
    <3>1. CASE ReportFailure(w)
      BY <1>4, <3>1, HelpersTyped DEF ExecuteReturns
    <3>2. CASE workers' = [workers EXCEPT ![w] = [@ EXCEPT !.pc = "report", !.ok = RemoteSucceeded(w)]]
      <4>1. RemoteSucceeded(w) \in BOOLEAN
        BY DEF RemoteSucceeded
      <4>2. [workers[w] EXCEPT !.pc = "report", !.ok = RemoteSucceeded(w)] \in Worker
        BY <1>1, <4>1, WorkerMoves
      <4> QED
        BY <1>1, <1>4, <3>2, <4>2 DEF ExecuteReturns, Typed, Bound, Worker
    <3> QED
      BY <1>4, <3>1, <3>2 DEF ExecuteReturns
  <2> QED
    BY <1>1, <1>4, <2>1 DEF ExecuteReturns, Typed, TypeOK, CheckPC
<1>5. CASE Crash(w)
  <2>1. workers' \in [Workers -> Worker] /\ Bound'
    BY <1>5, HelpersTyped DEF Crash
  <2> QED
    BY <1>1, <1>5, <2>1 DEF Crash, Typed, TypeOK, CheckPC
<1> QED
  BY <1>2, <1>3, <1>4, <1>5

\* An opened session knows its job, its host and its command.
Opened == \A s \in Sessions : sessions[s].pc # "unused" =>
    sessions[s].job \in Jobs /\ sessions[s].host \in Targets /\ sessions[s].env \in Envelope

\* So does every step of the wrapper and of the consume helper on the target.
LEMMA TargetTyped ==
    ASSUME Typed, Opened, NEW s \in Sessions, TargetStep(s)
    PROVE  Typed'
<1>1. sessions \in [Sessions -> Session] /\ sessions[s] \in Session
  BY DEF Typed, TypeOK
<1>2. ASSUME NEW pc \in {"marking", "consumed", "running", "succeeded", "failed", "refused"},
             SessionGoto(s, pc)
      PROVE  sessions' \in [Sessions -> Session]
  BY <1>1, <1>2 DEF SessionGoto, Session
<1>3. sessions' \in [Sessions -> Session]
  <2>1. CASE Replay(s)
    BY <1>1, <2>1 DEF Replay, OpenSession, Session
  <2>2. CASE ~Replay(s)
    BY <1>2, <2>2 DEF TargetStep, Consume, MarkFails, MarkDone, Refuse, Exec, Exit
  <2> QED
    BY <2>1, <2>2
<1>4. markers' \subseteq Targets \X Jobs
  <2>1. CASE Consume(s)
    BY <1>1, <2>1 DEF Consume, MayConsume, Opened, Typed, TypeOK
  <2>2. CASE ~Consume(s)
    BY <2>2 DEF TargetStep, Replay, MarkFails, MarkDone, Refuse, Exec, Exit, Typed, TypeOK
  <2> QED
    BY <2>1, <2>2
<1>5. UNCHANGED <<now, authority, revoked, jobs, workers, checks, certs>>
  BY DEF TargetStep, Replay, Consume, MarkFails, MarkDone, Refuse, Exec, Exit
<1> QED
  BY <1>3, <1>4, <1>5 DEF Typed, TypeOK, Bound

\* What the inductive invariant adds to the types so that they are inductive.
Shape == Typed /\ ReadInTime /\ CheckOwned /\ Opened

\* A worker's step is its own: other workers and the operator's state are untouched.
LEMMA WorkerFrame ==
    ASSUME Typed, NEW w \in Workers, WorkerStep(w)
    PROVE  /\ \A v \in Workers : v # w => workers'[v] = workers[v] /\ checks'[v] = checks[v]
           /\ UNCHANGED <<now, authority, revoked, markers>>
<1> USE DEF Goto, Return, ReportFailure
<1>1. workers \in [Workers -> Worker] /\ checks \in [Workers -> CheckPC]
  BY DEF Typed, TypeOK
<1>2. CASE Claim(w) \/ Start(w) \/ ReadClock(w) \/ GateClaim(w) \/ GateGrant(w) \/ Sign(w)
  BY <1>1, <1>2 DEF Claim, Start, ReadClock, GateClaim, GateGrant, Sign
<1>3. CASE RejectClaim(w) \/ IssuanceFails(w) \/ Bind(w) \/ Monitor(w) \/ CheckFails(w)
  BY <1>1, <1>3 DEF RejectClaim, IssuanceFails, Bind, Monitor, CheckFails, MonitorTick, CheckState, CheckClaim,
                    CheckGrant, CheckAgain, Read, Deny, Allow
<1>4. CASE Dial(w) \/ Handshake(w) \/ ExecuteReturns(w) \/ Report(w) \/ Crash(w)
  BY <1>1, <1>4 DEF Dial, Handshake, ExecuteReturns, Report, Crash
<1> QED
  BY <1>2, <1>3, <1>4 DEF WorkerStep

\* Steps that are no worker's leave every worker and its check alone.
LEMMA OtherFrame ==
    ASSUME OperatorStep \/ (\E s \in Sessions : TargetStep(s)) \/ Tick
    PROVE  UNCHANGED <<workers, checks, certs>>
  BY DEF OperatorStep, RevokeAll, Enable, RevokeGrant, TargetStep, Replay, Consume, MarkFails,
         MarkDone, Refuse, Exec, Exit, Tick

\* Every way in which sessions, markers and certificates change.
LEMMA SessionMoves ==
    ASSUME Shape, Next
    PROVE  \/ UNCHANGED <<sessions, markers>>
           \/ /\ UNCHANGED markers
              /\ \E s \in Sessions, j \in Jobs, host \in Targets, env \in Envelope :
                   OpenSession(s, j, host, env)
           \/ \E s \in Sessions : Consume(s) \/ MarkFails(s)
           \/ UNCHANGED markers /\ \E s \in Sessions :
                \/ sessions[s].pc \in {"open", "consumed"} /\ SessionGoto(s, "refused")
                \/ /\ sessions[s].pc \in {"marking", "consumed", "running"}
                   /\ \E pc \in {"consumed", "running", "succeeded", "failed"} : SessionGoto(s, pc)
<1>1. CASE OperatorStep \/ Tick
  BY <1>1 DEF OperatorStep, RevokeAll, Enable, RevokeGrant, Tick
<1>2. ASSUME NEW w \in Workers, WorkerStep(w), ~Handshake(w)
      PROVE  UNCHANGED <<sessions, markers>>
  BY <1>2 DEF WorkerStep, Claim, Start, ReadClock, GateClaim, GateGrant, Sign, RejectClaim, IssuanceFails, Bind,
              Monitor, CheckFails, MonitorTick, CheckState, CheckClaim, CheckGrant, CheckAgain,
              Read, Dial, ExecuteReturns, Report, Crash
<1>3. ASSUME NEW w \in Workers, Handshake(w)
      PROVE  \/ UNCHANGED <<sessions, markers>>
             \/ /\ UNCHANGED markers
                /\ \E s \in Sessions, j \in Jobs, host \in Targets, env \in Envelope :
                     OpenSession(s, j, host, env)
  <2>1. workers[w].job \in Jobs
    BY <1>3 DEF Handshake, Shape, Typed, Bound
  <2>2. TargetOf[workers[w].job] \in Targets
    BY <2>1, ExecutionAssumption
  <2>3. [job |-> workers[w].job, target |-> TargetOf[workers[w].job], body |-> workers[w].job]
          \in Envelope
    BY <2>1, <2>2 DEF Envelope
  <2> QED
    BY <1>3, <2>1, <2>2, <2>3 DEF Handshake
<1>4. ASSUME NEW s \in Sessions, Replay(s)
      PROVE  /\ UNCHANGED markers
             /\ \E j \in Jobs, host \in Targets, env \in Envelope : OpenSession(s, j, host, env)
  BY <1>4 DEF Replay
<1>5. ASSUME NEW s \in Sessions, MarkDone(s) \/ Refuse(s) \/ Exec(s) \/ Exit(s)
      PROVE  /\ UNCHANGED markers
             /\ \/ sessions[s].pc \in {"open", "consumed"} /\ SessionGoto(s, "refused")
                \/ /\ sessions[s].pc \in {"marking", "consumed", "running"}
                   /\ \E pc \in {"consumed", "running", "succeeded", "failed"} : SessionGoto(s, pc)
  BY <1>5 DEF MarkDone, Refuse, Exec, Exit
<1> QED
  BY <1>1, <1>2, <1>3, <1>4, <1>5 DEF Next, TargetStep

\* Sessions open with a job, a host and a command, and keep them.
LEMMA OpenedStep ==
    ASSUME Shape, Next
    PROVE  Opened'
<1>1. sessions \in [Sessions -> Session]
  BY DEF Shape, Typed, TypeOK
<1>2. ASSUME NEW s \in Sessions, NEW j \in Jobs, NEW host \in Targets, NEW env \in Envelope,
             OpenSession(s, j, host, env)
      PROVE  Opened'
  BY <1>1, <1>2 DEF OpenSession, Shape, Opened
<1>3. ASSUME NEW s \in Sessions, NEW pc, sessions[s].pc # "unused", SessionGoto(s, pc)
      PROVE  Opened'
  BY <1>1, <1>3 DEF SessionGoto, Shape, Opened, Session
<1>4. ASSUME UNCHANGED sessions PROVE Opened'
  BY <1>4 DEF Shape, Opened
<1>5. ASSUME NEW s \in Sessions, Consume(s) \/ MarkFails(s) PROVE Opened'
  BY <1>3, <1>5 DEF Consume, MayConsume, MarkFails
<1> QED
  BY SessionMoves, <1>2, <1>3, <1>4, <1>5

\* From one step of RunOnce to the next.
Moves(w, x, y) ==
    \/ y = x
    \/ y.pc \in {"idle", "claimed", "started"}
    \/ y.pc = "report" /\ ~y.ok
    \/ x.pc = "session" /\ y.pc = "report" /\ y.job = x.job /\ y.ok = RemoteSucceeded(w)
    \/ y.pc = "gate" /\ y.readAt = now /\ now < Expires[y.job]
    \/ x.pc \in {"gate", "auth", "sign"} /\ y.pc = "reject"
    \/ x.pc = "gate" /\ y.pc = "auth" /\ y.job = x.job /\ y.readAt = x.readAt
    \/ /\ x.pc = "auth" /\ y.pc = "sign" /\ y.job = x.job /\ y.readAt = x.readAt
       /\ ShellPermitted(y.job)
    \/ x.pc = "sign" /\ y.pc = "bind" /\ y.job = x.job /\ y.readAt = x.readAt
    \/ /\ x.pc = "bind" /\ y.pc = "check" /\ y.aware = Live(GrantOf[y.job])
       /\ checks'[w] = "state"
    \/ /\ x.pc = "check" /\ y.pc = "dial" /\ y.aware = x.aware
       /\ checks[w] = "again"
    \/ /\ x.pc \in Executing /\ y.pc = x.pc /\ y.job = x.job /\ y.aware = x.aware
       /\ y.session = x.session
    \/ x.pc = "dial" /\ y.pc = "handshake" /\ y.aware = x.aware
    \/ /\ x.pc = "handshake" /\ y.pc = "session" /\ y.job = x.job /\ y.aware = x.aware
       /\ y.session \in Sessions
       /\ sessions'[y.session].pc = "open" /\ sessions'[y.session].job = y.job

\* Moves is complete: every step of a worker is one of its disjuncts.
LEMMA RunOnceMoves ==
    ASSUME Typed, CheckOwned, NEW w \in Workers, WorkerStep(w)
    PROVE  Moves(w, workers[w], workers'[w])
<1> DEFINE x == workers[w]
<1>1. workers \in [Workers -> Worker] /\ x \in Worker /\ checks \in [Workers -> CheckPC]
  BY DEF Typed, TypeOK
<1>2. ASSUME NEW pc, Goto(w, pc)
      PROVE  /\ workers'[w].pc = pc /\ workers'[w].job = x.job
             /\ workers'[w].readAt = x.readAt /\ workers'[w].aware = x.aware
  <2>1. workers'[w] = [x EXCEPT !.pc = pc]
    BY <1>1, <1>2 DEF Goto
  <2> QED
    BY <1>1, <2>1 DEF Worker
<1>3. Return(w) => workers'[w].pc = "idle"
  BY <1>1 DEF Return, Idle
<1>4. ReportFailure(w) => workers'[w].pc = "report" /\ ~workers'[w].ok
  <2>1. ReportFailure(w) => workers'[w] = [x EXCEPT !.pc = "report", !.ok = FALSE]
    BY <1>1 DEF ReportFailure
  <2> QED
    BY <1>1, <2>1 DEF Worker
<1>5. CASE Claim(w)
  <2>1. ASSUME NEW j, workers' = [workers EXCEPT ![w] = [@ EXCEPT !.pc = "claimed", !.job = j]]
        PROVE  workers'[w].pc = "claimed"
    BY <1>1, <2>1 DEF Worker
  <2> QED
    BY <1>5, <2>1 DEF Claim, Moves
<1>6. CASE Start(w)
  BY <1>1, <1>2, <1>3, <1>6 DEF Start, Moves
<1>7. CASE ReadClock(w)
  <2>1. CASE workers' = [workers EXCEPT ![w] = [@ EXCEPT !.pc = "gate", !.readAt = now]]
    <3>1. workers'[w] = [x EXCEPT !.pc = "gate", !.readAt = now]
      BY <1>1, <2>1
    <3>2. workers'[w].pc = "gate" /\ workers'[w].readAt = now /\ workers'[w].job = x.job
      BY <1>1, <3>1 DEF Worker
    <3>3. now < Expires[x.job] \/ ReportFailure(w)
      BY <1>7 DEF ReadClock
    <3> QED
      BY <1>4, <3>2, <3>3 DEF Moves
  <2> QED
    BY <1>4, <1>7, <2>1 DEF ReadClock, Moves
<1>8. CASE GateClaim(w)
  BY <1>1, <1>2, <1>4, <1>8 DEF GateClaim, Moves
<1>9. CASE GateGrant(w)
  <2>1. CASE Goto(w, "sign") /\ ShellPermitted(x.job)
    BY <1>1, <1>2, <1>9, <2>1 DEF GateGrant, Moves
  <2>2. CASE Goto(w, "reject")
    BY <1>1, <1>2, <1>9, <2>2 DEF GateGrant, Moves
  <2> QED
    BY <1>9, <2>1, <2>2 DEF GateGrant
<1>10. CASE Sign(w)
  BY <1>1, <1>2, <1>10 DEF Sign, Moves
<1>11. CASE RejectClaim(w) \/ IssuanceFails(w)
  BY <1>4, <1>11 DEF RejectClaim, IssuanceFails, Moves
<1>12. CASE Bind(w)
  <2>1. CASE /\ workers' = [workers EXCEPT ![w] =
                  [@ EXCEPT !.pc = "check", !.deadline = ExecDeadline(w),
                            !.aware = Live(GrantOf[workers[w].job])]]
             /\ checks' = [checks EXCEPT ![w] = "state"]
    <3>1. workers'[w] = [x EXCEPT !.pc = "check", !.deadline = ExecDeadline(w),
                                  !.aware = Live(GrantOf[x.job])]
      BY <1>1, <2>1
    <3>2. workers'[w].pc = "check" /\ workers'[w].job = x.job /\ workers'[w].aware = Live(GrantOf[x.job])
      BY <1>1, <3>1 DEF Worker
    <3> QED
      BY <1>1, <1>12, <2>1, <3>2 DEF Bind, Moves
  <2> QED
    BY <1>4, <1>12, <2>1 DEF Bind, Moves
<1>13. CASE Monitor(w) \/ CheckFails(w)
  <2>1. \/ UNCHANGED workers
        \/ ReportFailure(w)
        \/ Goto(w, "dial") /\ x.pc = "check" /\ checks[w] = "again"
        \/ workers' = [workers EXCEPT ![w].lost = TRUE] /\ x.pc \in Executing
    BY <1>13 DEF Monitor, CheckFails, MonitorTick, CheckState, CheckClaim, CheckGrant, CheckAgain,
                 Read, Deny, Allow, CheckOwned
  <2>2. CASE workers' = [workers EXCEPT ![w].lost = TRUE] /\ x.pc \in Executing
    <3>1. workers'[w] = [x EXCEPT !.lost = TRUE]
      BY <1>1, <2>2
    <3> QED
      BY <1>1, <2>2, <3>1 DEF Moves, Worker
  <2>3. CASE Goto(w, "dial") /\ x.pc = "check" /\ checks[w] = "again"
    BY <1>1, <1>2, <2>3 DEF Moves
  <2> QED
    BY <1>4, <2>1, <2>2, <2>3 DEF Moves
<1>14. CASE Dial(w)
  BY <1>1, <1>2, <1>4, <1>14 DEF Dial, Moves
<1>15. CASE Handshake(w)
  <2>1. ASSUME NEW s \in Sessions,
               sessions'[s].pc = "open", sessions'[s].job = x.job,
               workers' = [workers EXCEPT ![w] = [@ EXCEPT !.pc = "session", !.session = s]]
        PROVE  Moves(w, x, workers'[w])
    <3>1. workers'[w] = [x EXCEPT !.pc = "session", !.session = s]
      BY <1>1, <2>1
    <3>2. /\ workers'[w].pc = "session" /\ workers'[w].session = s
          /\ workers'[w].job = x.job /\ workers'[w].aware = x.aware
      BY <1>1, <3>1 DEF Worker
    <3> QED
      BY <1>15, <2>1, <3>2 DEF Handshake, Moves
  <2>2. ASSUME NEW s \in Sessions, NEW j, NEW host, NEW env, OpenSession(s, j, host, env)
        PROVE  sessions'[s].pc = "open" /\ sessions'[s].job = j
    BY <2>2 DEF OpenSession, Typed, TypeOK
  <2> QED
    BY <1>4, <1>15, <2>1, <2>2 DEF Handshake, Moves
<1>16. CASE ExecuteReturns(w)
  <2>1. CASE workers' = [workers EXCEPT ![w] = [@ EXCEPT !.pc = "report", !.ok = RemoteSucceeded(w)]]
    <3>1. workers'[w] = [x EXCEPT !.pc = "report", !.ok = RemoteSucceeded(w)]
      BY <1>1, <2>1
    <3>2. workers'[w].pc = "report" /\ workers'[w].ok = RemoteSucceeded(w) /\ workers'[w].job = x.job
      BY <1>1, <3>1 DEF Worker
    <3> QED
      BY <1>16, <3>2 DEF ExecuteReturns, Moves
  <2> QED
    BY <1>4, <1>16, <2>1 DEF ExecuteReturns, Moves
<1>17. CASE Report(w) \/ Crash(w)
  BY <1>3, <1>17 DEF Report, Crash, Moves
<1> QED
  BY <1>5, <1>6, <1>7, <1>8, <1>9, <1>10, <1>11, <1>12, <1>13, <1>14, <1>15, <1>16, <1>17
     DEF WorkerStep

\* RunOnce's clock read stays in the past and before the deadline.
LEMMA ReadInTimeStep ==
    ASSUME Shape, Next
    PROVE  ReadInTime'
<1>1. workers \in [Workers -> Worker] /\ now \in Nat /\ ReadInTime
  BY DEF Shape, Typed, TypeOK, Times
<1>2. CASE OperatorStep \/ (\E s \in Sessions : TargetStep(s))
  <2>1. now' = now /\ workers' = workers
    BY <1>2, OtherFrame DEF OperatorStep, RevokeAll, Enable, RevokeGrant, TargetStep, Replay,
            Consume, MarkFails, MarkDone, Refuse, Exec, Exit
  <2> QED
    BY <1>1, <2>1 DEF ReadInTime
<1>3. CASE Tick
  BY <1>1, <1>3 DEF Tick, ReadInTime, Worker, Times
<1>4. ASSUME NEW w \in Workers, WorkerStep(w) PROVE ReadInTime'
  <2>1. Moves(w, workers[w], workers'[w]) /\ now' = now
    BY <1>4, RunOnceMoves, WorkerFrame DEF Shape
  <2>2. workers'[w].pc \in {"gate", "auth", "sign", "bind"} =>
           workers'[w].readAt <= now /\ workers'[w].readAt < Expires[workers'[w].job]
    BY <1>1, <2>1 DEF Moves, ReadInTime, Executing
  <2> QED
    BY <1>1, <1>4, <2>1, <2>2, WorkerFrame DEF ReadInTime, Shape
<1> QED
  BY <1>2, <1>3, <1>4 DEF Next

\* An authority check never outlives the execution it guards.
LEMMA CheckOwnedStep ==
    ASSUME Shape, Next
    PROVE  CheckOwned'
<1>1. workers \in [Workers -> Worker] /\ checks \in [Workers -> CheckPC] /\ CheckOwned
  BY DEF Shape, Typed, TypeOK
<1>2. CASE OperatorStep \/ (\E s \in Sessions : TargetStep(s)) \/ Tick
  BY <1>1, <1>2, OtherFrame DEF CheckOwned
<1>3. ASSUME NEW w \in Workers, WorkerStep(w) PROVE CheckOwned'
  <2>1. Moves(w, workers[w], workers'[w])
    BY <1>3, RunOnceMoves DEF Shape
  <2>2. CASE checks'[w] = "none"
    BY <1>1, <1>3, <2>2, WorkerFrame DEF CheckOwned, Shape
  <2>3. CASE workers'[w].pc \in {"check"} \cup Executing
    BY <1>1, <1>3, <2>3, WorkerFrame DEF CheckOwned, Shape
  <2>4. checks'[w] = "none" \/ workers'[w].pc \in {"check"} \cup Executing
    <3>1. CASE Claim(w) \/ Start(w) \/ ReadClock(w) \/ GateClaim(w) \/ GateGrant(w) \/ Sign(w)
               \/ RejectClaim(w) \/ IssuanceFails(w) \/ Report(w)
      BY <1>1, <3>1
         DEF CheckOwned, Executing, Claim, Start, ReadClock, GateClaim, GateGrant, Sign, RejectClaim,
             IssuanceFails, Report
    <3>2. CASE ExecuteReturns(w) \/ Crash(w)
      BY <1>1, <3>2 DEF ExecuteReturns, Crash
    <3>3. CASE Dial(w)
      <4>1. workers'[w].pc # "report" => Goto(w, "handshake")
        <5>1. ReportFailure(w) => workers'[w].pc = "report"
          BY <1>1 DEF ReportFailure, Worker
        <5> QED
          BY <3>3, <5>1 DEF Dial
      <4>2. Goto(w, "handshake") => workers'[w].pc = "handshake"
        BY <1>1 DEF Goto, Worker
      <4> QED
        BY <1>1, <3>3, <4>1, <4>2 DEF Dial, Executing
    <3>4. CASE Handshake(w)
      <4>1. ASSUME NEW s,
                   workers' = [workers EXCEPT ![w] = [@ EXCEPT !.pc = "session", !.session = s]]
            PROVE  workers'[w].pc = "session"
        BY <1>1, <4>1 DEF Worker
      <4> QED
        BY <1>1, <3>4, <4>1 DEF Handshake, Executing
    <3>6. CASE Bind(w)
      <4>1. ASSUME NEW d, NEW b,
                   workers' = [workers EXCEPT ![w] =
                                 [@ EXCEPT !.pc = "check", !.deadline = d, !.aware = b]]
            PROVE  workers'[w].pc = "check"
        BY <1>1, <4>1 DEF Worker
      <4>2. checks[w] = "none"
        BY <1>1, <3>6 DEF Bind, CheckOwned, Executing
      <4> QED
        BY <1>1, <3>6, <4>1, <4>2 DEF Bind
    <3>5. CASE Monitor(w) \/ CheckFails(w)
      <4>1. CASE checks'[w] = "none"
        BY <4>1
      <4>2. CASE workers' = workers
        BY <1>1, <3>5, <4>2
           DEF Monitor, CheckFails, MonitorTick, CheckState, CheckClaim, CheckGrant, CheckAgain,
               Read, Deny, Allow, CheckOwned
      <4> QED
        BY <1>1, <3>5, <4>1, <4>2
           DEF Monitor, CheckFails, MonitorTick, CheckState, CheckClaim, CheckGrant, CheckAgain,
               Read, Deny, Allow
    <3> QED
      BY <1>3, <3>1, <3>2, <3>3, <3>4, <3>5, <3>6 DEF WorkerStep
  <2> QED
    BY <2>2, <2>3, <2>4
<1> QED
  BY <1>2, <1>3 DEF Next

\* Every step keeps the state well typed.
LEMMA TypedStep ==
    ASSUME Shape, Next
    PROVE  Typed'
<1>1. CASE OperatorStep
  BY <1>1, OperatorTyped DEF Shape
<1>2. ASSUME NEW w \in Workers, WorkerStep(w) PROVE Typed'
  BY <1>2, QueueTyped, GateTyped, BindTyped, CheckTyped, ConnectTyped DEF Shape, WorkerStep
<1>3. ASSUME NEW s \in Sessions, TargetStep(s) PROVE Typed'
  BY <1>3, TargetTyped DEF Shape
<1>4. CASE Tick
  <2>1. now' \in Times
    BY <1>4, ExecutionAssumption DEF Tick, Shape, Typed, TypeOK, Times
  <2> QED
    BY <1>4, <2>1 DEF Tick, Shape, Typed, TypeOK, Bound
<1> QED
  BY <1>1, <1>2, <1>3, <1>4 DEF Next

\* Types, with the facts that make them inductive, hold in every reachable state.
LEMMA ShapeInvariant == Spec => []Shape
<1>1. Init => Shape
  BY InitTyped DEF Init, Shape, ReadInTime, CheckOwned, Opened, Idle
<1>2. ASSUME Shape, [Next]_vars PROVE Shape'
  <2>1. CASE Next
    BY <1>2, <2>1, TypedStep, ReadInTimeStep, CheckOwnedStep, OpenedStep DEF Shape
  <2>2. CASE UNCHANGED vars
    BY <1>2, <2>2 DEF vars, Shape, Typed, TypeOK, Bound, ReadInTime, CheckOwned, Opened
  <2> QED
    BY <1>2, <2>1, <2>2
<1> QED
  BY <1>1, <1>2, PTL DEF Spec

\* Every reachable state of the execution model is well typed.
THEOREM ExecutionTypeCorrect == Spec => []TypeOK
<1>1. Shape => TypeOK
  BY DEF Shape, Typed
<1> QED
  BY <1>1, ShapeInvariant, PTL

-----------------------------------------------------------------------------
(* The replay marker *)

SpentPC == {"marking", "consumed", "running", "succeeded", "failed"}

\* A session past the marker was verified, and its marker is on disk.
Marked == \A s \in Sessions : sessions[s].pc \in SpentPC =>
    /\ sessions[s].host = TargetOf[sessions[s].job]
    /\ sessions[s].env.body = sessions[s].job
    /\ <<sessions[s].host, sessions[s].job>> \in markers

\* No two sessions of a job are past the marker.
Unique == \A s, t \in Sessions :
    sessions[s].pc \in SpentPC /\ sessions[t].pc \in SpentPC /\ sessions[s].job = sessions[t].job
        => s = t

\* Every step keeps sessions past the marker verified, marked and unique per job.
LEMMA ReplayStep ==
    ASSUME Shape, Marked, Unique, Next
    PROVE  Marked' /\ Unique'
<1>1. sessions \in [Sessions -> Session] /\ \A s \in Sessions : sessions[s] \in Session
  BY DEF Shape, Typed, TypeOK
<1> DEFINE Same(s, t) == /\ sessions'[t].job = sessions[t].job
                         /\ sessions'[t].host = sessions[t].host
                         /\ sessions'[t].env = sessions[t].env
                         /\ t # s => sessions'[t].pc = sessions[t].pc
<1>2. ASSUME NEW s \in Sessions, NEW pc, SessionGoto(s, pc)
      PROVE  sessions'[s].pc = pc /\ \A t \in Sessions : Same(s, t)
  BY <1>1, <1>2 DEF SessionGoto, Session
<1>3. CASE UNCHANGED <<sessions, markers>>
  BY <1>3 DEF Marked, Unique
<1>4. ASSUME NEW s \in Sessions, NEW j \in Jobs, NEW host \in Targets, NEW env \in Envelope,
             OpenSession(s, j, host, env), UNCHANGED markers
      PROVE  Marked' /\ Unique'
  <2>1. sessions'[s].pc = "open" /\ \A t \in Sessions : t # s => sessions'[t] = sessions[t]
    BY <1>1, <1>4 DEF OpenSession
  <2> QED
    BY <1>4, <2>1 DEF Marked, Unique, SpentPC
<1>5. ASSUME NEW s \in Sessions, Consume(s) PROVE Marked' /\ Unique'
  <2>1. sessions'[s].pc = "marking" /\ \A t \in Sessions : Same(s, t)
    BY <1>2, <1>5 DEF Consume
  <2>2. /\ sessions[s].host = TargetOf[sessions[s].job] /\ sessions[s].env.body = sessions[s].job
        /\ <<sessions[s].host, sessions[s].job>> \notin markers
    BY <1>5 DEF Consume, MayConsume, Verified
  <2>3. \A t \in Sessions : sessions[t].pc \in SpentPC => sessions[t].job # sessions[s].job
    BY <2>2 DEF Marked
  <2>4. /\ markers \subseteq markers'
        /\ <<sessions[s].host, sessions[s].job>> \in markers'
    BY <1>5 DEF Consume
  <2>5. Unique'
    BY <2>1, <2>3 DEF Unique
  <2>6. Marked'
    BY <2>1, <2>2, <2>4 DEF Marked
  <2> QED
    BY <2>5, <2>6
<1>6. ASSUME NEW s \in Sessions, MarkFails(s) PROVE Marked' /\ Unique'
  <2>1. sessions'[s].pc = "refused" /\ \A t \in Sessions : Same(s, t)
    BY <1>2, <1>6 DEF MarkFails
  <2>2. \A t \in Sessions : t # s /\ sessions[t].pc \in SpentPC => sessions[t].job # sessions[s].job
    BY <1>6 DEF MarkFails, Unique, SpentPC
  <2>3. \A t \in Sessions : t # s /\ sessions[t].pc \in SpentPC =>
           <<sessions[t].host, sessions[t].job>> \in markers'
    BY <1>6, <2>2 DEF MarkFails, Marked
  <2> QED
    BY <2>1, <2>3 DEF Marked, Unique, SpentPC
<1>7. ASSUME NEW s \in Sessions, SessionGoto(s, "refused"), UNCHANGED markers
      PROVE  Marked' /\ Unique'
  <2>1. sessions'[s].pc = "refused" /\ \A t \in Sessions : Same(s, t)
    BY <1>2, <1>7
  <2> QED
    BY <1>7, <2>1 DEF Marked, Unique, SpentPC
<1>8. ASSUME NEW s \in Sessions, sessions[s].pc \in {"marking", "consumed", "running"},
             NEW pc \in {"consumed", "running", "succeeded", "failed"},
             SessionGoto(s, pc), UNCHANGED markers
      PROVE  Marked' /\ Unique'
  <2>1. sessions'[s].pc = pc /\ \A t \in Sessions : Same(s, t)
    BY <1>2, <1>8
  <2>2. \A t \in Sessions : sessions'[t].pc \in SpentPC => sessions[t].pc \in SpentPC
    BY <1>8, <2>1 DEF SpentPC
  <2> QED
    BY <1>8, <2>1, <2>2 DEF Marked, Unique
<1> QED
  BY SessionMoves, <1>3, <1>4, <1>5, <1>6, <1>7, <1>8

\* A session past the marker is verified, marked and the only one of its job.
LEMMA ReplayInvariant == Spec => [](Marked /\ Unique)
<1>1. Init => Marked /\ Unique
  BY DEF Init, Marked, Unique, SpentPC
<1>2. ASSUME Shape, Marked /\ Unique, [Next]_vars PROVE (Marked /\ Unique)'
  <2>1. CASE UNCHANGED vars
    BY <1>2, <2>1 DEF vars, Marked, Unique
  <2> QED
    BY <1>2, <2>1, ReplayStep
<1> QED
  BY <1>1, <1>2, ShapeInvariant, PTL DEF Spec

\* However often a certificate is presented and wherever, the command of its job is
\* started at most once: ConsumeExecution's exclusive marker, its removal when it
\* could not be made durable included.
THEOREM StartedAtMostOnce == Spec => []AtMostOnce
<1>1. Unique => AtMostOnce
  BY DEF Unique, AtMostOnce, Started, SpentPC
<1> QED
  BY <1>1, ReplayInvariant, PTL

-----------------------------------------------------------------------------
(* What runs was authorized *)

\* The gate releases certificates only for permitted categories, and no session
\* opens without one.
Permitted ==
    /\ \A w \in Workers : workers[w].pc = "sign" => ShellPermitted(workers[w].job)
    /\ \A j \in Jobs : certs[j] # None => ShellPermitted(j)
    /\ \A s \in Sessions : sessions[s].pc # "unused" => certs[sessions[s].job] # None

\* A certificate is never withdrawn, and the gate is the only one to release it.
LEMMA CertMoves ==
    ASSUME Shape, Next
    PROVE  \/ UNCHANGED certs
           \/ \E w \in Workers : /\ workers[w].pc = "sign"
                                 /\ certs'[workers[w].job] # None
                                 /\ \A j \in Jobs : j # workers[w].job => certs'[j] = certs[j]
<1>1. CASE OperatorStep \/ (\E s \in Sessions : TargetStep(s)) \/ Tick
  BY <1>1, OtherFrame
<1>2. ASSUME NEW w \in Workers, WorkerStep(w), ~Sign(w) PROVE UNCHANGED certs
  BY <1>2 DEF WorkerStep, Claim, Start, ReadClock, GateClaim, GateGrant, RejectClaim, IssuanceFails, Bind,
              Monitor, CheckFails, MonitorTick, CheckState, CheckClaim, CheckGrant, CheckAgain,
              Read, Dial, Handshake, ExecuteReturns, Report, Crash
<1>3. ASSUME NEW w \in Workers, Sign(w), ~UNCHANGED certs
      PROVE  /\ workers[w].pc = "sign" /\ certs'[workers[w].job] # None
             /\ \A j \in Jobs : j # workers[w].job => certs'[j] = certs[j]
  <2>1. workers[w].job \in Jobs /\ now \in Times /\ certs \in [Jobs -> Certificate \cup {None}]
    BY <1>3 DEF Sign, Shape, Typed, Bound, TypeOK
  <2>2. certs' = [certs EXCEPT ![workers[w].job] =
                    [at |-> now, before |-> Earlier(now + CertTTL, Expires[workers[w].job])]]
    BY <1>3 DEF Sign
  <2>4. now < Expires[workers[w].job]
    BY <1>3 DEF Sign
  <2>3. [at |-> now, before |-> Earlier(now + CertTTL, Expires[workers[w].job])] \in Certificate
    BY <2>1, <2>4, ExecutionAssumption DEF Certificate, Earlier, Times
  <2> QED
    BY <1>3, <2>1, <2>2, <2>3, NoneAssumption DEF Sign
<1> QED
  BY <1>1, <1>2, <1>3 DEF Next, WorkerStep

\* Every step keeps certificates to permitted jobs and sessions to certified ones.
LEMMA PermittedStep ==
    ASSUME Shape, Permitted, Next
    PROVE  Permitted'
<1>1. \A w \in Workers : workers'[w].pc = "sign" => ShellPermitted(workers'[w].job)
  <2>1. CASE OperatorStep \/ (\E s \in Sessions : TargetStep(s)) \/ Tick
    BY <2>1, OtherFrame DEF Permitted
  <2>2. ASSUME NEW w \in Workers, WorkerStep(w), NEW v \in Workers, workers'[v].pc = "sign"
        PROVE  ShellPermitted(workers'[v].job)
    <3>1. CASE v # w
      BY <2>2, <3>1, WorkerFrame DEF Permitted, Shape
    <3>2. CASE v = w
      <4>1. Moves(w, workers[w], workers'[w])
        BY <2>2, RunOnceMoves DEF Shape
      <4> QED
        BY <2>2, <3>2, <4>1 DEF Moves, Permitted, Executing
    <3> QED
      BY <3>1, <3>2
  <2> QED
    BY <2>1, <2>2 DEF Next
<1>2. \A j \in Jobs : certs[j] # None => certs'[j] # None
  BY CertMoves
<1>3. \A j \in Jobs : certs'[j] # None => ShellPermitted(j)
  BY CertMoves DEF Permitted
<1>4. \A s \in Sessions : sessions'[s].pc # "unused" => certs'[sessions'[s].job] # None
  <2>1. sessions \in [Sessions -> Session] /\ \A s \in Sessions : sessions[s] \in Session
    BY DEF Shape, Typed, TypeOK
  <2>2. ASSUME NEW s \in Sessions, NEW pc, sessions[s].pc # "unused", SessionGoto(s, pc),
               NEW t \in Sessions, sessions'[t].pc # "unused"
        PROVE  certs'[sessions'[t].job] # None
    <3>1. sessions'[t].job = sessions[t].job /\ sessions[t].pc # "unused"
      BY <2>1, <2>2 DEF SessionGoto, Session
    <3> QED
      BY <1>2, <2>2, <3>1 DEF Permitted, Shape, Opened
  <2>3. ASSUME UNCHANGED sessions, NEW t \in Sessions, sessions'[t].pc # "unused"
        PROVE  certs'[sessions'[t].job] # None
    BY <1>2, <2>3 DEF Permitted, Shape, Opened
  <2>4. ASSUME NEW s \in Sessions, NEW j \in Jobs, NEW host \in Targets, NEW env \in Envelope,
               OpenSession(s, j, host, env), NEW t \in Sessions, sessions'[t].pc # "unused"
        PROVE  certs'[sessions'[t].job] # None
    <3>1. CASE t = s
      BY <1>2, <2>1, <2>4, <3>1 DEF OpenSession
    <3>2. CASE t # s
      BY <1>2, <2>1, <2>4, <3>2 DEF OpenSession, Permitted, Shape, Opened
    <3> QED
      BY <3>1, <3>2
  <2> QED
    BY SessionMoves, <2>2, <2>3, <2>4 DEF Consume, MayConsume, MarkFails
<1> QED
  BY <1>1, <1>3, <1>4 DEF Permitted, ShellPermitted

\* Whatever runs on a host is the command and target of a job whose category the
\* grant permitted when the certificate gate released its certificate.
THEOREM OnlyAuthorizedRuns == Spec => []RunsAsAuthorized
<1>1. Init => Permitted
  BY DEF Init, Permitted, Idle
<1>2. ASSUME Shape, Permitted, [Next]_vars PROVE Permitted'
  <2>1. CASE UNCHANGED vars
    BY <1>2, <2>1 DEF vars, Permitted, ShellPermitted
  <2> QED
    BY <1>2, <2>1, PermittedStep
<1>3. Shape /\ Marked /\ Permitted => RunsAsAuthorized
  BY DEF Shape, Opened, Marked, Permitted, RunsAsAuthorized, Started, SpentPC, ShellPermitted
<1> QED
  BY <1>1, <1>2, <1>3, ShapeInvariant, ReplayInvariant, PTL DEF Spec

-----------------------------------------------------------------------------
(* The check before execution *)

\* Authority once lost is not regained, and a check that reached its last read, or
\* was passed, began while the grant was live.
Aware ==
    /\ authority.disabled => authority.epoch > 0
    /\ \A w \in Workers :
         /\ workers[w].pc = "check" /\ ~workers[w].aware => ~Live(GrantOf[workers[w].job])
         /\ workers[w].pc = "check" /\ checks[w] = "again" => workers[w].aware
         /\ workers[w].pc \in Executing => workers[w].aware

\* A grant that is dead stays dead: epochs, revocations and the clock only grow.
LEMMA LostForGood ==
    ASSUME Shape, Aware, Next, NEW j \in Jobs, ~Live(GrantOf[j])
    PROVE  ~Live(GrantOf[j])'
<1>1. /\ now \in Nat /\ authority.epoch \in Nat /\ GrantOf[j] \in Grants
      /\ GrantExpires[GrantOf[j]] \in Nat
  BY ExecutionAssumption DEF Shape, Typed, TypeOK, Times
<1>2. CASE UNCHANGED <<now, authority, revoked>>
  BY <1>2 DEF Live
<1>3. CASE RevokeAll
  BY <1>1, <1>3 DEF RevokeAll, Live, Shape, Typed, TypeOK
<1>4. CASE Enable
  BY <1>1, <1>4 DEF Enable, Live, Aware, Shape, Typed, TypeOK
<1>5. CASE \E g \in Grants : RevokeGrant(g)
  BY <1>5 DEF RevokeGrant, Live
<1>6. CASE Tick
  BY <1>1, <1>6 DEF Tick, Live
<1>7. ASSUME NEW w \in Workers, WorkerStep(w) PROVE UNCHANGED <<now, authority, revoked>>
  BY <1>7, WorkerFrame DEF Shape
<1>8. ASSUME NEW s \in Sessions, TargetStep(s) PROVE UNCHANGED <<now, authority, revoked>>
  BY <1>8 DEF TargetStep, Replay, Consume, MarkFails, MarkDone, Refuse, Exec, Exit
<1> QED
  BY <1>2, <1>3, <1>4, <1>5, <1>6, <1>7, <1>8 DEF Next, OperatorStep

\* Every step keeps what a check under way knows of the grant true.
LEMMA AwareStep ==
    ASSUME Shape, Aware, Next
    PROVE  Aware'
<1>1. workers \in [Workers -> Worker] /\ checks \in [Workers -> CheckPC] /\ authority.epoch \in Nat
  BY DEF Shape, Typed, TypeOK
<1>2. authority'.disabled => authority'.epoch > 0
  <2>1. CASE OperatorStep
    <3>1. authority \in [epoch : 0..MaxEpoch, disabled : BOOLEAN]
      BY DEF Shape, Typed, TypeOK
    <3>2. CASE RevokeAll
      BY <1>1, <3>2 DEF RevokeAll
    <3>3. CASE Enable
      BY <3>1, <3>3 DEF Enable
    <3>4. CASE \E g \in Grants : RevokeGrant(g)
      BY <3>4 DEF RevokeGrant, Aware
    <3> QED
      BY <2>1, <3>2, <3>3, <3>4 DEF OperatorStep
  <2>2. CASE ~OperatorStep
    <3>1. authority' = authority
      BY <2>2, WorkerFrame DEF Next, Shape, Tick, TargetStep, Replay, Consume, MarkFails, MarkDone,
                               Refuse, Exec, Exit
    <3> QED
      BY <3>1 DEF Aware
  <2> QED
    BY <2>1, <2>2
<1> DEFINE Good(w) ==
       /\ workers[w].pc = "check" /\ ~workers[w].aware => ~Live(GrantOf[workers[w].job])
       /\ workers[w].pc = "check" /\ checks[w] = "again" => workers[w].aware
       /\ workers[w].pc \in Executing => workers[w].aware
<1>3. ASSUME NEW v \in Workers, workers'[v] = workers[v], checks'[v] = checks[v]
      PROVE  Good(v)'
  <2>1. Good(v) /\ (workers[v].pc = "check" => workers[v].job \in Jobs)
    BY DEF Aware, Shape, Typed, Bound
  <2>2. workers[v].pc = "check" /\ ~workers[v].aware => ~Live(GrantOf[workers[v].job])'
    BY <1>3, <2>1, LostForGood
  <2> QED
    BY <1>3, <2>1, <2>2
<1>4. CASE OperatorStep \/ (\E s \in Sessions : TargetStep(s)) \/ Tick
  BY <1>2, <1>3, <1>4, OtherFrame DEF Aware
<1>5. ASSUME NEW w \in Workers, WorkerStep(w) PROVE Good(w)'
  <2>1. Moves(w, workers[w], workers'[w])
    BY <1>5, RunOnceMoves DEF Shape
  <2>2. UNCHANGED <<now, authority, revoked>> /\ Good(w)
    BY <1>5, WorkerFrame DEF Shape, Aware
  <2>3. \A j : Live(GrantOf[j])' = Live(GrantOf[j])
    BY <2>2 DEF Live
  <2>4. CASE workers'[w] = workers[w]
    <3>1. workers[w].pc = "check" /\ checks'[w] = "again" => workers[w].aware
      <4>1. CASE workers[w].pc = "check" /\ checks'[w] = "again" /\ checks[w] # "again"
        <5>1. CheckGrant(w) /\ Live(GrantOf[workers[w].job])
          BY <1>1, <1>5, <4>1
             DEF WorkerStep, Claim, Start, ReadClock, GateClaim, GateGrant, Sign, RejectClaim, IssuanceFails, Bind,
                 Monitor, CheckFails, MonitorTick, CheckState, CheckClaim, CheckGrant, CheckAgain,
                 Read, Deny, Allow, Dial, Handshake, ExecuteReturns, Report, Crash, Executing
        <5> QED
          BY <2>2, <4>1, <5>1
      <4> QED
        BY <2>2, <4>1
    <3> QED
      BY <2>2, <2>3, <2>4, <3>1
  <2>5. CASE workers'[w] # workers[w]
    BY <2>1, <2>2, <2>3, <2>5 DEF Moves, Executing
  <2> QED
    BY <2>4, <2>5
<1>6. ASSUME NEW w \in Workers, WorkerStep(w), NEW v \in Workers PROVE Good(v)'
  <2>1. CASE v = w
    BY <1>5, <1>6, <2>1
  <2>2. CASE v # w
    BY <1>3, <1>6, <2>2, WorkerFrame DEF Shape
  <2> QED
    BY <2>1, <2>2
<1> QED
  BY <1>2, <1>4, <1>6 DEF Next, Aware

\* A grant that is dead when the worker asks Control for the last time before it
\* connects keeps the worker from connecting: the reads of checkAuthority are not
\* atomic, but no interleaving of revocations with them lets it through.
THEOREM NoConnectionAfterRevocation == Spec => []RevokedBeforeCheckNeverConnects
<1>1. Init => Aware
  BY DEF Init, Aware, Idle, Executing
<1>2. ASSUME Shape, Aware, [Next]_vars PROVE Aware'
  <2>1. CASE UNCHANGED vars
    BY <1>2, <2>1 DEF vars, Aware, Live
  <2> QED
    BY <1>2, <2>1, AwareStep
<1>3. Aware => RevokedBeforeCheckNeverConnects
  BY DEF Aware, RevokedBeforeCheckNeverConnects
<1> QED
  BY <1>1, <1>2, <1>3, ShapeInvariant, PTL DEF Spec

-----------------------------------------------------------------------------
(* Results *)

\* The command of job j ran and exited with status zero.
Succeeded(j) == \E s \in Sessions : sessions[s].job = j /\ sessions[s].pc = "succeeded"

\* The worker looks at a session of its own job, and reports success after it.
Truthful ==
    /\ \A w \in Workers :
         /\ workers[w].pc = "session" =>
              /\ workers[w].session \in Sessions
              /\ sessions[workers[w].session].pc # "unused"
              /\ sessions[workers[w].session].job = workers[w].job
         /\ workers[w].pc = "report" /\ workers[w].ok => Succeeded(workers[w].job)
    /\ \A j \in Jobs : jobs[j].status = "succeeded" => Succeeded(j)

\* A session that was opened keeps its job, and one that succeeded stays so.
LEMMA SessionsStay ==
    ASSUME Shape, Next, NEW s \in Sessions, sessions[s].pc # "unused"
    PROVE  /\ sessions'[s].job = sessions[s].job /\ sessions'[s].pc # "unused"
           /\ sessions[s].pc = "succeeded" => sessions'[s].pc = "succeeded"
<1>1. sessions \in [Sessions -> Session] /\ sessions[s] \in Session
  BY DEF Shape, Typed, TypeOK
<1>2. CASE UNCHANGED sessions
  BY <1>2
<1>3. ASSUME NEW t \in Sessions, NEW j, NEW host, NEW env, OpenSession(t, j, host, env)
      PROVE  sessions'[s] = sessions[s]
  BY <1>1, <1>3 DEF OpenSession
<1>4. ASSUME NEW t \in Sessions, sessions[t].pc # "succeeded",
             NEW pc \in {"marking", "consumed", "running", "succeeded", "failed", "refused"},
             SessionGoto(t, pc)
      PROVE  /\ sessions'[s].job = sessions[s].job /\ sessions'[s].pc # "unused"
             /\ sessions[s].pc = "succeeded" => sessions'[s].pc = "succeeded"
  BY <1>1, <1>4 DEF SessionGoto, Session
<1>5. \A t \in Sessions : Consume(t) \/ MarkFails(t) =>
         /\ sessions[t].pc # "succeeded"
         /\ \E pc \in {"marking", "refused"} : SessionGoto(t, pc)
  BY DEF Consume, MayConsume, MarkFails
<1> QED
  BY SessionMoves, <1>2, <1>3, <1>4, <1>5

\* Only a report of success makes a row succeed.
LEMMA RowsSucceed ==
    ASSUME Shape, Next, NEW j \in Jobs, jobs'[j].status = "succeeded"
    PROVE  \/ jobs[j].status = "succeeded"
           \/ \E w \in Workers : workers[w].pc = "report" /\ workers[w].ok /\ workers[w].job = j
<1>1. jobs \in [Jobs -> JobRow]
  BY DEF Shape, Typed, TypeOK, JobRow
<1>2. CASE UNCHANGED jobs
  BY <1>2
<1>3. CASE OperatorStep
  <2>1. jobs'[j] = jobs[j] \/ jobs'[j] = Ended("canceled")
    BY <1>1, <1>3 DEF OperatorStep, RevokeAll, Enable, RevokeGrant, Cancel
  <2> QED
    BY <2>1 DEF Ended
<1>4. ASSUME NEW w \in Workers, Claim(w) PROVE jobs[j].status = "succeeded"
  <2>1. Swept(j) = jobs[j] \/ Swept(j) = Ended("expired")
    BY DEF Swept
  <2>2. jobs'[j] = Swept(j) \/ jobs'[j] = [status |-> "claimed", claim |-> w]
    BY <1>4 DEF Claim
  <2> QED
    BY <2>1, <2>2 DEF Ended
<1>5. ASSUME NEW w \in Workers, Start(w) \/ RejectClaim(w) PROVE jobs[j].status = "succeeded"
  <2>1. workers[w].job \in Jobs
    BY <1>5 DEF Start, RejectClaim, Shape, Typed, Bound
  <2>2. jobs[workers[w].job] \in JobRow /\ jobs[j] \in JobRow
    BY <1>1, <2>1
  <2> QED
    BY <1>1, <1>5, <2>1, <2>2 DEF Start, RejectClaim, Ended, JobRow
<1>6. ASSUME NEW w \in Workers, Report(w)
      PROVE  \/ jobs[j].status = "succeeded"
             \/ workers[w].pc = "report" /\ workers[w].ok /\ workers[w].job = j
  <2>1. CASE workers[w].ok /\ workers[w].job = j
    BY <1>6, <2>1 DEF Report
  <2>2. CASE workers[w].job # j
    BY <1>1, <1>6, <2>2 DEF Report
  <2>3. CASE ~workers[w].ok /\ workers[w].job = j
    <3>1. jobs' = [jobs EXCEPT ![j] = Ended("failed")] \/ jobs' = jobs
      BY <1>6, <2>3 DEF Report
    <3>2. jobs' = [jobs EXCEPT ![j] = Ended("failed")] => jobs'[j].status = "failed"
      BY <1>1 DEF Ended
    <3> QED
      BY <3>1, <3>2
  <2> QED
    BY <2>1, <2>2, <2>3
<1>7. ASSUME NEW w \in Workers, WorkerStep(w),
             ~(Claim(w) \/ Start(w) \/ RejectClaim(w) \/ Report(w))
      PROVE  UNCHANGED jobs
  BY <1>7 DEF WorkerStep, ReadClock, GateClaim, GateGrant, Sign, IssuanceFails, Bind,
              Monitor, CheckFails, MonitorTick, CheckState, CheckClaim, CheckGrant, CheckAgain,
              Read, Dial, Handshake, ExecuteReturns, Crash
<1>8. ASSUME (\E s \in Sessions : TargetStep(s)) \/ Tick PROVE UNCHANGED jobs
  BY <1>8 DEF TargetStep, Replay, Consume, MarkFails, MarkDone, Refuse, Exec, Exit, Tick
<1> QED
  BY <1>2, <1>3, <1>4, <1>5, <1>6, <1>7, <1>8 DEF Next

\* Every step keeps results, reported or recorded, true of the target.
LEMMA TruthfulStep ==
    ASSUME Shape, Truthful, Next
    PROVE  Truthful'
<1>1. ASSUME NEW j, Succeeded(j) PROVE Succeeded(j)'
  BY <1>1, SessionsStay DEF Succeeded
<1>2. \A j \in Jobs : jobs'[j].status = "succeeded" => Succeeded(j)'
  BY <1>1, RowsSucceed DEF Truthful
<1> DEFINE Good(w) ==
       /\ workers[w].pc = "session" =>
            /\ workers[w].session \in Sessions
            /\ sessions[workers[w].session].pc # "unused"
            /\ sessions[workers[w].session].job = workers[w].job
       /\ workers[w].pc = "report" /\ workers[w].ok => Succeeded(workers[w].job)
<1>3. ASSUME NEW v \in Workers, workers'[v] = workers[v] PROVE Good(v)'
  BY <1>1, <1>3, SessionsStay DEF Truthful
<1>4. CASE OperatorStep \/ (\E s \in Sessions : TargetStep(s)) \/ Tick
  BY <1>2, <1>3, <1>4, OtherFrame DEF Truthful
<1>5. ASSUME NEW w \in Workers, WorkerStep(w) PROVE Good(w)'
  <2>1. Moves(w, workers[w], workers'[w]) /\ Good(w)
    BY <1>5, RunOnceMoves DEF Shape, Truthful
  <2>2. CASE workers'[w].pc = "session" /\ workers'[w] # workers[w]
    <3>1. CASE workers[w].pc = "session"
      <4>1. workers'[w].session = workers[w].session /\ workers'[w].job = workers[w].job
        BY <2>1, <2>2, <3>1 DEF Moves
      <4> QED
        BY <2>1, <2>2, <3>1, <4>1, SessionsStay
    <3>2. CASE workers[w].pc # "session"
      BY <2>1, <2>2, <3>2 DEF Moves
    <3> QED
      BY <3>1, <3>2
  <2>3. CASE workers'[w].pc = "report" /\ workers'[w].ok /\ workers'[w] # workers[w]
    <3>1. workers[w].pc = "session" /\ workers'[w].job = workers[w].job /\ RemoteSucceeded(w)
      BY <2>1, <2>3 DEF Moves, Executing
    <3>2. Succeeded(workers[w].job)
      BY <2>1, <3>1 DEF RemoteSucceeded, Succeeded
    <3> QED
      BY <1>1, <2>3, <3>1, <3>2
  <2> QED
    BY <1>3, <2>2, <2>3
<1>6. ASSUME NEW w \in Workers, WorkerStep(w), NEW v \in Workers PROVE Good(v)'
  <2>1. CASE v = w
    BY <1>5, <1>6, <2>1
  <2>2. CASE v # w
    BY <1>3, <1>6, <2>2, WorkerFrame DEF Shape
  <2> QED
    BY <2>1, <2>2
<1> QED
  BY <1>2, <1>4, <1>6 DEF Next, Truthful

\* A job recorded as succeeded did run on a target and exit with status zero,
\* whatever its worker, its monitor and the operator did meanwhile.
THEOREM RecordedSuccessIsReal == Spec => []SuccessIsReal
<1>1. Init => Truthful
  BY DEF Init, Truthful, Idle
<1>2. ASSUME Shape, Truthful, [Next]_vars PROVE Truthful'
  <2>1. CASE UNCHANGED vars
    BY <1>2, <2>1 DEF vars, Truthful, Succeeded
  <2> QED
    BY <1>2, <2>1, TruthfulStep
<1>3. Truthful => SuccessIsReal
  BY DEF Truthful, Succeeded, SuccessIsReal
<1> QED
  BY <1>1, <1>2, <1>3, ShapeInvariant, PTL DEF Spec

-----------------------------------------------------------------------------
(* The rows keep the contract of the abstract life cycle *)

\* A revocation that covers the grant of job j has committed.
Killed(j) == authority.epoch > 0 \/ GrantOf[j] \in revoked

\* A row that can still be claimed or started is under no revocation.
QueueIsLive == \A j \in Jobs : jobs[j].status \in {"pending", "claimed"} => ~Killed(j)

\* What one step may do to one row and to the authority over it.
Takes(j)  == jobs[j].status = "pending" /\ jobs'[j].status = "claimed" /\ (Killed(j)' <=> Killed(j))
Begins(j) == /\ jobs[j].status = "claimed" /\ jobs'[j].status = "running"
             /\ ~Killed(j) /\ (Killed(j)' <=> Killed(j))
Ends(j)   == /\ \/ jobs[j].status = "running" /\ jobs'[j].status \in {"succeeded", "failed"}
                \/ /\ jobs[j].status \in {"pending", "claimed", "running"}
                   /\ jobs'[j].status \in {"canceled", "expired"}
             /\ Killed(j)' <=> Killed(j)
Rests(j)  == jobs'[j] = jobs[j] /\ (Killed(j)' <=> Killed(j))
Dies(j)   == /\ Killed(j)'
             /\ jobs'[j].status = IF jobs[j].status \in {"pending", "claimed"}
                                  THEN "canceled" ELSE jobs[j].status

RowMoves(j) == Takes(j) \/ Begins(j) \/ Ends(j) \/ Rests(j) \/ Dies(j)

\* Authority over the jobs changes by an operator's revocation alone.
LEMMA KilledFrame ==
    ASSUME UNCHANGED <<authority, revoked>>, NEW j \in Jobs
    PROVE  Killed(j)' <=> Killed(j)
  BY DEF Killed

\* A claim takes the oldest row and sweeps the expired ones.
LEMMA ClaimMoves ==
    ASSUME Typed, NEW w \in Workers, Claim(w), NEW j \in Jobs
    PROVE  RowMoves(j)
<1>1. Killed(j)' <=> Killed(j)
  BY KilledFrame DEF Claim
<1>2. Ended("expired").status = "expired"
  BY DEF Ended
<1>3. CASE jobs'[j] = Swept(j)
  BY <1>1, <1>2, <1>3 DEF Swept, RowMoves, Ends, Rests
<1>4. CASE j \in Claimable /\ jobs'[j] = [status |-> "claimed", claim |-> w]
  BY <1>1, <1>4 DEF Claimable, RowMoves, Takes
<1> QED
  BY <1>3, <1>4 DEF Claim

\* Start, RejectClaim and Complete move the one row their caller still holds.
LEMMA HolderMoves ==
    ASSUME Typed, NEW w \in Workers, Start(w) \/ RejectClaim(w) \/ Report(w), NEW j \in Jobs
    PROVE  RowMoves(j)
<1> DEFINE own == workers[w].job
<1>1. Killed(j)' <=> Killed(j)
  BY KilledFrame DEF Start, RejectClaim, Report
<1>2. own \in Jobs /\ jobs \in [Jobs -> JobRow] /\ jobs[own] \in JobRow
  BY DEF Start, RejectClaim, Report, Typed, TypeOK, Bound, JobRow
<1>3. \A st : Ended(st).status = st
  BY DEF Ended
<1>4. ASSUME UNCHANGED jobs PROVE RowMoves(j)
  BY <1>1, <1>4 DEF RowMoves, Rests
<1>5. ASSUME NEW st, jobs' = [jobs EXCEPT ![own] = Ended(st)],
             \/ jobs[own].status = "running" /\ st \in {"succeeded", "failed"}
             \/ jobs[own].status \in {"claimed", "running"} /\ st \in {"canceled", "expired"}
      PROVE  RowMoves(j)
  <2>1. CASE j = own
    <3>1. jobs'[j].status = st
      BY <1>2, <1>3, <1>5, <2>1
    <3> QED
      BY <1>1, <1>5, <2>1, <3>1 DEF RowMoves, Ends
  <2>2. CASE j # own
    BY <1>1, <1>2, <1>5, <2>2 DEF RowMoves, Rests
  <2> QED
    BY <2>1, <2>2
<1>6. ASSUME jobs[own].status = "claimed", Live(GrantOf[own]),
             jobs' = [jobs EXCEPT ![own].status = "running"]
      PROVE  RowMoves(j)
  <2>1. CASE j = own
    <3>1. jobs'[j].status = "running"
      BY <1>2, <1>6, <2>1 DEF JobRow
    <3>2. ~Killed(j)
      BY <1>6, <2>1 DEF Live, Killed
    <3> QED
      BY <1>1, <1>6, <2>1, <3>1, <3>2 DEF RowMoves, Begins
  <2>2. CASE j # own
    BY <1>1, <1>2, <1>6, <2>2 DEF RowMoves, Rests
  <2> QED
    BY <2>1, <2>2
<1>7. CASE Start(w)
  BY <1>4, <1>5, <1>6, <1>7 DEF Start
<1>8. CASE RejectClaim(w)
  BY <1>4, <1>5, <1>8 DEF RejectClaim
<1>9. CASE Report(w)
  BY <1>4, <1>5, <1>9 DEF Report, HoldsRunning
<1> QED
  BY <1>7, <1>8, <1>9

\* A revocation cancels exactly the waiting rows whose authority it ends.
LEMMA OperatorMoves ==
    ASSUME Typed, OperatorStep, NEW j \in Jobs
    PROVE  RowMoves(j)
<1>1. Ended("canceled").status = "canceled"
  BY DEF Ended
<1>2. authority.epoch \in Nat /\ jobs \in [Jobs -> JobRow]
  BY ExecutionAssumption DEF Typed, TypeOK, JobRow
<1>3. CASE RevokeAll
  BY <1>1, <1>2, <1>3 DEF RevokeAll, Cancel, RowMoves, Dies, Killed
<1>4. CASE Enable
  <2>1. authority'.epoch = authority.epoch
    BY <1>4 DEF Enable, Typed, TypeOK
  <2> QED
    BY <1>4, <2>1 DEF Enable, RowMoves, Rests, Killed
<1>5. ASSUME NEW g \in Grants, RevokeGrant(g) PROVE RowMoves(j)
  <2>1. CASE GrantOf[j] = g
    BY <1>1, <1>5, <2>1 DEF RevokeGrant, Cancel, RowMoves, Dies, Killed
  <2>2. CASE GrantOf[j] # g
    BY <1>5, <2>2 DEF RevokeGrant, Cancel, RowMoves, Rests, Killed
  <2> QED
    BY <2>1, <2>2
<1> QED
  BY <1>3, <1>4, <1>5 DEF OperatorStep

\* Every step makes one of these moves of every row.
LEMMA EveryRowMoves ==
    ASSUME Typed, [Next]_vars, NEW j \in Jobs
    PROVE  RowMoves(j)
<1>1. ASSUME UNCHANGED <<jobs, authority, revoked>> PROVE RowMoves(j)
  BY <1>1 DEF RowMoves, Rests, Killed
<1>2. ASSUME NEW w \in Workers, WorkerStep(w) PROVE RowMoves(j)
  <2>1. CASE Claim(w) \/ Start(w) \/ RejectClaim(w) \/ Report(w)
    BY <2>1, ClaimMoves, HolderMoves
  <2>2. CASE ~(Claim(w) \/ Start(w) \/ RejectClaim(w) \/ Report(w))
    <3>1. UNCHANGED <<jobs, authority, revoked>>
      BY <1>2, <2>2 DEF WorkerStep, ReadClock, GateClaim, GateGrant, Sign, IssuanceFails, Bind,
                        Monitor, CheckFails, MonitorTick, CheckState, CheckClaim, CheckGrant,
                        CheckAgain, Read, Dial, Handshake, ExecuteReturns, Crash
    <3> QED
      BY <1>1, <3>1
  <2> QED
    BY <2>1, <2>2
<1>3. ASSUME (\E s \in Sessions : TargetStep(s)) \/ Tick \/ UNCHANGED vars PROVE RowMoves(j)
  <2>1. UNCHANGED <<jobs, authority, revoked>>
    BY <1>3 DEF TargetStep, Replay, Consume, MarkFails, MarkDone, Refuse, Exec, Exit, Tick, vars
  <2> QED
    BY <1>1, <2>1
<1> QED
  BY <1>2, <1>3, OperatorMoves DEF Next

\* No step leaves a waiting row under a revocation.
LEMMA QueueIsLiveStep ==
    ASSUME Typed, QueueIsLive, [Next]_vars
    PROVE  QueueIsLive'
<1> SUFFICES ASSUME NEW j \in Jobs, jobs'[j].status \in {"pending", "claimed"}
             PROVE  ~Killed(j)'
  BY DEF QueueIsLive
<1> QED
  BY EveryRowMoves DEF RowMoves, Takes, Begins, Ends, Rests, Dies, QueueIsLive

\* Every step of the execution maps to a step of the abstract life cycle.
LEMMA RowsStep ==
    ASSUME Typed, QueueIsLive, [Next]_vars
    PROVE  Lifecycle!Next
<1> SUFFICES ASSUME NEW j \in Jobs PROVE Lifecycle!Step(j)
  BY DEF Lifecycle!Next
<1> DEFINE status == [k \in Jobs |-> jobs[k].status]
           killed == [k \in Jobs |-> authority.epoch > 0 \/ GrantOf[k] \in revoked]
<1>1. /\ status[j] = jobs[j].status /\ status'[j] = jobs'[j].status
      /\ killed[j] \in BOOLEAN /\ killed'[j] \in BOOLEAN
      /\ killed[j] <=> Killed(j)
      /\ killed'[j] <=> Killed(j)'
  BY DEF Killed
<1>2. jobs[j].status # "none"
  BY DEF Typed, TypeOK
<1>3. jobs[j].status \in {"pending", "claimed"} => ~Killed(j)
  BY DEF QueueIsLive
<1>4. CASE Takes(j)
  BY <1>1, <1>3, <1>4 DEF Takes, Lifecycle!Step, Lifecycle!Take, Lifecycle!Moves, Lifecycle!Same
<1>5. CASE Begins(j)
  BY <1>1, <1>5 DEF Begins, Lifecycle!Step, Lifecycle!Begin, Lifecycle!Moves, Lifecycle!Same
<1>6. CASE Ends(j)
  BY <1>1, <1>6 DEF Ends, Lifecycle!Step, Lifecycle!Finish, Lifecycle!Abort, Lifecycle!Moves,
     Lifecycle!Same, Lifecycle!Open, Lifecycle!Results
<1>7. CASE Rests(j)
  BY <1>1, <1>7 DEF Rests, Lifecycle!Step, Lifecycle!Rest, Lifecycle!Same
<1>8. CASE Dies(j)
  <2>1. jobs[j].status # "staged"
    BY DEF Typed, TypeOK
  <2> QED
    BY <1>1, <1>2, <1>8, <2>1 DEF Dies, Lifecycle!Step, Lifecycle!Kill, Lifecycle!Open
<1> QED
  BY <1>4, <1>5, <1>6, <1>7, <1>8, EveryRowMoves DEF RowMoves

\* From the queue on, the rows implement the abstract life cycle, for any number
\* of jobs and workers: claimed and started at most once, never once revoked, and
\* ended once, whatever late, crashed or cancelled workers still report.
THEOREM ExecutionFollowsLifecycle == Spec => RowsFollowLifecycle
<1>1. Init => QueueIsLive
  BY DEF Init, QueueIsLive, Killed
<1>2. Spec => []Typed
  <2>1. Shape => Typed
    BY DEF Shape
  <2> QED
    BY <2>1, ShapeInvariant, PTL
<1>3. Typed /\ QueueIsLive /\ [Next]_vars => QueueIsLive'
  BY QueueIsLiveStep
<1>4. Typed /\ QueueIsLive /\ [Next]_vars => [Lifecycle!Next]_<<jobs, authority, revoked>>
  BY RowsStep
<1> QED
  BY <1>1, <1>2, <1>3, <1>4, PTL DEF Spec, RowsFollowLifecycle

=============================================================================

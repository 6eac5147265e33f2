------------------------- MODULE ControlPlaneProofs -------------------------
(***************************************************************************)
(* Proofs about ControlPlane for every value of its constants.             *)
(***************************************************************************)
EXTENDS ControlPlane, TLAPS

-----------------------------------------------------------------------------
(* The typing invariant: TypeOK, and that the references between rows hold. *)

SubBound ==
    sub.pc # "idle" =>
        /\ sub.grant \in GrantIds /\ sub.request \in Requests
        /\ sub.target \in Targets /\ sub.command \in Commands
        /\ sub.pc = "authorize" => sub.job \in JobIds

JobBound ==
    \A j \in JobIds : jobs[j].status # "none" =>
        jobs[j].grant \in GrantIds /\ jobs[j].command \in Commands

ApprovalBound ==
    \A a \in ApprovalIds : approvals[a].status # "none" => approvals[a].grant \in GrantIds

Typed == TypeOK /\ SubBound /\ JobBound /\ ApprovalBound

\* Ending a row changes its status and drops its claim hash, nothing else.
LEMMA EndedRow ==
    ASSUME NEW row \in JobRow, NEW s \in Terminal
    PROVE  /\ Ended(row, s) \in JobRow
           /\ Ended(row, s).status = s
           /\ Ended(row, s).claim = None
           /\ Ended(row, s).grant = row.grant
           /\ Ended(row, s).request = row.request
           /\ Ended(row, s).target = row.target
           /\ Ended(row, s).command = row.command
           /\ Ended(row, s).approval = row.approval
           /\ Ended(row, s).expires = row.expires
  BY DEF Ended, JobRow, JobStatus, Terminal

\* The idle submission is a submission.
LEMMA IdleType == Idle \in Submission /\ Idle.pc = "idle"
  BY BoundsAssumption DEF Idle, Submission

\* The empty database is well typed.
LEMMA InitTyped == Init => Typed
<1> SUFFICES ASSUME Init PROVE Typed
  OBVIOUS
<1>1. SomeScope \in GrantScopes
  BY DataAssumption DEF SomeScope
<1>2. authority \in [epoch : Epochs, disabled : BOOLEAN]
  BY BoundsAssumption DEF Init, Epochs
<1>3. now \in Times
  BY BoundsAssumption DEF Init, Times
<1>4. grants \in [GrantIds -> GrantRow]
  BY <1>1, BoundsAssumption DEF Init, GrantRow, Epochs, Times
<1>5. claims \in [ClaimIds -> ClaimRow]
  BY <1>1, BoundsAssumption DEF Init, ClaimRow, Epochs, Times
<1>6. approvals \in [ApprovalIds -> ApprovalRow]
  BY BoundsAssumption DEF Init, ApprovalRow
<1>7. jobs \in [JobIds -> JobRow]
  BY BoundsAssumption DEF Init, JobRow, JobStatus, Times
<1>8. sub \in Submission
  BY IdleType DEF Init
<1>9. polls \subseteq Workers /\ dead \subseteq GrantIds
  BY DEF Init
<1>10. SubBound /\ JobBound /\ ApprovalBound
  BY DEF Init, Idle, SubBound, JobBound, ApprovalBound
<1> QED
  BY <1>2, <1>3, <1>4, <1>5, <1>6, <1>7, <1>8, <1>9, <1>10 DEF Typed, TypeOK

-----------------------------------------------------------------------------
(* Each kind of step preserves the typing invariant. *)

\* Cancelling keeps the table well typed and its references intact.
LEMMA CancelTyped ==
    ASSUME Typed, NEW selected, CancelNotRunning(selected)
    PROVE  jobs' \in [JobIds -> JobRow] /\ JobBound'
<1>1. \A j \in JobIds : jobs[j] \in JobRow /\ Ended(jobs[j], "canceled") \in JobRow
  BY EndedRow DEF Typed, TypeOK, Terminal
<1>2. jobs' \in [JobIds -> JobRow]
  BY <1>1 DEF CancelNotRunning
<1>3. ASSUME NEW j \in JobIds
      PROVE  jobs'[j].grant = jobs[j].grant /\ jobs'[j].command = jobs[j].command
  BY <1>1, EndedRow DEF CancelNotRunning, Terminal
<1>4. ASSUME NEW j \in JobIds, jobs'[j].status # "none" PROVE jobs[j].status # "none"
  BY <1>4 DEF CancelNotRunning, NotRunning
<1> QED
  BY <1>2, <1>3, <1>4 DEF Typed, JobBound

\* Revocations, issuance and decisions keep the tables well typed; NextEpoch stays in its column.
LEMMA OperatorTyped == Typed /\ OperatorStep => Typed'
<1> SUFFICES ASSUME Typed, OperatorStep PROVE Typed'
  OBVIOUS
<1>1. CASE RevokeAll
  <2>1. authority' \in [epoch : Epochs, disabled : BOOLEAN]
    BY <1>1, BoundsAssumption DEF RevokeAll, NextEpoch, Typed, TypeOK, Epochs
  <2>2. jobs' \in [JobIds -> JobRow] /\ JobBound'
    BY <1>1, CancelTyped DEF RevokeAll
  <2> QED
    BY <1>1, <2>1, <2>2 DEF RevokeAll, Typed, TypeOK, SubBound, ApprovalBound
<1>2. CASE Enable
  BY <1>2 DEF Enable, Typed, TypeOK, SubBound, ApprovalBound, JobBound
<1>3. ASSUME NEW g \in GrantIds, NEW s \in GrantScopes, IssueGrant(g, s) PROVE Typed'
  <2>1. grants' \in [GrantIds -> GrantRow]
    BY <1>3, BoundsAssumption
    DEF IssueGrant, InsertGrant, Typed, TypeOK, GrantRow, Times, Epochs
  <2> QED
    BY <1>3, <2>1 DEF IssueGrant, Typed, TypeOK, SubBound, ApprovalBound, JobBound
<1>4. ASSUME NEW g \in GrantIds, RevokeGrant(g) PROVE Typed'
  <2>1. grants' \in [GrantIds -> GrantRow]
    BY <1>4 DEF RevokeGrant, Typed, TypeOK, GrantRow
  <2>2. jobs' \in [JobIds -> JobRow] /\ JobBound'
    BY <1>4, CancelTyped DEF RevokeGrant
  <2> QED
    BY <1>4, <2>1, <2>2 DEF RevokeGrant, Typed, TypeOK, SubBound, ApprovalBound
<1>5. ASSUME NEW c \in ClaimIds, NEW s \in GrantScopes, IssueClaim(c, s) PROVE Typed'
  <2>1. claims' \in [ClaimIds -> ClaimRow]
    BY <1>5, BoundsAssumption DEF IssueClaim, Typed, TypeOK, ClaimRow, Times, Epochs
  <2> QED
    BY <1>5, <2>1 DEF IssueClaim, Typed, TypeOK, SubBound, ApprovalBound, JobBound
<1>6. ASSUME NEW a \in ApprovalIds, NEW d \in Decisions, Decide(a, d) PROVE Typed'
  <2>1. approvals' \in [ApprovalIds -> ApprovalRow]
    BY <1>6 DEF Decide, Typed, TypeOK, ApprovalRow
  <2>2. ApprovalBound'
    BY <1>6 DEF Decide, Typed, TypeOK, ApprovalRow, ApprovalBound
  <2> QED
    BY <1>6, <2>1, <2>2 DEF Decide, Typed, TypeOK, SubBound, JobBound
<1> QED
  BY <1>1, <1>2, <1>3, <1>4, <1>5, <1>6 DEF OperatorStep

\* So do redeeming a claim and opening a submission.
LEMMA AgentTyped == Typed /\ AgentStep => Typed'
<1> SUFFICES ASSUME Typed, AgentStep PROVE Typed'
  OBVIOUS
<1>1. ASSUME NEW c \in ClaimIds, NEW g \in GrantIds, RedeemClaim(c, g) PROVE Typed'
  <2>1. claims[c].scope \in GrantScopes /\ c \in 0..MaxClaims
    BY BoundsAssumption DEF Typed, TypeOK, ClaimRow, ClaimIds
  <2>2. grants' \in [GrantIds -> GrantRow]
    BY <1>1, <2>1, BoundsAssumption
    DEF RedeemClaim, InsertGrant, Typed, TypeOK, GrantRow, Times, Epochs
  <2>3. claims' \in [ClaimIds -> ClaimRow]
    BY <1>1 DEF RedeemClaim, Typed, TypeOK, ClaimRow
  <2> QED
    BY <1>1, <2>2, <2>3 DEF RedeemClaim, Typed, TypeOK, SubBound, ApprovalBound, JobBound
<1>2. ASSUME NEW g \in GrantIds, NEW r \in Requests, NEW t \in Targets, NEW c \in Commands,
             SubmitCommand(g, r, t, c)
      PROVE  Typed'
  <2>1. sub' \in Submission /\ SubBound'
    BY <1>2, BoundsAssumption DEF SubmitCommand, Submission, SubBound, GrantIds
  <2> QED
    BY <1>2, <2>1 DEF SubmitCommand, Typed, TypeOK, ApprovalBound, JobBound
<1> QED
  BY <1>1, <1>2 DEF AgentStep

\* So do the polls and the statements of workers.
LEMMA WorkerTyped == Typed /\ WorkerStep => Typed'
<1> SUFFICES ASSUME Typed, NEW w \in Workers,
                    \/ GuardWorkerEnabled(w)
                    \/ LosePoll(w)
                    \/ Claim(w)
                    \/ \E j \in JobIds : \/ Start(w, j)
                                         \/ \E success \in BOOLEAN : Complete(w, j, success)
                                         \/ RejectClaim(w, j)
             PROVE  Typed'
  BY DEF WorkerStep
<1>1. CASE GuardWorkerEnabled(w) \/ LosePoll(w)
  BY <1>1 DEF GuardWorkerEnabled, LosePoll, Typed, TypeOK, SubBound, ApprovalBound, JobBound
<1>2. ASSUME NEW j \in JobIds
      PROVE  /\ jobs[j] \in JobRow
             /\ \A s \in Terminal : /\ Ended(jobs[j], s) \in JobRow
                                    /\ Ended(jobs[j], s).grant = jobs[j].grant
                                    /\ Ended(jobs[j], s).command = jobs[j].command
  BY EndedRow DEF Typed, TypeOK
<1>3. CASE Claim(w)
  <2>1. \A j \in JobIds : Swept(j) \in JobRow /\ Swept(j).grant = jobs[j].grant
                         /\ Swept(j).command = jobs[j].command
                         /\ (Swept(j).status # "none" => jobs[j].status # "none")
    BY <1>2 DEF Swept, Sweepable, Terminal
  <2>2. ASSUME NEW j \in JobIds, jobs[j].status = "pending"
        PROVE  LET new == [jobs[j] EXCEPT !.status = "claimed", !.claim = w]
               IN  new \in JobRow /\ new.grant = jobs[j].grant /\ new.command = jobs[j].command
    BY <1>2 DEF JobRow, JobStatus
  <2>3. CASE jobs' = [i \in JobIds |-> Swept(i)]
    <3>1. jobs' \in [JobIds -> JobRow]
      BY <2>1, <2>3
    <3>2. JobBound'
      BY <2>1, <2>3 DEF JobBound, Typed
    <3> QED
      BY <1>3, <3>1, <3>2 DEF Claim, Typed, TypeOK, SubBound, ApprovalBound
  <2>4. ASSUME NEW j \in JobIds, jobs[j].status = "pending",
               jobs' = [i \in JobIds |-> IF i = j
                          THEN [jobs[j] EXCEPT !.status = "claimed", !.claim = w]
                          ELSE Swept(i)]
        PROVE  Typed'
    <3>1. jobs' \in [JobIds -> JobRow]
      BY <2>1, <2>2, <2>4
    <3>2. JobBound'
      BY <2>1, <2>2, <2>4 DEF JobBound, Typed
    <3> QED
      BY <1>3, <3>1, <3>2 DEF Claim, Typed, TypeOK, SubBound, ApprovalBound
  <2> QED
    BY <1>3, <2>3, <2>4 DEF Claim, Claimable
<1>4. ASSUME NEW j \in JobIds, NEW row \in JobRow, jobs' = [jobs EXCEPT ![j] = row],
             row.grant = jobs[j].grant, row.command = jobs[j].command, jobs[j].status # "none",
             UNCHANGED <<authority, now, grants, claims, approvals, sub, polls, dead>>
      PROVE  Typed'
  BY <1>4 DEF Typed, TypeOK, SubBound, ApprovalBound, JobBound
<1>5. ASSUME NEW j \in JobIds, Start(w, j) PROVE Typed'
  <2>1. LET new == [jobs[j] EXCEPT !.status = "running"]
        IN  new \in JobRow /\ new.grant = jobs[j].grant /\ new.command = jobs[j].command
    BY <1>2 DEF JobRow, JobStatus
  <2>2. jobs' = [jobs EXCEPT ![j].status = "running"]
          => jobs' = [jobs EXCEPT ![j] = [jobs[j] EXCEPT !.status = "running"]]
    BY DEF Typed, TypeOK
  <2> QED
    BY <1>2, <1>4, <1>5, <2>1, <2>2 DEF Start, Terminal
<1>6. ASSUME NEW j \in JobIds, NEW success \in BOOLEAN, Complete(w, j, success) PROVE Typed'
  BY <1>2, <1>4, <1>6 DEF Complete, Terminal
<1>7. ASSUME NEW j \in JobIds, RejectClaim(w, j) PROVE Typed'
  BY <1>2, <1>4, <1>7 DEF RejectClaim, Terminal, Held
<1> QED
  BY <1>1, <1>3, <1>5, <1>6, <1>7

\* A step that ends or moves the submission and leaves the tables alone.
LEMMA SubTyped ==
    ASSUME Typed, sub' \in Submission, SubBound',
           UNCHANGED <<authority, now, grants, claims, approvals, jobs, polls, dead>>
    PROVE  Typed'
  BY DEF Typed, TypeOK, ApprovalBound, JobBound

\* Ending a submission leaves it idle.
LEMMA FinishTyped == Finish => sub' \in Submission /\ SubBound'
  BY IdleType DEF Finish, SubBound

\* Handing a job, or an approval, to the next step of the submission.
LEMMA SubHandsJob ==
    ASSUME NEW s \in Submission, NEW j \in JobIds
    PROVE  [s EXCEPT !.pc = "authorize", !.job = j] \in Submission
<1>1. j \in 0..MaxJobs
  BY BoundsAssumption DEF JobIds
<1> QED
  BY <1>1 DEF Submission

\* Handing an approval to the next step of the submission.
LEMMA SubHandsApproval ==
    ASSUME NEW s \in Submission, NEW a \in ApprovalIds
    PROVE  [s EXCEPT !.pc = "enqueue", !.approval = a] \in Submission
<1>1. a \in 0..MaxApprovals
  BY BoundsAssumption DEF ApprovalIds
<1> QED
  BY <1>1 DEF Submission

\* A submission that answers from a known row stays well typed.
LEMMA AnswerTyped ==
    ASSUME Typed, sub.pc # "idle", NEW j \in JobIds, AnswerFrom(j)
    PROVE  sub' \in Submission /\ SubBound'
<1>1. sub \in Submission
  BY DEF Typed, TypeOK
<1>2. CASE Finish
  BY <1>2, FinishTyped
<1>3. CASE sub' = [sub EXCEPT !.pc = "authorize", !.job = j]
  <2>1. sub' \in Submission
    BY <1>1, <1>3, SubHandsJob
  <2>2. SubBound'
    BY <1>1, <1>3 DEF Submission, SubBound, Typed
  <2> QED
    BY <2>1, <2>2
<1> QED
  BY <1>2, <1>3 DEF AnswerFrom

\* Looking up the request id keeps the state well typed.
LEMMA LookupTyped == Typed /\ LookupRequest => Typed'
<1> SUFFICES ASSUME Typed, LookupRequest PROVE Typed'
  OBVIOUS
<1>1. sub \in Submission /\ sub.pc = "lookup"
  BY DEF LookupRequest, Typed, TypeOK
<1>2. ASSUME NEW j \in JobIds, AnswerFrom(j)
      PROVE  sub' \in Submission /\ SubBound'
  BY <1>1, <1>2, AnswerTyped
<1>3. ASSUME NEW pc \in {"enqueue", "match"}, sub' = [sub EXCEPT !.pc = pc]
      PROVE  sub' \in Submission /\ SubBound'
  BY <1>1, <1>3 DEF Submission, SubBound, Typed
<1>4. sub' \in Submission /\ SubBound'
  BY <1>2, <1>3, FinishTyped DEF LookupRequest, ByRequest
<1> QED
  BY <1>4, SubTyped DEF LookupRequest

\* So does matching an approval.
LEMMA MatchTyped == Typed /\ MatchApproval => Typed'
<1> SUFFICES ASSUME Typed, MatchApproval PROVE Typed'
  OBVIOUS
<1>1. sub \in Submission /\ sub.pc = "match"
  BY DEF MatchApproval, Typed, TypeOK
<1>2. ASSUME NEW a \in ApprovalIds, sub' = [sub EXCEPT !.pc = "enqueue", !.approval = a]
      PROVE  sub' \in Submission /\ SubBound'
  <2>1. sub' \in Submission
    BY <1>1, <1>2, SubHandsApproval
  <2>2. SubBound'
    BY <1>1, <1>2 DEF Submission, SubBound, Typed
  <2> QED
    BY <2>1, <2>2
<1>3. ASSUME sub' = [sub EXCEPT !.pc = "request"]
      PROVE  sub' \in Submission /\ SubBound'
  BY <1>1, <1>3 DEF Submission, SubBound, Typed
<1>4. sub' \in Submission /\ SubBound'
  BY <1>2, <1>3, FinishTyped DEF MatchApproval, Matching
<1> QED
  BY <1>4, SubTyped DEF MatchApproval

\* So does requesting one.
LEMMA RequestTyped == Typed /\ RequestApproval => Typed'
<1> SUFFICES ASSUME Typed, RequestApproval PROVE Typed'
  OBVIOUS
<1>1. sub' \in Submission /\ SubBound'
  BY FinishTyped DEF RequestApproval
<1>2. /\ sub.grant \in GrantIds /\ sub.grant \in 0..MaxGrants
      /\ sub.target \in Targets /\ SubRisk.scope \in ScopeKeys
  BY DataAssumption, BoundsAssumption
  DEF RequestApproval, Typed, SubBound, SubRisk, RiskResult, GrantIds
<1>3. approvals' \in [ApprovalIds -> ApprovalRow]
  BY <1>2, BoundsAssumption DEF RequestApproval, Typed, TypeOK, ApprovalRow
<1>4. ApprovalBound'
  BY <1>2 DEF RequestApproval, Typed, TypeOK, ApprovalBound
<1> QED
  BY <1>1, <1>3, <1>4 DEF RequestApproval, Typed, TypeOK, JobBound

\* The deadline of a staged job is a time no later than the end of its grant.
LEMMA DeadlineType ==
    ASSUME Typed, NEW g \in GrantIds, NEW ttl \in JobTTLs
    PROVE  Deadline(g, ttl) \in Times /\ Deadline(g, ttl) <= grants[g].expires
  BY BoundsAssumption DEF Deadline, Typed, TypeOK, GrantRow, Times

\* So does staging the job.
LEMMA EnqueueTyped == Typed /\ Enqueue => Typed'
<1> SUFFICES ASSUME Typed, Enqueue PROVE Typed'
  OBVIOUS
<1>1. /\ sub \in Submission /\ sub.pc = "enqueue"
      /\ sub.grant \in GrantIds /\ sub.request \in Requests
      /\ sub.target \in Targets /\ sub.command \in Commands
  BY DEF Enqueue, Typed, TypeOK, SubBound
<1>2. PICK ttl \in JobTTLs :
         \/ Finish /\ UNCHANGED jobs
         \/ (\E j \in JobIds : AnswerFrom(j)) /\ UNCHANGED jobs
         \/ \E j \in JobIds : StageJob(j, ttl)
  BY DEF Enqueue, ByRequest
<1>3. CASE Finish /\ UNCHANGED jobs
  BY <1>3, FinishTyped, SubTyped DEF Enqueue
<1>5. CASE (\E j \in JobIds : AnswerFrom(j)) /\ UNCHANGED jobs
  <2>1. sub' \in Submission /\ SubBound'
    BY <1>1, <1>5, AnswerTyped
  <2> QED
    BY <2>1, <1>5, SubTyped DEF Enqueue
<1>4. ASSUME NEW j \in JobIds, StageJob(j, ttl)
      PROVE  Typed'
  <2>0. sub' \in Submission
    BY <1>1, <1>4, SubHandsJob DEF StageJob
  <2>1. sub' \in Submission /\ SubBound'
    BY <1>1, <1>4, <2>0 DEF Submission, SubBound, StageJob
  <2>2. sub.approval \in 0..MaxApprovals /\ sub.grant \in 0..MaxGrants
    BY <1>1 DEF Submission
  <2>3. Deadline(sub.grant, ttl) \in Times
    BY <1>1, DeadlineType
  <2>4. jobs' \in [JobIds -> JobRow]
    BY <1>1, <1>4, <2>2, <2>3 DEF Typed, TypeOK, JobRow, JobStatus, StageJob
  <2>5. JobBound'
    BY <1>1, <1>4 DEF Typed, TypeOK, JobBound, StageJob
  <2> QED
    BY <2>1, <2>4, <2>5 DEF Enqueue, Typed, TypeOK, ApprovalBound
<1> QED
  BY <1>2, <1>3, <1>4, <1>5

\* Spending an approval changes its status and names the job, nothing else.
LEMMA ConsumedRow ==
    ASSUME NEW row \in ApprovalRow, NEW j \in JobIds
    PROVE  LET new == [row EXCEPT !.status = "consumed", !.consumedBy = j] IN
           /\ new \in ApprovalRow
           /\ new.status = "consumed" /\ new.consumedBy = j
           /\ new.grant = row.grant /\ new.target = row.target
           /\ new.scope = row.scope /\ new.decision = row.decision
<1>1. j \in 0..MaxJobs
  BY BoundsAssumption DEF JobIds
<1> QED
  BY <1>1 DEF ApprovalRow

\* So does Authorize, on every branch.
LEMMA AuthorizeTyped == Typed /\ Authorize => Typed'
<1> SUFFICES ASSUME Typed, Authorize PROVE Typed'
  OBVIOUS
<1> DEFINE j == sub.job
<1>1. j \in JobIds /\ jobs[j] \in JobRow /\ jobs \in [JobIds -> JobRow]
  BY DEF Authorize, Typed, TypeOK, SubBound
<1>2. sub' \in Submission /\ SubBound'
  BY FinishTyped DEF Authorize
<1>3. jobs' \in [JobIds -> JobRow] /\ JobBound'
  <2>1. CASE UNCHANGED jobs
    BY <2>1 DEF Typed, TypeOK, JobBound
  <2>2. CASE jobs[j].status = "staged" /\ jobs' = [jobs EXCEPT ![j].status = "pending"]
    BY <1>1, <2>2 DEF Typed, JobBound, JobRow, JobStatus
  <2>3. ASSUME NEW s \in Terminal, jobs[j].status = "staged",
               jobs' = [jobs EXCEPT ![j] = Ended(jobs[j], s)]
        PROVE  jobs' \in [JobIds -> JobRow] /\ JobBound'
    BY <1>1, <2>3, EndedRow DEF Typed, JobBound
  <2> QED
    BY <2>1, <2>2, <2>3 DEF Authorize, Terminal
<1>4. approvals' \in [ApprovalIds -> ApprovalRow] /\ ApprovalBound'
  <2>1. CASE UNCHANGED approvals
    BY <2>1 DEF Typed, TypeOK, ApprovalBound
  <2>2. CASE /\ PolicyHolds(j) /\ Consume(j) /\ ~UNCHANGED approvals
    <3> DEFINE a == jobs[j].approval
    <3>0. /\ approvals' = [approvals EXCEPT ![a] =
                  [@ EXCEPT !.status = "consumed", !.consumedBy = j]]
          /\ ApprovalHolds(j) /\ approvals[a].decision = "allow_once"
      BY <2>2 DEF Consume, PolicyHolds
    <3>a. a \in 0..MaxApprovals /\ a # 0
      BY <1>1, <3>0 DEF ApprovalHolds, JobRow
    <3>b. a \in ApprovalIds
      BY <3>a, BoundsAssumption DEF ApprovalIds
    <3>1. approvals[a].status # "none"
      BY <3>0 DEF ApprovalHolds
    <3> HIDE DEF a
    <3>3. approvals' \in [ApprovalIds -> ApprovalRow]
      BY <1>1, <3>0, <3>b, ConsumedRow DEF Typed, TypeOK
    <3>4. ApprovalBound'
      BY <3>0, <3>b, <3>1 DEF Typed, TypeOK, ApprovalRow, ApprovalBound
    <3> QED
      BY <3>3, <3>4
  <2> QED
    BY <2>1, <2>2 DEF Authorize
<1> QED
  BY <1>2, <1>3, <1>4 DEF Authorize, Typed, TypeOK

\* Every step keeps the state well typed.
LEMMA NextTyped == Typed /\ [Next]_vars => Typed'
<1> SUFFICES ASSUME Typed, [Next]_vars PROVE Typed'
  OBVIOUS
<1>1. CASE SubmissionStep
  <2>1. CASE AbandonSubmission
    BY <2>1, FinishTyped, SubTyped DEF AbandonSubmission
  <2> QED
    BY <1>1, <2>1, LookupTyped, MatchTyped, RequestTyped, EnqueueTyped, AuthorizeTyped
    DEF SubmissionStep
<1>2. CASE Tick
  BY <1>2, BoundsAssumption
  DEF Tick, Typed, TypeOK, Times, SubBound, ApprovalBound, JobBound
<1>3. CASE UNCHANGED vars
  BY <1>3 DEF vars, Typed, TypeOK, SubBound, ApprovalBound, JobBound
<1> QED
  BY <1>1, <1>2, <1>3, OperatorTyped, AgentTyped, WorkerTyped DEF Next

\* Every reachable state is well typed, and every reference a row or the
\* submission in flight makes to a grant, a command or a job is to an existing one.
THEOREM TypeCorrect == Spec => [](TypeOK /\ SubBound /\ JobBound /\ ApprovalBound)
<1>1. Spec => []Typed
  BY InitTyped, NextTyped, PTL DEF Spec
<1>2. Typed => TypeOK /\ SubBound /\ JobBound /\ ApprovalBound
  BY DEF Typed
<1> QED
  BY <1>1, <1>2, PTL

-----------------------------------------------------------------------------
(* What a step can do to one job. *)

Keeps(j) == /\ jobs'[j].grant = jobs[j].grant /\ jobs'[j].request = jobs[j].request
            /\ jobs'[j].target = jobs[j].target /\ jobs'[j].command = jobs[j].command
            /\ jobs'[j].approval = jobs[j].approval /\ jobs'[j].expires = jobs[j].expires

Quiet == UNCHANGED <<authority, grants, dead>>

Stages(j) ==
    /\ jobs[j].status = "none" /\ jobs'[j].status = "staged"
    /\ sub.pc = "enqueue" /\ ByRequest(sub.grant, sub.request) = {}
    /\ jobs'[j].grant = sub.grant /\ jobs'[j].request = sub.request
    /\ jobs'[j].target = sub.target /\ jobs'[j].command = sub.command
    /\ jobs'[j].approval = sub.approval
    /\ jobs'[j].expires <= grants[sub.grant].expires
    /\ \A i \in JobIds \ {j} : jobs'[i] = jobs[i]
    /\ Quiet

Publishes(j) ==
    /\ jobs[j].status = "staged" /\ jobs'[j].status = "pending" /\ Keeps(j)
    /\ Admitted(j) /\ PolicyHolds(j) /\ Consume(j)
    /\ Quiet

Takes(j) == jobs[j].status = "pending" /\ jobs'[j].status = "claimed" /\ Keeps(j) /\ Quiet

Begins(j) ==
    /\ jobs[j].status = "claimed" /\ jobs'[j].status = "running" /\ Keeps(j)
    /\ Live(jobs[j].grant) /\ Quiet

Ends(j) ==
    /\ jobs[j].status \in {"staged", "pending", "claimed", "running"}
    /\ jobs'[j].status \in Terminal /\ Keeps(j)
    /\ jobs'[j].status \in {"succeeded", "failed"} => jobs[j].status = "running"

Rests(j) == jobs'[j] = jobs[j]

JobMoves(j) == Stages(j) \/ Publishes(j) \/ Takes(j) \/ Begins(j) \/ Ends(j) \/ Rests(j)

\* Ending a job of the table is the move Ends.
LEMMA EndingMove ==
    ASSUME Typed, NEW j \in JobIds, NEW s \in Terminal,
           jobs'[j] = Ended(jobs[j], s),
           jobs[j].status \in {"staged", "pending", "claimed", "running"},
           s \in {"succeeded", "failed"} => jobs[j].status = "running"
    PROVE  Ends(j)
<1>1. jobs[j] \in JobRow
  BY DEF Typed, TypeOK
<1> QED
  BY <1>1, EndedRow DEF Ends, Keeps

\* Cancelling ends the selected jobs that do not run and leaves the others alone.
LEMMA CancelMoves ==
    ASSUME Typed, NEW selected, CancelNotRunning(selected), NEW j \in JobIds
    PROVE  Ends(j) \/ Rests(j)
  BY EndingMove DEF CancelNotRunning, NotRunning, Rests, Terminal

\* Every step moves every job along its life cycle or leaves it alone.
LEMMA EveryJobMoves ==
    ASSUME Typed, [Next]_vars, NEW j \in JobIds
    PROVE  JobMoves(j)
<1>1. jobs \in [JobIds -> JobRow] /\ jobs[j] \in JobRow
  BY DEF Typed, TypeOK
<1>2. CASE UNCHANGED jobs
  BY <1>2 DEF JobMoves, Rests
<1>3. CASE RevokeAll
  BY <1>3, CancelMoves DEF RevokeAll, JobMoves
<1>4. ASSUME NEW g \in GrantIds, RevokeGrant(g) PROVE JobMoves(j)
  BY <1>4, CancelMoves DEF RevokeGrant, JobMoves
<1>5. CASE Enqueue /\ ~UNCHANGED jobs
  <2>1. PICK ttl \in JobTTLs, k \in JobIds :
          /\ ByRequest(sub.grant, sub.request) = {}
          /\ jobs[k].status = "none"
          /\ jobs' = [jobs EXCEPT ![k] =
                [status |-> "staged", grant |-> sub.grant, request |-> sub.request,
                 target |-> sub.target, command |-> sub.command,
                 approval |-> sub.approval, expires |-> Deadline(sub.grant, ttl),
                 claim |-> None]]
    BY <1>5 DEF Enqueue, StageJob
  <2>2. sub.grant \in GrantIds
    BY <1>5 DEF Enqueue, Typed, SubBound
  <2>3. Deadline(sub.grant, ttl) <= grants[sub.grant].expires
    BY <2>2, DeadlineType
  <2>4. CASE j = k
    BY <1>1, <1>5, <2>1, <2>3, <2>4 DEF Enqueue, JobMoves, Stages, Quiet
  <2>5. CASE j # k
    BY <1>1, <2>1, <2>5 DEF JobMoves, Rests
  <2> QED
    BY <2>4, <2>5
<1>6. CASE Authorize
  <2> DEFINE k == sub.job
  <2>1. k \in JobIds
    BY <1>6 DEF Authorize, Typed, SubBound
  <2>2. CASE UNCHANGED jobs
    BY <2>2 DEF JobMoves, Rests
  <2>3. CASE /\ jobs[k].status = "staged" /\ Admitted(k) /\ PolicyHolds(k) /\ Consume(k)
             /\ jobs' = [jobs EXCEPT ![k].status = "pending"]
    BY <1>1, <1>6, <2>1, <2>3 DEF Authorize, JobMoves, Publishes, Rests, Keeps, Quiet, JobRow
  <2>4. ASSUME NEW s \in {"expired", "canceled"}, jobs[k].status = "staged",
               jobs' = [jobs EXCEPT ![k] = Ended(jobs[k], s)]
        PROVE  JobMoves(j)
    BY <1>1, <2>1, <2>4, EndingMove DEF JobMoves, Rests, Terminal
  <2> QED
    BY <1>6, <2>2, <2>3, <2>4 DEF Authorize
<1>7. ASSUME NEW w \in Workers, Claim(w) PROVE JobMoves(j)
  <2>1. jobs'[j] = Swept(j) => Ends(j) \/ Rests(j)
    BY EndingMove DEF Swept, Sweepable, Rests, Terminal
  <2>2. CASE jobs'[j] = Swept(j)
    BY <2>1, <2>2 DEF JobMoves
  <2>3. CASE jobs[j].status = "pending" /\ jobs'[j] = [jobs[j] EXCEPT !.status = "claimed", !.claim = w]
    BY <1>1, <1>7, <2>3 DEF Claim, JobMoves, Takes, Keeps, Quiet, JobRow
  <2> QED
    BY <1>7, <2>2, <2>3 DEF Claim, Claimable
<1>8. ASSUME NEW w \in Workers, NEW k \in JobIds, Start(w, k) PROVE JobMoves(j)
  <2>1. CASE Live(jobs[k].grant) /\ jobs' = [jobs EXCEPT ![k].status = "running"]
    BY <1>1, <1>8, <2>1 DEF Start, JobMoves, Begins, Rests, Keeps, Quiet, JobRow
  <2>2. ASSUME NEW s \in {"expired", "canceled"}, jobs' = [jobs EXCEPT ![k] = Ended(jobs[k], s)]
        PROVE  JobMoves(j)
    BY <1>1, <1>8, <2>2, EndingMove DEF Start, JobMoves, Rests, Terminal
  <2> QED
    BY <1>8, <2>1, <2>2 DEF Start
<1>9. ASSUME NEW w \in Workers, NEW k \in JobIds,
             (\E success \in BOOLEAN : Complete(w, k, success)) \/ RejectClaim(w, k)
      PROVE  JobMoves(j)
  BY <1>1, <1>9, EndingMove DEF Complete, RejectClaim, JobMoves, Rests, Terminal, Held
<1>10. ASSUME ~UNCHANGED jobs
       PROVE  \/ RevokeAll \/ (\E g \in GrantIds : RevokeGrant(g))
              \/ Enqueue \/ Authorize
              \/ \E w \in Workers : \/ Claim(w)
                                    \/ \E k \in JobIds :
                                         \/ Start(w, k)
                                         \/ \E success \in BOOLEAN : Complete(w, k, success)
                                         \/ RejectClaim(w, k)
  BY <1>10 DEF Next, OperatorStep, AgentStep, SubmissionStep, WorkerStep, vars, Enable,
     IssueGrant, IssueClaim, Decide, RedeemClaim, SubmitCommand, LookupRequest, MatchApproval,
     RequestApproval, AbandonSubmission, GuardWorkerEnabled, LosePoll, Tick
<1> QED
  BY <1>2, <1>3, <1>4, <1>5, <1>6, <1>7, <1>8, <1>9, <1>10

-----------------------------------------------------------------------------
(* Published work is authorized. *)

\* What a step can do to the authority and the grants: a revocation, which
\* also clears the queue it covers, an Enable, a new grant, or nothing.
Inserts(g) ==
    /\ ~grants[g].issued
    /\ grants'[g].issued /\ grants'[g].epoch = authority.epoch /\ ~grants'[g].revoked
    /\ \A h \in GrantIds \ {g} : grants'[h] = grants[h]
    /\ UNCHANGED <<authority, jobs, dead>>

\* Every step is a revocation, an Enable, the insertion of a grant, or leaves grants alone.
LEMMA EveryGrantMoves ==
    ASSUME Typed, [Next]_vars
    PROVE  \/ RevokeAll \/ Enable
           \/ \E g \in GrantIds : RevokeGrant(g)
           \/ \E g \in GrantIds : Inserts(g)
           \/ Quiet
<1>1. ASSUME NEW g \in GrantIds, NEW s \in GrantScopes, IssueGrant(g, s) PROVE Inserts(g)
  BY <1>1 DEF IssueGrant, InsertGrant, NextGrant, Inserts, Typed, TypeOK
<1>2. ASSUME NEW g \in GrantIds, NEW c \in ClaimIds, RedeemClaim(c, g) PROVE Inserts(g)
  BY <1>2 DEF RedeemClaim, InsertGrant, NextGrant, Inserts, Typed, TypeOK
<1>3. CASE OperatorStep
  BY <1>1, <1>3 DEF OperatorStep, IssueClaim, Decide, Quiet
<1>4. CASE AgentStep
  BY <1>2, <1>4 DEF AgentStep, SubmitCommand, Quiet
<1>5. CASE SubmissionStep
  BY <1>5 DEF SubmissionStep, LookupRequest, MatchApproval, RequestApproval, Enqueue,
     Authorize, AbandonSubmission, Quiet
<1>6. CASE WorkerStep
  BY <1>6 DEF WorkerStep, GuardWorkerEnabled, LosePoll, Claim, Start, Complete, RejectClaim, Quiet
<1>7. CASE Tick \/ UNCHANGED vars
  BY <1>7 DEF Tick, vars, Quiet
<1> QED
  BY <1>3, <1>4, <1>5, <1>6, <1>7 DEF Next

\* Every step leaves only live work on the queue.
LEMMA PublishedStep ==
    ASSUME Typed, PublishedIsAuthorized, [Next]_vars
    PROVE  PublishedIsAuthorized'
<1> SUFFICES ASSUME NEW j \in JobIds, jobs'[j].status \in {"pending", "claimed"}
             PROVE  LET g == jobs'[j].grant IN
                    /\ ~authority'.disabled
                    /\ g \in GrantIds /\ grants'[g].issued /\ ~grants'[g].revoked
                    /\ grants'[g].epoch = authority'.epoch
                    /\ grants'[g].scope.exec /\ jobs'[j].target \in grants'[g].scope.targets
  BY DEF PublishedIsAuthorized
<1>1. JobMoves(j)
  BY EveryJobMoves
<1>2. CASE RevokeAll
  <2>1. jobs[j] \in JobRow /\ Ended(jobs[j], "canceled").status = "canceled"
    BY EndedRow DEF Typed, TypeOK, Terminal
  <2> QED
    BY <1>2, <2>1 DEF RevokeAll, CancelNotRunning, NotRunning
<1>3. CASE Enable
  BY <1>3 DEF Enable, PublishedIsAuthorized
<1>4. CASE \E h \in GrantIds : RevokeGrant(h)
  <2>1. PICK h \in GrantIds : RevokeGrant(h)
    BY <1>4
  <2>2. jobs[j] \in JobRow /\ Ended(jobs[j], "canceled").status = "canceled"
    BY EndedRow DEF Typed, TypeOK, Terminal
  <2>3. jobs'[j] = jobs[j] /\ jobs[j].grant # h
    BY <2>1, <2>2 DEF RevokeGrant, CancelNotRunning, NotRunning
  <2> QED
    BY <2>1, <2>3 DEF RevokeGrant, PublishedIsAuthorized, Typed, TypeOK
<1>5. CASE \E h \in GrantIds : Inserts(h)
  BY <1>5 DEF Inserts, PublishedIsAuthorized
<1>6. CASE Quiet
  <2>1. CASE Publishes(j)
    BY <1>6, <2>1 DEF Publishes, Keeps, Admitted, Live, Quiet, Typed, JobBound
  <2>2. CASE Takes(j) \/ Rests(j)
    BY <1>6, <2>2 DEF Takes, Rests, Keeps, Quiet, PublishedIsAuthorized
  <2> QED
    BY <1>1, <2>1, <2>2 DEF JobMoves, Stages, Begins, Ends, Terminal
<1> QED
  BY <1>2, <1>3, <1>4, <1>5, <1>6, EveryGrantMoves

\* No interleaving of submissions, claims and revocations leaves a job that a
\* worker may claim or start under a disabled, stale or revoked authority.
THEOREM QueueIsAuthorized == Spec => []PublishedIsAuthorized
<1>1. Init => PublishedIsAuthorized
  BY DEF Init, PublishedIsAuthorized
<1>2. Spec => []Typed
  BY InitTyped, NextTyped, PTL DEF Spec
<1> QED
  BY <1>1, <1>2, PublishedStep, PTL DEF Spec

-----------------------------------------------------------------------------
(* Revocation is permanent below the epoch limit. *)

EpochsBehind == \A g \in GrantIds : grants[g].issued => grants[g].epoch <= authority.epoch

DeadStale ==
    \A g \in dead :
        /\ grants[g].issued
        /\ grants[g].revoked \/ grants[g].epoch < authority.epoch

Stale == EpochsBehind /\ DeadStale

\* Below the largest epoch, every step keeps dead grants revoked or behind the epoch.
LEMMA StaleStep ==
    ASSUME EpochBound < MaxEpoch, Typed, Stale, [Next]_vars
    PROVE  Stale'
<1>0. /\ authority.epoch \in Nat /\ MaxEpoch \in Nat /\ EpochBound \in Nat
      /\ \A g \in GrantIds : grants[g] \in GrantRow /\ grants[g].epoch \in Nat
      /\ dead \subseteq GrantIds
  BY BoundsAssumption DEF Typed, TypeOK, GrantRow, Epochs
<1>1. CASE RevokeAll
  <2>1. authority'.epoch = authority.epoch + 1
    BY <1>0, <1>1 DEF RevokeAll, NextEpoch
  <2> QED
    BY <1>0, <1>1, <2>1 DEF RevokeAll, Stale, EpochsBehind, DeadStale
<1>2. CASE Enable
  BY <1>2 DEF Enable, Stale, EpochsBehind, DeadStale, Typed, TypeOK
<1>3. CASE \E g \in GrantIds : RevokeGrant(g)
  <2>1. PICK g \in GrantIds : RevokeGrant(g)
    BY <1>3
  <2>2. ASSUME NEW h \in GrantIds
        PROVE  /\ grants'[h].issued = grants[h].issued /\ grants'[h].epoch = grants[h].epoch
               /\ grants[h].revoked => grants'[h].revoked
    BY <1>0, <2>1 DEF RevokeGrant, Typed, TypeOK, GrantRow
  <2>3. grants'[g].revoked /\ grants[g].issued
    BY <1>0, <2>1 DEF RevokeGrant, Typed, TypeOK, GrantRow
  <2> QED
    BY <1>0, <2>1, <2>2, <2>3 DEF RevokeGrant, Stale, EpochsBehind, DeadStale
<1>4. CASE \E g \in GrantIds : Inserts(g)
  BY <1>0, <1>4 DEF Inserts, Stale, EpochsBehind, DeadStale
<1>5. CASE Quiet
  BY <1>5 DEF Quiet, Stale, EpochsBehind, DeadStale
<1> QED
  BY <1>1, <1>2, <1>3, <1>4, <1>5, EveryGrantMoves

\* A grant that is revoked or behind the epoch does not authenticate.
LEMMA StaleIsDead == Typed /\ Stale => RevokedStayDead
<1> SUFFICES ASSUME Typed, Stale, NEW g \in dead PROVE ~Live(g)
  BY DEF RevokedStayDead
<1>1. g \in GrantIds /\ grants[g] \in GrantRow
  BY DEF Typed, TypeOK
<1>2. grants[g].epoch \in Nat /\ authority.epoch \in Nat
  BY <1>1, BoundsAssumption DEF Typed, TypeOK, GrantRow, Epochs
<1>3. grants[g].revoked \/ grants[g].epoch < authority.epoch
  BY DEF Stale, DeadStale
<1>4. CASE grants[g].revoked
  BY <1>4 DEF Live
<1>5. CASE grants[g].epoch < authority.epoch
  <2>1. grants[g].epoch # authority.epoch
    BY <1>2, <1>5
  <2> QED
    BY <2>1 DEF Live
<1> QED
  BY <1>3, <1>4, <1>5

\* A grant covered by a committed RevokeAll or Revoke never authenticates again,
\* as long as the epoch counter has room for the revocations that happen.
THEOREM RevocationIsPermanent ==
    ASSUME EpochBound < MaxEpoch
    PROVE  Spec => []RevokedStayDead
<1>1. Init => Stale
  BY DEF Init, Stale, EpochsBehind, DeadStale
<1>2. Spec => []Typed
  BY InitTyped, NextTyped, PTL DEF Spec
<1>3. Typed /\ Stale /\ [Next]_vars => Stale'
  BY StaleStep
<1> QED
  BY <1>1, <1>2, <1>3, StaleIsDead, PTL DEF Spec

\* Below the epoch limit a job that is not running when its grant is revoked
\* never starts.
THEOREM RevokedJobsNeverStart ==
    ASSUME EpochBound < MaxEpoch
    PROVE  Spec => RevokedNeverStart
<1>1. Init => Stale
  BY DEF Init, Stale, EpochsBehind, DeadStale
<1>2. Spec => []Typed
  BY InitTyped, NextTyped, PTL DEF Spec
<1>3. Typed /\ Stale /\ [Next]_vars => Stale'
  BY StaleStep
<1>4. ASSUME Typed, Stale, [Next]_vars, NEW j \in JobIds,
             jobs'[j].grant \in dead, jobs[j].status # "running"
      PROVE  jobs'[j].status # "running"
  <2>1. JobMoves(j)
    BY <1>4, EveryJobMoves
  <2>2. ~Begins(j)
    BY <1>4, StaleIsDead DEF Begins, Keeps, RevokedStayDead
  <2> QED
    BY <1>4, <2>1, <2>2 DEF JobMoves, Stages, Publishes, Takes, Ends, Rests, Terminal
<1>5. Typed /\ Stale /\ [Next]_vars
        => [\A j \in JobIds : jobs'[j].grant \in dead /\ jobs[j].status # "running"
                                => jobs'[j].status # "running"]_vars
  BY <1>4
<1> QED
  BY <1>1, <1>2, <1>3, <1>5, PTL DEF Spec, RevokedNeverStart

-----------------------------------------------------------------------------
(* The job table implements JobLifecycle. *)

\* A used row, and the submission in flight, refer to grants that were issued.
Rooted ==
    /\ sub.pc # "idle" => grants[sub.grant].issued
    /\ \A j \in JobIds : IF jobs[j].status = "none" THEN jobs[j].grant = 0
                                                    ELSE grants[jobs[j].grant].issued

\* Every step keeps submissions and jobs under grants that were issued.
LEMMA RootedStep ==
    ASSUME Typed, Rooted, [Next]_vars
    PROVE  Rooted'
<1>1. ASSUME NEW g \in GrantIds, grants[g].issued PROVE grants'[g].issued
  <2>1. CASE \E h \in GrantIds : RevokeGrant(h)
    BY <1>1, <2>1 DEF RevokeGrant, Typed, TypeOK, GrantRow
  <2> QED
    BY <1>1, <2>1, EveryGrantMoves DEF RevokeAll, Enable, Inserts, Quiet
<1>2. sub'.pc # "idle" => grants'[sub'.grant].issued
  <2>1. CASE sub'.grant = sub.grant /\ sub.pc # "idle"
    BY <1>1, <2>1 DEF Rooted, Typed, SubBound
  <2>2. CASE sub' = Idle
    BY <2>2, IdleType
  <2>3. ASSUME NEW g \in GrantIds, NEW r \in Requests, NEW t \in Targets, NEW c \in Commands,
               SubmitCommand(g, r, t, c)
        PROVE  grants'[sub'.grant].issued
    BY <2>3 DEF SubmitCommand, Live
  <2>4. CASE sub' = sub
    BY <1>1, <2>4 DEF Rooted, Typed, SubBound
  <2>5. CASE SubmissionStep
    BY <2>1, <2>2, <2>5 DEF SubmissionStep, LookupRequest, MatchApproval, RequestApproval,
       Enqueue, AnswerFrom, StageJob, Authorize, AbandonSubmission, Finish, Typed, TypeOK, Submission
  <2>6. ASSUME ~SubmissionStep, sub' # sub
        PROVE  \E g \in GrantIds, r \in Requests, t \in Targets, c \in Commands : SubmitCommand(g, r, t, c)
    BY <2>6 DEF Next, OperatorStep, AgentStep, WorkerStep, vars, RevokeAll, Enable, IssueGrant,
       RevokeGrant, IssueClaim, Decide, RedeemClaim, GuardWorkerEnabled, LosePoll, Claim, Start,
       Complete, RejectClaim, Tick
  <2> QED
    BY <2>3, <2>4, <2>5, <2>6
<1>3. ASSUME NEW j \in JobIds
      PROVE  IF jobs'[j].status = "none" THEN jobs'[j].grant = 0 ELSE grants'[jobs'[j].grant].issued
  <2>1. JobMoves(j)
    BY EveryJobMoves
  <2>2. CASE Stages(j)
    BY <1>1, <2>2 DEF Stages, Rooted, Typed, SubBound
  <2>3. CASE Rests(j) /\ jobs[j].status = "none"
    BY <2>3 DEF Rests, Rooted
  <2>4. CASE jobs[j].status # "none" /\ jobs'[j].status # "none" /\ jobs'[j].grant = jobs[j].grant
    BY <1>1, <2>4 DEF Rooted, Typed, JobBound
  <2> QED
    BY <2>1, <2>2, <2>3, <2>4
    DEF JobMoves, Publishes, Takes, Begins, Ends, Rests, Keeps, Terminal
<1> QED
  BY <1>2, <1>3 DEF Rooted

\* The empty table maps to the initial state of the abstract life cycle.
LEMMA LifecycleInit == Init => Lifecycle!Init
<1> SUFFICES ASSUME Init PROVE Lifecycle!Init
  OBVIOUS
<1>1. [j \in JobIds |-> jobs[j].status] = [j \in JobIds |-> "none"]
  BY DEF Init
<1>2. [j \in JobIds |-> jobs[j].grant \in dead] = [j \in JobIds |-> FALSE]
  <2>1. \A j \in JobIds : (jobs[j].grant \in dead) = FALSE
    BY DEF Init
  <2> QED
    BY <2>1, Zenon
<1> QED
  BY <1>1, <1>2 DEF Lifecycle!Init

\* Every step of the table maps to a step of the abstract life cycle or a stutter.
LEMMA LifecycleStep ==
    ASSUME Typed, PublishedIsAuthorized, Stale, Rooted, [Next]_vars
    PROVE  [Lifecycle!Next]_(Lifecycle!vars)
<1> SUFFICES ASSUME NEW j \in JobIds PROVE Lifecycle!Step(j)
  BY DEF Lifecycle!Next
<1> DEFINE status == [k \in JobIds |-> jobs[k].status]
           killed == [k \in JobIds |-> jobs[k].grant \in dead]
<1>1. /\ status[j] = jobs[j].status /\ status'[j] = jobs'[j].status
      /\ killed[j] = (jobs[j].grant \in dead) /\ killed'[j] = (jobs'[j].grant \in dead')
  OBVIOUS
<1>2. JobMoves(j)
  BY EveryJobMoves
<1>3. RevokedStayDead
  BY StaleIsDead
<1>4. CASE Stages(j)
  BY <1>1, <1>4 DEF Stages, Lifecycle!Step, Lifecycle!Stage, Lifecycle!Moves
<1>5. CASE Publishes(j)
  BY <1>1, <1>3, <1>5 DEF Publishes, Admitted, RevokedStayDead, Keeps, Quiet,
     Lifecycle!Step, Lifecycle!Publish, Lifecycle!Moves, Lifecycle!Same
<1>6. CASE Takes(j)
  <2>1. jobs[j].grant \notin dead
    BY <1>6, BoundsAssumption DEF Takes, PublishedIsAuthorized, Stale, DeadStale,
       Typed, TypeOK, GrantRow, Epochs
  <2> QED
    BY <1>1, <1>6, <2>1 DEF Takes, Keeps, Quiet,
       Lifecycle!Step, Lifecycle!Take, Lifecycle!Moves, Lifecycle!Same
<1>7. CASE Begins(j)
  BY <1>1, <1>3, <1>7 DEF Begins, RevokedStayDead, Keeps, Quiet,
     Lifecycle!Step, Lifecycle!Begin, Lifecycle!Moves, Lifecycle!Same
<1>8. CASE Ends(j) /\ dead' = dead
  BY <1>1, <1>8 DEF Ends, Keeps, Terminal, Lifecycle!Step, Lifecycle!Finish, Lifecycle!Abort,
     Lifecycle!Moves, Lifecycle!Same, Lifecycle!Open, Lifecycle!Results
<1>9. CASE Rests(j) /\ dead' = dead
  BY <1>1, <1>9 DEF Rests, Lifecycle!Step, Lifecycle!Rest, Lifecycle!Same
<1>10. CASE RevokeAll \/ \E g \in GrantIds : RevokeGrant(g)
  <2>1. /\ jobs[j] \in JobRow
        /\ Ended(jobs[j], "canceled").status = "canceled"
        /\ Ended(jobs[j], "canceled").grant = jobs[j].grant
    BY EndedRow DEF Typed, TypeOK, Terminal
  <2>2. ASSUME jobs[j].status # "none", jobs'[j].grant = jobs[j].grant, jobs[j].grant \in dead',
               jobs'[j].status = IF jobs[j].status \in NotRunning THEN "canceled" ELSE jobs[j].status
        PROVE  Lifecycle!Step(j)
    BY <1>1, <2>2 DEF NotRunning, Lifecycle!Step, Lifecycle!Kill, Lifecycle!Open
  <2>3. ASSUME jobs'[j] = jobs[j], jobs[j].grant \in dead' <=> jobs[j].grant \in dead
        PROVE  Lifecycle!Step(j)
    BY <1>1, <2>3 DEF Lifecycle!Step, Lifecycle!Rest, Lifecycle!Same
  <2>4. CASE RevokeAll /\ jobs[j].status = "none"
    <3>1. jobs'[j] = jobs[j] /\ jobs[j].grant \notin GrantIds
      BY <2>4, BoundsAssumption
      DEF RevokeAll, CancelNotRunning, NotRunning, Rooted, GrantIds
    <3> QED
      BY <2>3, <2>4, <3>1 DEF RevokeAll, Typed, TypeOK
  <2>5. CASE RevokeAll /\ jobs[j].status # "none"
    <3>1. jobs[j].grant \in dead'
      BY <2>5 DEF RevokeAll, Rooted, Typed, JobBound
    <3> QED
      BY <2>1, <2>2, <2>5, <3>1 DEF RevokeAll, CancelNotRunning
  <2>6. ASSUME NEW g \in GrantIds, RevokeGrant(g) PROVE Lifecycle!Step(j)
    <3>1. CASE jobs[j].grant = g
      <4>1. jobs[j].status # "none"
        BY <3>1, BoundsAssumption DEF Rooted, GrantIds
      <4> QED
        BY <2>1, <2>2, <2>6, <3>1, <4>1 DEF RevokeGrant, CancelNotRunning
    <3>2. CASE jobs[j].grant # g
      BY <2>3, <2>6, <3>2 DEF RevokeGrant, CancelNotRunning
    <3> QED
      BY <3>1, <3>2
  <2> QED
    BY <1>10, <2>4, <2>5, <2>6
<1> QED
  BY <1>2, <1>4, <1>5, <1>6, <1>7, <1>8, <1>9, <1>10, EveryGrantMoves
  DEF JobMoves, Enable, Inserts, Quiet

\* Below the epoch limit the job table implements the abstract life cycle: forward
\* only, published, claimed and started at most once, never started once killed.
THEOREM Refinement ==
    ASSUME EpochBound < MaxEpoch
    PROVE  Spec => JobsFollowLifecycle
<1>1. Init => Stale /\ Rooted /\ PublishedIsAuthorized
  BY IdleType DEF Init, Stale, EpochsBehind, DeadStale, Rooted, PublishedIsAuthorized
<1>2. Spec => []Typed
  BY InitTyped, NextTyped, PTL DEF Spec
<1>3. Typed /\ Stale /\ [Next]_vars => Stale'
  BY StaleStep
<1>4. Typed /\ Rooted /\ [Next]_vars => Rooted'
  BY RootedStep
<1>5. Spec => []PublishedIsAuthorized
  BY QueueIsAuthorized
<1>6. Typed /\ PublishedIsAuthorized /\ Stale /\ Rooted /\ [Next]_vars
        => [Lifecycle!Next]_(Lifecycle!vars)
  BY LifecycleStep
<1>7. Spec => Lifecycle!Init /\ [][Lifecycle!Next]_(Lifecycle!vars)
  BY <1>1, <1>2, <1>3, <1>4, <1>5, <1>6, LifecycleInit, PTL DEF Spec
<1> QED
  BY <1>7 DEF JobsFollowLifecycle, Lifecycle!Spec

=============================================================================

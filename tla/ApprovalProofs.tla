--------------------------- MODULE ApprovalProofs ---------------------------
(***************************************************************************)
(* Proofs about approvals and request identities in ControlPlane, for      *)
(* every value of its constants.                                           *)
(***************************************************************************)
EXTENDS ControlPlaneProofs

-----------------------------------------------------------------------------
(* What a step can do to the approvals and to the set of authorized jobs. *)

\* Appending an event of another kind authorizes nothing.
LEMMA OtherKind ==
    ASSUME NEW kind, NEW row, NEW j, kind # "execution.job_authorized",
           audit' = audit \cup {<<kind, row>>}
    PROVE  Authorized(j)' => Authorized(j)
  BY DEF Authorized

\* Only publication by Authorize makes a job authorized.
LEMMA EveryAuthorization ==
    ASSUME Typed, [Next]_vars, NEW j \in JobIds, Authorized(j)'
    PROVE  Authorized(j) \/ Publishes(j)
<1>1. CASE Authorize
  <2> DEFINE k == sub.job
  <2>1. k \in JobIds /\ jobs \in [JobIds -> JobRow] /\ jobs[k] \in JobRow
    BY <1>1 DEF Authorize, Typed, TypeOK, SubBound
  <2>2. CASE /\ jobs[k].status = "staged" /\ Admitted(k) /\ PolicyHolds(k) /\ Consume(k)
             /\ jobs' = [jobs EXCEPT ![k].status = "pending"]
             /\ audit' = audit \cup {<<"execution.job_authorized", k>>}
    <3>1. Publishes(k)
      BY <1>1, <2>1, <2>2 DEF Authorize, Publishes, Keeps, Quiet, JobRow
    <3> QED
      BY <2>2, <3>1 DEF Authorized
  <2>3. CASE audit' \in {audit, audit \cup {<<"execution.job_authorization_rejected", k>>}}
    BY <2>3 DEF Authorized
  <2> QED
    BY <1>1, <2>2, <2>3 DEF Authorize
<1>2. CASE UNCHANGED audit
  BY <1>2 DEF Authorized
<1>3. CASE OperatorStep
  <2>1. CASE Enable
    BY <2>1 DEF Enable, Authorized
  <2>2. CASE RevokeAll
    BY <2>2, OtherKind DEF RevokeAll
  <2>3. ASSUME NEW g \in GrantIds, (\E s \in GrantScopes : IssueGrant(g, s)) \/ RevokeGrant(g)
        PROVE  Authorized(j)
    BY <2>3, OtherKind DEF IssueGrant, RevokeGrant
  <2>4. ASSUME NEW c \in ClaimIds, NEW s \in GrantScopes, IssueClaim(c, s) PROVE Authorized(j)
    BY <2>4, OtherKind DEF IssueClaim
  <2>5. ASSUME NEW a \in ApprovalIds, NEW d \in Decisions, Decide(a, d) PROVE Authorized(j)
    BY <2>5, OtherKind DEF Decide
  <2> QED
    BY <1>3, <2>1, <2>2, <2>3, <2>4, <2>5 DEF OperatorStep
<1>4. CASE AgentStep
  BY <1>4 DEF AgentStep, RedeemClaim, SubmitCommand, Authorized
<1>5. CASE WorkerStep
  <2>1. PICK w \in Workers :
            \/ GuardWorkerEnabled(w) \/ LosePoll(w) \/ Claim(w)
            \/ \E k \in JobIds : \/ Start(w, k)
                                 \/ \E success \in BOOLEAN : Complete(w, k, success)
                                 \/ RejectClaim(w, k)
    BY <1>5 DEF WorkerStep
  <2>2. CASE GuardWorkerEnabled(w) \/ LosePoll(w)
    BY <1>2, <2>2 DEF GuardWorkerEnabled, LosePoll
  <2>3. CASE Claim(w)
    BY <1>2, <2>3, OtherKind DEF Claim
  <2>4. ASSUME NEW k \in JobIds, Start(w, k) PROVE Authorized(j)
    BY <2>4, OtherKind DEF Start
  <2>5. ASSUME NEW k \in JobIds, NEW success \in BOOLEAN, Complete(w, k, success)
        PROVE  Authorized(j)
    BY <2>5, OtherKind DEF Complete
  <2>6. ASSUME NEW k \in JobIds, RejectClaim(w, k) PROVE Authorized(j) \/ Publishes(j)
    BY <1>2, <2>6, OtherKind DEF RejectClaim
  <2> QED
    BY <2>1, <2>2, <2>3, <2>4, <2>5, <2>6
<1>7. CASE LookupRequest
  BY <1>2, <1>7, OtherKind DEF LookupRequest
<1>8. CASE MatchApproval
  BY <1>2, <1>8, OtherKind DEF MatchApproval
<1>9. CASE RequestApproval
  BY <1>2, <1>9, OtherKind DEF RequestApproval
<1>10. CASE Enqueue \/ AbandonSubmission
  BY <1>2, <1>10 DEF Enqueue, AbandonSubmission
<1>6. CASE Tick \/ UNCHANGED vars
  BY <1>2, <1>6 DEF Tick, vars
<1> QED
  BY <1>1, <1>3, <1>4, <1>5, <1>6, <1>7, <1>8, <1>9, <1>10 DEF Next, SubmissionStep

\* An approval row changes only while it is unused or pending, or by being spent
\* on the job that the same step publishes.
Spends(a, j) ==
    /\ Publishes(j) /\ jobs[j].approval = a
    /\ ApprovalHolds(j) /\ approvals[a].decision = "allow_once"

\* A decided approval changes only when Authorize spends it.
LEMMA EveryApprovalMoves ==
    ASSUME Typed, [Next]_vars, NEW a \in ApprovalIds
    PROVE  \/ approvals'[a] = approvals[a]
           \/ approvals[a].status \in {"none", "pending"}
           \/ \E j \in JobIds : Spends(a, j)
<1>1. CASE Authorize
  <2> DEFINE k == sub.job
  <2>1. k \in JobIds /\ jobs \in [JobIds -> JobRow] /\ jobs[k] \in JobRow
    BY <1>1 DEF Authorize, Typed, TypeOK, SubBound
  <2>2. CASE UNCHANGED approvals
    BY <2>2
  <2>3. CASE /\ ~UNCHANGED approvals
             /\ jobs[k].status = "staged" /\ Admitted(k) /\ PolicyHolds(k) /\ Consume(k)
             /\ jobs' = [jobs EXCEPT ![k].status = "pending"]
    <3>1. Publishes(k)
      BY <1>1, <2>1, <2>3 DEF Authorize, Publishes, Keeps, Quiet, JobRow
    <3>2. /\ approvals' = [approvals EXCEPT ![jobs[k].approval] =
                   [@ EXCEPT !.status = "consumed", !.consumedBy = k]]
          /\ ApprovalHolds(k) /\ approvals[jobs[k].approval].decision = "allow_once"
      BY <2>3 DEF Consume, PolicyHolds
    <3>3. CASE jobs[k].approval = a
      BY <2>1, <3>1, <3>2, <3>3 DEF Spends
    <3>4. CASE jobs[k].approval # a
      BY <3>2, <3>4 DEF Typed, TypeOK
    <3> QED
      BY <3>3, <3>4
  <2> QED
    BY <1>1, <2>2, <2>3 DEF Authorize
<1>2. ASSUME NEW b \in ApprovalIds, NEW d \in Decisions, Decide(b, d)
      PROVE  approvals'[a] = approvals[a] \/ approvals[a].status \in {"none", "pending"}
  BY <1>2 DEF Decide, Typed, TypeOK
<1>3. CASE RequestApproval
  BY <1>3 DEF RequestApproval, Typed, TypeOK
<1>4. ASSUME ~UNCHANGED approvals
      PROVE  \/ Authorize \/ RequestApproval
             \/ \E b \in ApprovalIds, d \in Decisions : Decide(b, d)
  BY <1>4 DEF Next, OperatorStep, AgentStep, SubmissionStep, WorkerStep, vars, RevokeAll, Enable,
     IssueGrant, RevokeGrant, IssueClaim, RedeemClaim, SubmitCommand, LookupRequest,
     MatchApproval, Enqueue, AbandonSubmission, GuardWorkerEnabled, LosePoll, Claim, Start,
     Complete, RejectClaim, Tick
<1> QED
  BY <1>1, <1>2, <1>3, <1>4

-----------------------------------------------------------------------------
(* The inductive invariant *)

\* An authorized job has left the staging area for good.
AuthorizedLeft == \A j \in JobIds : Authorized(j) => jobs[j].status \notin {"none", "staged"}

\* Only risky commands are bound to approvals.
BoundIsRisky ==
    /\ sub.pc = "match" \/ sub.approval # 0 => SubRisk.decision = "approval_required"
    /\ \A j \in JobIds : jobs[j].status # "none" /\ jobs[j].approval # 0
         => Risk[jobs[j].command].decision = "approval_required"

ApprovalInv == AuthorizedLeft /\ BoundIsRisky /\ ApprovalBinding

\* An authorized job never goes back to being staged.
LEMMA AuthorizedLeftStep ==
    ASSUME Typed, AuthorizedLeft, [Next]_vars
    PROVE  AuthorizedLeft'
<1> SUFFICES ASSUME NEW j \in JobIds, Authorized(j)'
             PROVE  jobs'[j].status \notin {"none", "staged"}
  BY DEF AuthorizedLeft
<1>1. JobMoves(j)
  BY EveryJobMoves
<1>2. CASE Publishes(j)
  BY <1>2 DEF Publishes
<1>3. CASE Authorized(j)
  BY <1>1, <1>3 DEF AuthorizedLeft, JobMoves, Stages, Publishes, Takes, Begins, Ends, Rests, Terminal
<1> QED
  BY <1>2, <1>3, EveryAuthorization

\* Every step keeps authorized risky jobs bound to an approval of their own.
LEMMA BindingStep ==
    ASSUME Typed, AuthorizedLeft, ApprovalBinding, [Next]_vars
    PROVE  ApprovalBinding'
<1> SUFFICES ASSUME NEW j \in JobIds, Authorized(j)',
                    Risk[jobs'[j].command].decision = "approval_required"
             PROVE  LET a == jobs'[j].approval IN
                    /\ a \in ApprovalIds
                    /\ approvals'[a].grant = jobs'[j].grant
                    /\ approvals'[a].target = jobs'[j].target
                    /\ approvals'[a].scope = Risk[jobs'[j].command].scope
                    /\ \/ /\ approvals'[a].decision = "allow_once"
                          /\ approvals'[a].status = "consumed" /\ approvals'[a].consumedBy = j
                       \/ /\ approvals'[a].decision = "allow_session"
                          /\ approvals'[a].status = "decided"
                          /\ approvals'[a].scope \notin ShellScopes
  BY DEF ApprovalBinding
<1> DEFINE a == jobs[j].approval
<1>1. CASE Publishes(j)
  <2>1. ApprovalHolds(j) /\ Keeps(j) /\ Consume(j)
    BY <1>1 DEF Publishes, PolicyHolds, Keeps
  <2>2. a \in 0..MaxApprovals /\ a # 0
    BY <2>1 DEF ApprovalHolds, Typed, TypeOK, JobRow
  <2>3. a \in ApprovalIds
    BY <2>2, BoundsAssumption DEF ApprovalIds
  <2>4. approvals[a] \in ApprovalRow
    BY <2>3 DEF Typed, TypeOK
  <2>5. CASE approvals[a].decision = "allow_once"
    <3>1. approvals'[a] = [approvals[a] EXCEPT !.status = "consumed", !.consumedBy = j]
      BY <2>1, <2>3, <2>5 DEF Consume, Keeps, Typed, TypeOK
    <3>2. /\ approvals'[a].status = "consumed" /\ approvals'[a].consumedBy = j
          /\ approvals'[a].grant = approvals[a].grant /\ approvals'[a].target = approvals[a].target
          /\ approvals'[a].scope = approvals[a].scope /\ approvals'[a].decision = "allow_once"
      BY <2>4, <2>5, <3>1 DEF ApprovalRow
    <3> QED
      BY <2>1, <2>3, <3>2 DEF ApprovalHolds, Keeps
  <2>6. CASE approvals[a].decision = "allow_session"
    BY <2>1, <2>3, <2>6 DEF Consume, ApprovalHolds, Keeps, SessionApprovalAllowed
  <2> QED
    BY <2>1, <2>5, <2>6 DEF ApprovalHolds
<1>2. CASE Authorized(j) /\ ~Publishes(j)
  <2>1. jobs[j].status \notin {"none", "staged"} /\ JobMoves(j)
    BY <1>2, EveryJobMoves DEF AuthorizedLeft
  <2>2. Keeps(j)
    BY <2>1 DEF JobMoves, Stages, Publishes, Takes, Begins, Ends, Rests, Keeps
  <2>3. /\ a \in ApprovalIds
        /\ approvals[a].grant = jobs[j].grant
        /\ approvals[a].target = jobs[j].target
        /\ approvals[a].scope = Risk[jobs[j].command].scope
        /\ \/ /\ approvals[a].decision = "allow_once"
              /\ approvals[a].status = "consumed" /\ approvals[a].consumedBy = j
           \/ /\ approvals[a].decision = "allow_session"
              /\ approvals[a].status = "decided"
              /\ approvals[a].scope \notin ShellScopes
    BY <1>2, <2>2 DEF ApprovalBinding, Keeps
  <2>4. ASSUME NEW k \in JobIds, Spends(a, k) PROVE FALSE
    <3>1. k = j
      BY <2>3, <2>4 DEF Spends, ApprovalHolds
    <3> QED
      BY <2>1, <2>4, <3>1 DEF Spends, Publishes
  <2>5. approvals'[a] = approvals[a]
    BY <2>3, <2>4, EveryApprovalMoves
  <2> QED
    BY <2>2, <2>3, <2>5 DEF Keeps
<1> QED
  BY <1>1, <1>2, EveryAuthorization

\* Only submissions and jobs of risky commands carry an approval.
LEMMA RiskyStep ==
    ASSUME Typed, BoundIsRisky, [Next]_vars
    PROVE  BoundIsRisky'
<1>1. sub'.pc = "match" \/ sub'.approval # 0 => SubRisk'.decision = "approval_required"
  <2>0. sub \in Submission /\ Idle.approval = 0 /\ Idle.pc = "idle"
    BY DEF Typed, TypeOK, Idle
  <2>1. CASE sub' = sub \/ (sub'.approval = 0 /\ sub'.pc # "match")
    BY <2>1 DEF BoundIsRisky, SubRisk
  <2>2. CASE SubmissionStep
    <3>1. CASE LookupRequest
      BY <2>0, <2>1, <3>1 DEF LookupRequest, AnswerFrom, Finish, BoundIsRisky, SubRisk, Submission
    <3>2. CASE MatchApproval
      BY <2>0, <2>1, <3>2 DEF MatchApproval, Finish, BoundIsRisky, SubRisk, Submission
    <3>3. CASE Enqueue
      BY <2>0, <2>1, <3>3 DEF Enqueue, AnswerFrom, StageJob, Finish, BoundIsRisky, SubRisk, Submission
    <3> QED
      BY <2>0, <2>1, <2>2, <3>1, <3>2, <3>3
      DEF SubmissionStep, RequestApproval, Authorize, AbandonSubmission, Finish
  <2>3. ASSUME NEW g \in GrantIds, NEW r \in Requests, NEW t \in Targets, NEW c \in Commands,
               SubmitCommand(g, r, t, c)
        PROVE  sub'.approval = 0 /\ sub'.pc # "match"
    BY <2>3 DEF SubmitCommand
  <2>4. CASE ~SubmissionStep
    BY <2>1, <2>3, <2>4 DEF Next, OperatorStep, AgentStep, WorkerStep, vars, RevokeAll, Enable, IssueGrant,
       RevokeGrant, IssueClaim, Decide, RedeemClaim, GuardWorkerEnabled, LosePoll,
       Claim, Start, Complete, RejectClaim, Tick
  <2> QED
    BY <2>2, <2>4
<1>2. ASSUME NEW j \in JobIds, jobs'[j].status # "none", jobs'[j].approval # 0
      PROVE  Risk[jobs'[j].command].decision = "approval_required"
  <2>1. JobMoves(j)
    BY EveryJobMoves
  <2>2. CASE Stages(j)
    BY <1>2, <2>2 DEF Stages, BoundIsRisky, SubRisk
  <2>3. CASE Keeps(j) /\ jobs[j].status # "none"
    BY <1>2, <2>3 DEF Keeps, BoundIsRisky
  <2> QED
    BY <1>2, <2>1, <2>2, <2>3 DEF JobMoves, Publishes, Takes, Begins, Ends, Rests, Keeps
<1> QED
  BY <1>1, <1>2 DEF BoundIsRisky

\* Consumption names the job it was spent on, so two jobs cannot share it.
LEMMA SpentOnce == Typed /\ ApprovalInv => AllowOnceSpentOnce
<1> SUFFICES ASSUME Typed, ApprovalInv, NEW i \in JobIds, NEW j \in JobIds,
                    Authorized(i), Authorized(j),
                    jobs[i].approval = jobs[j].approval, jobs[i].approval \in ApprovalIds,
                    approvals[jobs[i].approval].decision = "allow_once"
             PROVE  i = j
  BY DEF AllowOnceSpentOnce
<1>1. jobs[i].approval # 0
  BY BoundsAssumption DEF ApprovalIds
<1>2. /\ Risk[jobs[i].command].decision = "approval_required"
      /\ Risk[jobs[j].command].decision = "approval_required"
  BY <1>1 DEF ApprovalInv, AuthorizedLeft, BoundIsRisky
<1> QED
  BY <1>2 DEF ApprovalInv, ApprovalBinding

\* The three facts about approvals hold in every reachable state.
LEMMA ApprovalInvariant == Spec => [](Typed /\ ApprovalInv)
<1>1. Init => ApprovalInv
  BY DEF Init, Idle, ApprovalInv, AuthorizedLeft, BoundIsRisky, ApprovalBinding, Authorized
<1>2. Typed /\ ApprovalInv /\ [Next]_vars => ApprovalInv'
  BY AuthorizedLeftStep, BindingStep, RiskyStep DEF ApprovalInv
<1> QED
  BY <1>1, <1>2, InitTyped, NextTyped, PTL DEF Spec

\* Every risky job ever authorized carries an approval of exactly its grant,
\* target and scope that the operator allowed, and that is still on record as such.
THEOREM ApprovalsBind == Spec => []ApprovalBinding
<1>1. Typed /\ ApprovalInv => ApprovalBinding
  BY DEF ApprovalInv
<1> QED
  BY <1>1, ApprovalInvariant, PTL

\* An allow_once approval authorizes at most one job in any behaviour.
THEOREM AllowOnceIsOnce == Spec => []AllowOnceSpentOnce
  BY SpentOnce, ApprovalInvariant, PTL

-----------------------------------------------------------------------------
(* Request identities and deadlines *)

\* Every step keeps request ids unique within a grant.
LEMMA RequestStep ==
    ASSUME Typed, OneJobPerRequest, [Next]_vars
    PROVE  OneJobPerRequest'
<1> SUFFICES ASSUME NEW i \in JobIds, NEW j \in JobIds,
                    jobs'[i].status # "none", jobs'[j].status # "none",
                    jobs'[i].grant = jobs'[j].grant, jobs'[i].request = jobs'[j].request
             PROVE  i = j
  BY DEF OneJobPerRequest
<1>1. JobMoves(i) /\ JobMoves(j)
  BY EveryJobMoves
<1>2. ASSUME NEW k \in JobIds, JobMoves(k), ~Stages(k), jobs'[k].status # "none"
      PROVE  Keeps(k) /\ jobs[k].status # "none"
  BY <1>2 DEF JobMoves, Publishes, Takes, Begins, Ends, Rests, Keeps
<1>3. ASSUME NEW k \in JobIds, NEW l \in JobIds, Stages(k), l # k,
             jobs'[l].status # "none", jobs'[l].grant = jobs'[k].grant,
             jobs'[l].request = jobs'[k].request
      PROVE  FALSE
  BY <1>3 DEF Stages, ByRequest
<1>4. CASE ~Stages(i) /\ ~Stages(j)
  BY <1>1, <1>2, <1>4 DEF OneJobPerRequest, Keeps
<1> QED
  BY <1>3, <1>4

\* A request_id of a grant names one job in any behaviour.
THEOREM RequestsAreIdempotent == Spec => []OneJobPerRequest
<1>1. Init => OneJobPerRequest
  BY DEF Init, OneJobPerRequest
<1> QED
  BY <1>1, RequestStep, InitTyped, NextTyped, PTL DEF Spec

\* Every step keeps deadlines within the grant.
LEMMA WithinStep ==
    ASSUME Typed, Rooted, JobWithinGrant, [Next]_vars
    PROVE  JobWithinGrant'
<1> SUFFICES ASSUME NEW j \in JobIds, jobs'[j].status # "none"
             PROVE  /\ jobs'[j].grant \in GrantIds
                    /\ jobs'[j].expires <= grants'[jobs'[j].grant].expires
  BY DEF JobWithinGrant
<1>1. JobMoves(j)
  BY EveryJobMoves
<1>2. ASSUME NEW g \in GrantIds, grants[g].issued PROVE grants'[g].expires = grants[g].expires
  <2>1. CASE \E h \in GrantIds : RevokeGrant(h)
    BY <1>2, <2>1 DEF RevokeGrant, Typed, TypeOK, GrantRow
  <2> QED
    BY <1>2, <2>1, EveryGrantMoves DEF RevokeAll, Enable, Inserts, Quiet
<1>3. CASE Stages(j)
  BY <1>3 DEF Stages, Quiet, Typed, SubBound
<1>4. CASE Keeps(j) /\ jobs[j].status # "none"
  BY <1>2, <1>4 DEF Keeps, JobWithinGrant, Rooted
<1> QED
  BY <1>1, <1>3, <1>4 DEF JobMoves, Publishes, Takes, Begins, Ends, Rests, Keeps

\* A job's deadline lies within the life of its grant in any behaviour.
THEOREM DeadlinesWithinGrants == Spec => []JobWithinGrant
<1>1. Init => Rooted /\ JobWithinGrant
  BY IdleType DEF Init, Rooted, JobWithinGrant
<1>2. Typed /\ Rooted /\ [Next]_vars => Rooted'
  BY RootedStep
<1>3. Typed /\ Rooted /\ JobWithinGrant /\ [Next]_vars => JobWithinGrant'
  BY WithinStep
<1> QED
  BY <1>1, <1>2, <1>3, InitTyped, NextTyped, PTL DEF Spec

-----------------------------------------------------------------------------
(* One-time claims *)

\* Every step keeps a claim to one grant: only an open claim is redeemed, and the
\* grant takes its scope and its epoch.
LEMMA ClaimStep ==
    ASSUME Typed, ClaimYieldsOneGrant, [Next]_vars
    PROVE  ClaimYieldsOneGrant'
<1>1. grants \in [GrantIds -> GrantRow] /\ claims \in [ClaimIds -> ClaimRow]
  BY DEF Typed, TypeOK
<1>2. \A g \in GrantIds : grants[g].claim # 0 => grants[g].claim \in ClaimIds
  BY <1>1, BoundsAssumption DEF GrantRow, ClaimIds
<1>3. ASSUME NEW c \in ClaimIds, NEW g \in GrantIds, RedeemClaim(c, g)
      PROVE  ClaimYieldsOneGrant'
  <2>1. \A h \in GrantIds : grants[h].claim # c
    BY <1>3, BoundsAssumption DEF RedeemClaim, Redeemable, ClaimYieldsOneGrant, ClaimIds
  <2>2. /\ grants'[g].claim = c /\ grants'[g].epoch = claims[c].epoch /\ grants'[g].scope = claims[c].scope
        /\ \A h \in GrantIds \ {g} : grants'[h] = grants[h]
    BY <1>1, <1>3 DEF RedeemClaim, Redeemable, InsertGrant
  <2>3. /\ claims'[c].status = "used" /\ claims'[c].epoch = claims[c].epoch /\ claims'[c].scope = claims[c].scope
        /\ \A d \in ClaimIds \ {c} : claims'[d] = claims[d]
    BY <1>1, <1>3 DEF RedeemClaim, ClaimRow
  <2> QED
    BY <1>2, <2>1, <2>2, <2>3 DEF ClaimYieldsOneGrant
<1>4. ASSUME NEW g \in GrantIds, NEW s \in GrantScopes, IssueGrant(g, s)
      PROVE  ClaimYieldsOneGrant'
  <2>1. grants'[g].claim = 0 /\ (\A h \in GrantIds \ {g} : grants'[h] = grants[h]) /\ claims' = claims
    BY <1>1, <1>4 DEF IssueGrant, InsertGrant
  <2> QED
    BY <2>1 DEF ClaimYieldsOneGrant
<1>5. ASSUME NEW g \in GrantIds, RevokeGrant(g)
      PROVE  ClaimYieldsOneGrant'
  <2>1. \A h \in GrantIds : /\ grants'[h].claim = grants[h].claim
                            /\ grants'[h].epoch = grants[h].epoch /\ grants'[h].scope = grants[h].scope
    BY <1>1, <1>5 DEF RevokeGrant, GrantRow
  <2>2. claims' = claims
    BY <1>5 DEF RevokeGrant
  <2> QED
    BY <2>1, <2>2 DEF ClaimYieldsOneGrant
<1>6. ASSUME NEW c \in ClaimIds, NEW s \in GrantScopes, IssueClaim(c, s)
      PROVE  ClaimYieldsOneGrant'
  <2>1. claims[c].status = "none" /\ (\A d \in ClaimIds \ {c} : claims'[d] = claims[d]) /\ grants' = grants
    BY <1>1, <1>6 DEF IssueClaim
  <2> QED
    BY <1>2, <2>1 DEF ClaimYieldsOneGrant
<1>7. CASE UNCHANGED <<grants, claims>>
  BY <1>7 DEF ClaimYieldsOneGrant
<1>8. CASE OperatorStep
  BY <1>4, <1>5, <1>6, <1>7, <1>8 DEF OperatorStep, RevokeAll, Enable, Decide
<1>9. CASE AgentStep
  BY <1>3, <1>7, <1>9 DEF AgentStep, SubmitCommand
<1>10. CASE SubmissionStep
  BY <1>7, <1>10 DEF SubmissionStep, LookupRequest, MatchApproval, RequestApproval, Enqueue, Authorize,
                     AbandonSubmission
<1>11. CASE WorkerStep
  BY <1>7, <1>11 DEF WorkerStep, GuardWorkerEnabled, LosePoll, Claim, Start, Complete, RejectClaim
<1>12. CASE Tick \/ UNCHANGED vars
  BY <1>7, <1>12 DEF Tick, vars
<1> QED
  BY <1>8, <1>9, <1>10, <1>11, <1>12 DEF Next

\* A one-time MCP claim yields at most one grant in any behaviour, with the claim's
\* scope and in the epoch it was issued in, whatever is revoked in between.
THEOREM ClaimsAreOneTime == Spec => []ClaimYieldsOneGrant
<1>1. Init => ClaimYieldsOneGrant
  BY DEF Init, ClaimYieldsOneGrant
<1> QED
  BY <1>1, ClaimStep, InitTyped, NextTyped, PTL DEF Spec

-----------------------------------------------------------------------------
(* The audit trail of a job *)

\* The events that are told of jobs.
JobEvents == {"execution.job_authorized", "execution.job_claimed", "execution.job_started",
              "execution.job_completed", "execution.job_rejected", "execution.job_authorization_rejected"}

\* What a step may append about job j, next to what it does to its row.
Tells(j) ==
    /\ audit \subseteq audit'
    /\ jobs'[j].status = "pending" => jobs[j].status = "pending" \/ Authorized(j)'
    /\ jobs'[j].status = "claimed" =>
         \/ jobs[j].status = "claimed"
         \/ jobs[j].status = "pending" /\ <<"execution.job_claimed", j>> \in audit'
    /\ jobs'[j].status = "running" =>
         \/ jobs[j].status = "running"
         \/ jobs[j].status = "claimed" /\ <<"execution.job_started", j>> \in audit'
    /\ jobs'[j].status \in {"succeeded", "failed"} =>
         \/ jobs[j].status = jobs'[j].status
         \/ jobs[j].status = "running" /\ <<"execution.job_completed", j>> \in audit'
    /\ jobs[j].status \in Terminal => jobs'[j].status = jobs[j].status
    /\ <<"execution.job_completed", j>> \in audit' =>
         <<"execution.job_completed", j>> \in audit \/ jobs'[j].status \in {"succeeded", "failed"}
    /\ \A kind \in {"execution.job_rejected", "execution.job_authorization_rejected"} :
         <<kind, j>> \in audit' => <<kind, j>> \in audit \/ jobs'[j].status \in {"canceled", "expired"}

\* Nothing is told of job j.
Silent(j) == audit \subseteq audit' /\ \A kind \in JobEvents : <<kind, j>> \in audit' => <<kind, j>> \in audit

\* A step that tells nothing may stage, cancel or expire a job.
LEMMA SilentTells ==
    ASSUME NEW j \in JobIds, Silent(j),
           \/ jobs'[j].status = jobs[j].status
           \/ jobs[j].status \notin Terminal /\ jobs'[j].status \in {"staged", "canceled", "expired"}
    PROVE  Tells(j)
  BY DEF Silent, Tells, JobEvents, Terminal

\* An event of another kind, or about another job, tells nothing of job j.
LEMMA OthersAreSilent ==
    ASSUME NEW j \in JobIds, NEW kind, NEW row, kind \notin JobEvents \/ row # j,
           audit' = audit \cup {<<kind, row>>}
    PROVE  Silent(j)
  BY DEF Silent, JobEvents

\* What a submission step tells of job j.
LEMMA SubmissionTells ==
    ASSUME Typed, SubmissionStep, NEW j \in JobIds
    PROVE  Tells(j)
<1>1. jobs \in [JobIds -> JobRow] /\ jobs[j] \in JobRow
  BY DEF Typed, TypeOK
<1>2. CASE LookupRequest \/ MatchApproval \/ RequestApproval \/ AbandonSubmission
  <2>1. jobs' = jobs
    BY <1>2, Zenon DEF LookupRequest, MatchApproval, RequestApproval, AbandonSubmission
  <2>2. \/ audit' = audit
        \/ \E kind \in {"command.submission_denied", "approval.requested"} : \E row :
              audit' = audit \cup {<<kind, row>>}
    BY <1>2, Zenon DEF LookupRequest, MatchApproval, RequestApproval, AbandonSubmission
  <2>3. Silent(j)
    BY <2>2, OthersAreSilent DEF Silent, JobEvents
  <2> QED
    BY <2>1, <2>3, SilentTells
<1>3. CASE Enqueue
  <2>1. audit' = audit
    BY <1>3 DEF Enqueue
  <2>2. jobs' = jobs \/ \E k \in JobIds, ttl \in JobTTLs : StageJob(k, ttl)
    BY <1>3 DEF Enqueue
  <2>3. \/ jobs'[j].status = jobs[j].status
        \/ jobs[j].status \notin Terminal /\ jobs'[j].status = "staged"
    <3>1. ASSUME NEW k \in JobIds, NEW ttl \in JobTTLs, StageJob(k, ttl)
          PROVE  \/ jobs'[j].status = jobs[j].status
                 \/ jobs[j].status \notin Terminal /\ jobs'[j].status = "staged"
      <4>1. CASE j = k
        BY <1>1, <3>1, <4>1 DEF StageJob, Terminal
      <4>2. CASE j # k
        BY <1>1, <3>1, <4>2 DEF StageJob
      <4> QED
        BY <4>1, <4>2
    <3> QED
      BY <2>2, <3>1
  <2> QED
    BY <2>1, <2>3, SilentTells DEF Silent
<1>4. CASE Authorize
  <2> DEFINE k == sub.job
  <2>1. k \in JobIds /\ jobs[k] \in JobRow
    BY <1>1, <1>4 DEF Authorize, Typed, SubBound
  <2>2. CASE UNCHANGED <<jobs, audit>>
    BY <2>2, SilentTells DEF Silent
  <2>3. CASE /\ jobs[k].status = "staged" /\ jobs' = [jobs EXCEPT ![k].status = "pending"]
             /\ audit' = audit \cup {<<"execution.job_authorized", k>>}
    <3>1. j # k => jobs'[j] = jobs[j]
      BY <1>1, <2>3
    <3>2. CASE j # k
      BY <2>3, <3>1, <3>2, OthersAreSilent, SilentTells
    <3>3. CASE j = k
      <4>1. jobs'[j].status = "pending"
        BY <1>1, <2>3, <3>3 DEF JobRow
      <4> QED
        BY <2>3, <3>3, <4>1 DEF Tells, Authorized, Terminal
    <3> QED
      BY <3>2, <3>3
  <2>4. CASE /\ jobs[k].status = "staged"
             /\ \E s \in {"expired", "canceled"} : jobs' = [jobs EXCEPT ![k] = Ended(jobs[k], s)]
             /\ audit' = audit \cup {<<"execution.job_authorization_rejected", k>>}
    <3>1. j # k => jobs'[j] = jobs[j]
      BY <1>1, <2>4
    <3>2. CASE j # k
      BY <2>4, <3>1, <3>2, OthersAreSilent, SilentTells
    <3>3. CASE j = k
      <4>1. jobs'[j].status \in {"expired", "canceled"}
        BY <1>1, <2>4, <3>3 DEF JobRow, Ended
      <4> QED
        BY <2>4, <3>3, <4>1 DEF Tells, Terminal
    <3> QED
      BY <3>2, <3>3
  <2> QED
    BY <1>4, <2>2, <2>3, <2>4 DEF Authorize
<1> QED
  BY <1>2, <1>3, <1>4 DEF SubmissionStep

\* What a worker's step tells of job j.
LEMMA WorkerTells ==
    ASSUME Typed, WorkerStep, NEW j \in JobIds
    PROVE  Tells(j)
<1>1. jobs \in [JobIds -> JobRow] /\ jobs[j] \in JobRow
  BY DEF Typed, TypeOK
<1>2. PICK w \in Workers :
          \/ GuardWorkerEnabled(w) \/ LosePoll(w) \/ Claim(w)
          \/ \E k \in JobIds : \/ Start(w, k)
                               \/ \E success \in BOOLEAN : Complete(w, k, success)
                               \/ RejectClaim(w, k)
  BY DEF WorkerStep
<1>3. CASE GuardWorkerEnabled(w) \/ LosePoll(w)
  BY <1>3, SilentTells DEF GuardWorkerEnabled, LosePoll, Silent
<1>4. CASE Claim(w)
  <2>1. ASSUME jobs'[j] = Swept(j)
        PROVE  \/ jobs'[j].status = jobs[j].status
               \/ jobs[j].status \notin Terminal /\ jobs'[j].status = "expired"
    BY <1>1, <2>1 DEF Swept, Ended, Sweepable, Terminal, JobRow
  <2>2. CASE jobs' = [i \in JobIds |-> Swept(i)] /\ audit' = audit
    BY <2>1, <2>2, SilentTells DEF Silent
  <2>3. ASSUME NEW k \in Claimable,
               jobs' = [i \in JobIds |-> IF i = k THEN [jobs[k] EXCEPT !.status = "claimed", !.claim = w]
                                         ELSE Swept(i)],
               audit' = audit \cup {<<"execution.job_claimed", k>>}
        PROVE  Tells(j)
    <3>1. CASE j # k
      BY <2>1, <2>3, <3>1, OthersAreSilent, SilentTells
    <3>2. CASE j = k
      <4>1. jobs[j].status = "pending" /\ jobs'[j].status = "claimed"
        BY <1>1, <2>3, <3>2 DEF Claimable, JobRow
      <4> QED
        BY <2>3, <3>2, <4>1 DEF Tells, Terminal
    <3> QED
      BY <3>1, <3>2
  <2> QED
    BY <1>4, <2>2, <2>3 DEF Claim
<1>5. ASSUME NEW k \in JobIds, NEW row, NEW kind, jobs' = [jobs EXCEPT ![k] = row],
             audit' = audit \/ audit' = audit \cup {<<kind, k>>}, j # k
      PROVE  Tells(j)
  <2>1. Silent(j)
    BY <1>5, OthersAreSilent DEF Silent
  <2> QED
    BY <1>1, <1>5, <2>1, SilentTells
<1>6. ASSUME NEW k \in JobIds, NEW s \in JobStatus,
             \/ jobs' = [jobs EXCEPT ![k] = Ended(jobs[k], s)]
             \/ jobs' = [jobs EXCEPT ![k] = [jobs[k] EXCEPT !.status = s]]
      PROVE  jobs'[k].status = s
  <2>1. jobs[k] \in JobRow
    BY <1>1
  <2>2. jobs'[k] = Ended(jobs[k], s) \/ jobs'[k] = [jobs[k] EXCEPT !.status = s]
    BY <1>1, <1>6
  <2> QED
    BY <2>1, <2>2 DEF Ended, JobRow
<1>7. ASSUME NEW k \in JobIds, Start(w, k)
      PROVE  Tells(j)
  <2>1. jobs[k] \in JobRow /\ jobs[k].status = "claimed"
    BY <1>1, <1>7 DEF Start
  <2>2. \/ /\ \E s \in {"canceled", "expired"} : jobs' = [jobs EXCEPT ![k] = Ended(jobs[k], s)]
           /\ audit' = audit \cup {<<"execution.job_rejected", k>>}
        \/ /\ jobs' = [jobs EXCEPT ![k] = [jobs[k] EXCEPT !.status = "running"]]
           /\ audit' = audit \cup {<<"execution.job_started", k>>}
    BY <1>7 DEF Start
  <2>3. CASE j # k
    BY <1>5, <2>2, <2>3
  <2>4. CASE j = k
    <3>1. \/ jobs'[j].status \in {"canceled", "expired"} /\ audit' = audit \cup {<<"execution.job_rejected", j>>}
          \/ jobs'[j].status = "running" /\ audit' = audit \cup {<<"execution.job_started", j>>}
      BY <1>6, <2>2, <2>4 DEF JobStatus
    <3> QED
      BY <2>1, <2>4, <3>1 DEF Tells, Terminal
  <2> QED
    BY <2>3, <2>4
<1>8. ASSUME NEW k \in JobIds, NEW success \in BOOLEAN, Complete(w, k, success)
      PROVE  Tells(j)
  <2>1. jobs[k] \in JobRow /\ jobs[k].status = "running"
    BY <1>1, <1>8 DEF Complete
  <2>2. PICK s \in {"succeeded", "failed"} : jobs' = [jobs EXCEPT ![k] = Ended(jobs[k], s)]
    BY <1>8 DEF Complete
  <2>3. audit' = audit \cup {<<"execution.job_completed", k>>}
    BY <1>8 DEF Complete
  <2>4. CASE j # k
    BY <1>5, <2>2, <2>3, <2>4
  <2>5. CASE j = k
    <3>1. jobs'[j].status = s
      BY <1>6, <2>2, <2>5 DEF JobStatus
    <3> QED
      BY <2>1, <2>3, <2>5, <3>1 DEF Tells, Terminal
  <2> QED
    BY <2>4, <2>5
<1>9. ASSUME NEW k \in JobIds, RejectClaim(w, k)
      PROVE  Tells(j)
  <2>1. jobs[k] \in JobRow /\ jobs[k].status \in Held
    BY <1>1, <1>9 DEF RejectClaim
  <2>2. jobs' = [jobs EXCEPT ![k] = Ended(jobs[k], "canceled")]
    BY <1>9 DEF RejectClaim
  <2>3. audit' = audit \/ audit' = audit \cup {<<"ssh.certificate_rejected", k>>}
    BY <1>9 DEF RejectClaim
  <2>4. CASE j # k
    BY <1>5, <2>2, <2>3, <2>4
  <2>5. CASE j = k
    <3>1. jobs'[j].status = "canceled"
      BY <1>6, <2>2, <2>5 DEF JobStatus
    <3>2. Silent(j)
      BY <2>3, OthersAreSilent DEF Silent, JobEvents
    <3> QED
      BY <2>1, <2>5, <3>1, <3>2, SilentTells DEF Held, Terminal
  <2> QED
    BY <2>4, <2>5
<1> QED
  BY <1>2, <1>3, <1>4, <1>7, <1>8, <1>9

\* What any step tells of job j.
LEMMA EveryStepTells ==
    ASSUME Typed, [Next]_vars, NEW j \in JobIds
    PROVE  Tells(j)
<1>1. jobs \in [JobIds -> JobRow] /\ jobs[j] \in JobRow
  BY DEF Typed, TypeOK
<1>2. ASSUME NEW selected, CancelNotRunning(selected)
      PROVE  \/ jobs'[j].status = jobs[j].status
             \/ jobs[j].status \notin Terminal /\ jobs'[j].status = "canceled"
  BY <1>1, <1>2 DEF CancelNotRunning, NotRunning, Ended, Terminal, JobRow
<1>3. CASE OperatorStep
  <2>1. CASE RevokeAll
    <3>1. Silent(j)
      BY <2>1, OthersAreSilent DEF RevokeAll, JobEvents
    <3> QED
      BY <1>2, <2>1, <3>1, SilentTells DEF RevokeAll
  <2>2. CASE Enable
    <3>1. Silent(j) /\ jobs' = jobs
      BY <2>2 DEF Enable, Silent, JobEvents
    <3> QED
      BY <3>1, SilentTells
  <2>3. ASSUME NEW g \in GrantIds, RevokeGrant(g)
        PROVE  Tells(j)
    <3>1. Silent(j)
      BY <2>3, OthersAreSilent DEF RevokeGrant, JobEvents
    <3> QED
      BY <1>2, <2>3, <3>1, SilentTells DEF RevokeGrant
  <2>4. CASE /\ jobs' = jobs
             /\ \E kind \in {"grant.issued", "mcp.claim.issued", "approval.decided"} : \E row :
                   audit' = audit \cup {<<kind, row>>}
    <3>1. Silent(j)
      BY <2>4, OthersAreSilent DEF JobEvents
    <3> QED
      BY <2>4, <3>1, SilentTells
  <2>5. \/ RevokeAll \/ Enable \/ \E g \in GrantIds : RevokeGrant(g)
        \/ /\ jobs' = jobs
           /\ \E kind \in {"grant.issued", "mcp.claim.issued", "approval.decided"} : \E row :
                 audit' = audit \cup {<<kind, row>>}
    BY <1>3, Zenon DEF OperatorStep, IssueGrant, IssueClaim, Decide
  <2> QED
    BY <2>1, <2>2, <2>3, <2>4, <2>5
<1>4. CASE AgentStep
  <2>1. jobs' = jobs /\ Silent(j)
    BY <1>4 DEF AgentStep, RedeemClaim, SubmitCommand, Silent, JobEvents
  <2> QED
    BY <2>1, SilentTells
<1>5. CASE Tick \/ UNCHANGED vars
  BY <1>5, SilentTells DEF Tick, vars, Silent
<1> QED
  BY <1>3, <1>4, <1>5, SubmissionTells, WorkerTells DEF Next

\* A job whose rejection is on record has ended without running to a result.
RejectedEnded ==
    \A j \in JobIds, kind \in {"execution.job_rejected", "execution.job_authorization_rejected"} :
        <<kind, j>> \in audit => jobs[j].status \in {"canceled", "expired"}

\* Every step keeps the audit trail and the table together.
LEMMA AuditStep ==
    ASSUME Typed, AuditMatchesJobs, RejectedEnded, [Next]_vars
    PROVE  AuditMatchesJobs' /\ RejectedEnded'
<1> SUFFICES ASSUME NEW j \in JobIds
             PROVE  /\ jobs'[j].status \in {"pending", "claimed", "running", "succeeded", "failed"}
                         => Authorized(j)'
                    /\ jobs'[j].status \in {"claimed", "running", "succeeded", "failed"}
                         => <<"execution.job_claimed", j>> \in audit'
                    /\ jobs'[j].status \in {"running", "succeeded", "failed"}
                         => <<"execution.job_started", j>> \in audit'
                    /\ <<"execution.job_completed", j>> \in audit' <=> jobs'[j].status \in {"succeeded", "failed"}
                    /\ \A kind \in {"execution.job_rejected", "execution.job_authorization_rejected"} :
                         <<kind, j>> \in audit' => jobs'[j].status \in {"canceled", "expired"}
  BY DEF AuditMatchesJobs, RejectedEnded, Authorized
<1>1. Tells(j)
  BY EveryStepTells
<1>2. \A kind \in {"execution.job_rejected", "execution.job_authorization_rejected"} :
         <<kind, j>> \in audit' => jobs'[j].status \in {"canceled", "expired"}
  BY <1>1 DEF Tells, RejectedEnded, Terminal
<1>3. /\ jobs'[j].status \in {"pending", "claimed", "running", "succeeded", "failed"} => Authorized(j)'
      /\ jobs'[j].status \in {"claimed", "running", "succeeded", "failed"}
           => <<"execution.job_claimed", j>> \in audit'
      /\ jobs'[j].status \in {"running", "succeeded", "failed"} => <<"execution.job_started", j>> \in audit'
  BY <1>1 DEF Tells, AuditMatchesJobs, Authorized
<1>4. <<"execution.job_completed", j>> \in audit' <=> jobs'[j].status \in {"succeeded", "failed"}
  BY <1>1 DEF Tells, AuditMatchesJobs, Terminal
<1> QED
  BY <1>2, <1>3, <1>4

\* The audit trail and the job table tell one story in any behaviour: nothing runs
\* that was not authorized, claimed and started on record, and a completion is on
\* record exactly for the rows with a result, none of which was also rejected.
THEOREM AuditTellsTheJobs == Spec => []AuditMatchesJobs
<1>1. Init => AuditMatchesJobs /\ RejectedEnded
  BY DEF Init, AuditMatchesJobs, RejectedEnded, Authorized
<1>2. Typed /\ AuditMatchesJobs /\ RejectedEnded /\ [Next]_vars => AuditMatchesJobs' /\ RejectedEnded'
  BY AuditStep
<1> QED
  BY <1>1, <1>2, InitTyped, NextTyped, PTL DEF Spec

=============================================================================

----------------------------- MODULE FileProofs -----------------------------
(***************************************************************************)
(* Proofs about FileStores for every value of its constants: the types,    *)
(* what a restart loses, epochs, outputs, the audit log, allow_once and    *)
(* revocation.                                                             *)
(***************************************************************************)
EXTENDS FileStores, TLAPS

-----------------------------------------------------------------------------
(* The typing invariant: TypeOK, and that the handler names rows that exist. *)

OnGrant == {"lookup", "match", "request", "enqueue", "unqueue", "revoked"}
OnCommand == {"lookup", "match", "request", "enqueue"}
OnJob   == {"authenticate", "approve", "authorize", "consume", "publish", "cancel",
            "claimed", "reject", "start", "started", "rejected"}

HandlerBound ==
    /\ op.pc \in OnGrant => op.grant \in GrantIds
    /\ op.pc \in OnCommand => op.request \in Requests /\ op.command \in Commands
    /\ op.pc \in OnJob => op.job \in JobIds

Typed == TypeOK /\ HandlerBound

\* Writing one store changes its map and its file, or neither.
LEMMA SavedJobs ==
    ASSUME Typed, NEW value, NEW ok \in BOOLEAN, SaveJobs(value, ok)
    PROVE  /\ value \in [JobIds -> JobRow] => mem' \in Stores /\ disk' \in Stores
           /\ faults' \in 0..MaxFaults
           /\ mem'.jobs = (IF ok THEN value ELSE mem.jobs)
           /\ disk'.jobs = (IF ok THEN value ELSE disk.jobs)
           /\ mem'.authority = mem.authority /\ disk'.authority = disk.authority
           /\ mem'.grants = mem.grants /\ disk'.grants = disk.grants
           /\ mem'.approvals = mem.approvals /\ disk'.approvals = disk.approvals
           /\ mem'.outputs = mem.outputs /\ disk'.outputs = disk.outputs
  BY FileBounds DEF SaveJobs, Try, Persist, Stores, Typed, TypeOK

\* A write of the approvals takes effect, in memory and on disk, or not at all.
LEMMA SavedApprovals ==
    ASSUME Typed, NEW value, NEW ok \in BOOLEAN,
           SaveApprovals(value, ok)
    PROVE  /\ value \in [ApprovalIds -> ApprovalRow] => mem' \in Stores /\ disk' \in Stores
           /\ faults' \in 0..MaxFaults
           /\ mem'.approvals = (IF ok THEN value ELSE mem.approvals)
           /\ disk'.approvals = (IF ok THEN value ELSE disk.approvals)
           /\ mem'.authority = mem.authority /\ disk'.authority = disk.authority
           /\ mem'.grants = mem.grants /\ disk'.grants = disk.grants
           /\ mem'.jobs = mem.jobs /\ disk'.jobs = disk.jobs
           /\ mem'.outputs = mem.outputs /\ disk'.outputs = disk.outputs
  BY FileBounds DEF SaveApprovals, Try, Persist, Stores, Typed, TypeOK

\* So does a write of the grants.
LEMMA SavedGrants ==
    ASSUME Typed, NEW value, NEW ok \in BOOLEAN, SaveGrants(value, ok)
    PROVE  /\ value \in [GrantIds -> GrantRow] => mem' \in Stores /\ disk' \in Stores
           /\ faults' \in 0..MaxFaults
           /\ mem'.grants = (IF ok THEN value ELSE mem.grants)
           /\ disk'.grants = (IF ok THEN value ELSE disk.grants)
           /\ mem'.authority = mem.authority /\ disk'.authority = disk.authority
           /\ mem'.approvals = mem.approvals /\ disk'.approvals = disk.approvals
           /\ mem'.jobs = mem.jobs /\ disk'.jobs = disk.jobs
           /\ mem'.outputs = mem.outputs /\ disk'.outputs = disk.outputs
  BY FileBounds DEF SaveGrants, Try, Persist, Stores, Typed, TypeOK

\* So does a write of the outputs.
LEMMA SavedOutputs ==
    ASSUME Typed, NEW value, NEW ok \in BOOLEAN, SaveOutputs(value, ok)
    PROVE  /\ value \in SUBSET JobIds => mem' \in Stores /\ disk' \in Stores
           /\ faults' \in 0..MaxFaults
           /\ mem'.outputs = (IF ok THEN value ELSE mem.outputs)
           /\ disk'.outputs = (IF ok THEN value ELSE disk.outputs)
           /\ mem'.authority = mem.authority /\ disk'.authority = disk.authority
           /\ mem'.grants = mem.grants /\ disk'.grants = disk.grants
           /\ mem'.approvals = mem.approvals /\ disk'.approvals = disk.approvals
           /\ mem'.jobs = mem.jobs /\ disk'.jobs = disk.jobs
  BY FileBounds DEF SaveOutputs, Try, Persist, Stores, Typed, TypeOK

\* The emergency state: only the kill switch stays in memory when its file fails.
LEMMA SavedAuthority ==
    ASSUME Typed, NEW value \in AuthorityRow, NEW ok \in BOOLEAN,
           SaveSwitch(value, ok) \/ SaveEnable(value, ok)
    PROVE  /\ mem' \in Stores /\ disk' \in Stores /\ faults' \in 0..MaxFaults
           /\ disk'.authority = (IF ok THEN value ELSE disk.authority)
           /\ ok \/ SaveSwitch(value, ok) => mem'.authority = value
           /\ ~ok /\ SaveEnable(value, ok) => mem'.authority = mem.authority
           /\ mem'.grants = mem.grants /\ disk'.grants = disk.grants
           /\ mem'.approvals = mem.approvals /\ disk'.approvals = disk.approvals
           /\ mem'.jobs = mem.jobs /\ disk'.jobs = disk.jobs
           /\ mem'.outputs = mem.outputs /\ disk'.outputs = disk.outputs
  BY FileBounds DEF SaveSwitch, SaveEnable, Try, Persist, Stores, Typed, TypeOK

\* The log only grows, and by the event that was appended.
LEMMA Appended ==
    ASSUME Typed, NEW kind, NEW row \in Nat, NEW ok \in BOOLEAN, Append(kind, row, ok)
    PROVE  /\ faults' \in 0..MaxFaults
           /\ audit' \subseteq Remembered \X Nat /\ audit \subseteq audit'
           /\ ok /\ kind \in Remembered => <<kind, row>> \in audit'
           /\ \A e \in audit' : e \in audit \/ e = <<kind, row>>
  BY FileBounds DEF Append, Try, Typed, TypeOK

\* The job table after a change of some statuses.
LEMMA StatusTable ==
    ASSUME NEW jobs \in [JobIds -> JobRow], NEW selected, NEW status \in JobStatus
    PROVE  /\ WithStatus(jobs, selected, status) \in [JobIds -> JobRow]
           /\ \A j \in JobIds :
                /\ WithStatus(jobs, selected, status)[j].status =
                     (IF j \in selected THEN status ELSE jobs[j].status)
                /\ WithStatus(jobs, selected, status)[j].grant = jobs[j].grant
                /\ WithStatus(jobs, selected, status)[j].request = jobs[j].request
                /\ WithStatus(jobs, selected, status)[j].command = jobs[j].command
                /\ WithStatus(jobs, selected, status)[j].approval = jobs[j].approval
                /\ WithStatus(jobs, selected, status)[j].output = jobs[j].output
                /\ j \notin selected => WithStatus(jobs, selected, status)[j] = jobs[j]
  BY DEF WithStatus, JobRow

\* No file exists yet.
LEMMA InitTyped == Init => Typed
<1> SUFFICES ASSUME Init PROVE Typed
  OBVIOUS
<1>1. Empty \in Stores
  BY FileBounds DEF Empty, Stores, AuthorityRow, GrantRow, ApprovalRow, JobRow, JobStatus, Epochs
<1>2. Idle \in Handler /\ Resting \in Admin /\ NoReport \in Report
  BY FileBounds DEF Idle, Handler, OpPC, Resting, Admin, AdminPC, NoReport, Report, Epochs
<1>3. mem \in Stores /\ disk \in Stores /\ op \in Handler /\ adm \in [Operators -> Admin]
  BY <1>1, <1>2 DEF Init
<1>4. report \in [JobIds -> Report] /\ faults \in 0..MaxFaults
  BY <1>2, FileBounds DEF Init
<1>8. poll \in BOOLEAN
  BY DEF Init
<1>5. /\ holds \subseteq JobIds /\ told \subseteq JobIds /\ published \subseteq JobIds
      /\ audit \subseteq Remembered \X Nat /\ dead \subseteq GrantIds
  BY DEF Init
<1>6. past \in [grants : SUBSET GrantIds, jobs : SUBSET JobIds]
  BY DEF Init
<1>7. HandlerBound
  BY DEF Init, HandlerBound, Idle, OnGrant, OnCommand, OnJob
<1> QED
  BY <1>3, <1>4, <1>5, <1>6, <1>7, <1>8 DEF Typed, TypeOK

-----------------------------------------------------------------------------
(* Each kind of step preserves the typing invariant. *)

\* The steps of a handler go to another of its places.
LEMMA HandlerMoves ==
    ASSUME Typed, NEW pc \in OpPC
    PROVE  /\ Idle \in Handler /\ Idle.pc = "idle"
           /\ [op EXCEPT !.pc = pc] \in Handler
           /\ [op EXCEPT !.pc = pc].pc = pc
           /\ [op EXCEPT !.pc = pc].grant = op.grant /\ [op EXCEPT !.pc = pc].job = op.job
           /\ [op EXCEPT !.pc = pc].request = op.request
           /\ [op EXCEPT !.pc = pc].command = op.command
           /\ [op EXCEPT !.pc = pc].approval = op.approval
           /\ [op EXCEPT !.pc = pc].failed = op.failed
  BY FileBounds DEF Typed, TypeOK, Idle, Handler, OpPC

\* A handler that goes on keeps what it has read.
LEMMA Goes ==
    ASSUME Typed, NEW pc \in OpPC, Goto(pc),
           pc \in OnGrant => op.pc \in OnGrant,
           pc \in OnCommand => op.pc \in OnCommand,
           pc \in OnJob => op.pc \in OnJob
    PROVE  /\ op' \in Handler /\ HandlerBound' /\ op'.pc = pc
           /\ op'.grant = op.grant /\ op'.job = op.job /\ op'.request = op.request
           /\ op'.command = op.command /\ op'.approval = op.approval
           /\ op'.failed = op.failed
  BY HandlerMoves DEF Goto, HandlerBound, Typed

\* A handler that ends has released executionMu.
LEMMA Ends ==
    ASSUME Typed, Finish
    PROVE  op' = Idle /\ op' \in Handler /\ HandlerBound' /\ op'.pc = "idle"
  BY FileBounds DEF Finish, Idle, Handler, OpPC, HandlerBound, OnGrant, OnCommand, OnJob

\* What a handler holds once it has found its job or its approval, and when it
\* has just taken executionMu for a job.
Taken(pc, j)     == [op EXCEPT !.pc = pc, !.job = j]
Matched(pc, a)   == [op EXCEPT !.pc = pc, !.approval = a]
Claiming(j)      == [Idle EXCEPT !.pc = "claimed", !.job = j]
Starting(pc, j, f) == [Idle EXCEPT !.job = j, !.pc = pc, !.failed = f]
Submitting(g, r, c) == [Idle EXCEPT !.pc = "lookup", !.grant = g, !.request = r, !.command = c]
Revoking(g)      == [Idle EXCEPT !.pc = "unqueue", !.grant = g]

\* A handler that has found its job or its approval.
LEMMA Takes ==
    ASSUME Typed, NEW pc \in OpPC \ (OnGrant \cup OnCommand),
           NEW j \in JobIds, op' = Taken(pc, j)
    PROVE  /\ op' \in Handler /\ HandlerBound' /\ op'.pc = pc /\ op'.job = j
           /\ op'.grant = op.grant /\ op'.approval = op.approval /\ op'.failed = op.failed
<1>1. j \in 0..MaxJobs
  BY FileBounds DEF JobIds
<1>2. op' \in Handler /\ op'.pc = pc /\ op'.job = j
  BY <1>1 DEF Typed, TypeOK, Handler, Taken
<1>3. HandlerBound'
  BY <1>2 DEF HandlerBound
<1> QED
  BY <1>2, <1>3 DEF Typed, TypeOK, Handler, Taken

\* A handler that goes on with an approval it found or asked for.
LEMMA Matches ==
    ASSUME Typed, NEW pc \in OpPC \ OnJob, NEW a \in ApprovalIds,
           pc \in OnGrant => op.pc \in OnGrant,
           pc \in OnCommand => op.pc \in OnCommand,
           op' = Matched(pc, a)
    PROVE  /\ op' \in Handler /\ HandlerBound' /\ op'.pc = pc /\ op'.approval = a
           /\ op'.grant = op.grant /\ op'.request = op.request /\ op'.command = op.command
           /\ op'.failed = op.failed
<1>1. a \in 0..MaxApprovals
  BY FileBounds DEF ApprovalIds
<1>2. op' \in Handler /\ op'.pc = pc /\ op'.approval = a
  BY <1>1 DEF Typed, TypeOK, Handler, Matched
<1>3. op'.grant = op.grant /\ op'.request = op.request /\ op'.command = op.command /\ op'.failed = op.failed
  BY DEF Typed, TypeOK, Handler, Matched
<1>4. HandlerBound'
  BY <1>2, <1>3 DEF HandlerBound, Typed
<1> QED
  BY <1>2, <1>3, <1>4

\* A handler that has just taken executionMu for a job or for a grant.
LEMMA Begins ==
    ASSUME Typed, NEW pc \in OpPC,
           NEW j \in JobIds, NEW f \in BOOLEAN, pc \notin OnGrant \cup OnCommand,
           \/ op' = Claiming(j) /\ pc = "claimed" /\ f = FALSE
           \/ op' = Starting(pc, j, f)
    PROVE  op' \in Handler /\ HandlerBound' /\ op'.pc = pc /\ op'.job = j /\ op'.failed = f
<1>1. j \in 0..MaxJobs /\ 0 \in 0..MaxGrants /\ 0 \in 0..MaxApprovals
  BY FileBounds DEF JobIds
<1>2. op' \in Handler /\ op'.pc = pc /\ op'.job = j /\ op'.failed = f
  BY <1>1 DEF Idle, Handler, Claiming, Starting
<1>3. HandlerBound'
  BY <1>2 DEF HandlerBound
<1> QED
  BY <1>2, <1>3

\* A handler that has just taken executionMu to revoke a grant.
LEMMA BeginsGrant ==
    ASSUME Typed, NEW g \in GrantIds, op' = Revoking(g)
    PROVE  op' \in Handler /\ HandlerBound' /\ op'.pc = "unqueue" /\ op'.grant = g /\ op'.failed = FALSE
<1>1. g \in 0..MaxGrants /\ 0 \in 0..MaxJobs /\ 0 \in 0..MaxApprovals
  BY FileBounds DEF GrantIds
<1>2. op' \in Handler /\ op'.pc = "unqueue" /\ op'.grant = g /\ op'.failed = FALSE
  BY <1>1 DEF Idle, Handler, OpPC, Revoking
<1>3. HandlerBound'
  BY <1>2 DEF HandlerBound, OnGrant, OnCommand, OnJob
<1> QED
  BY <1>2, <1>3

\* An operator's step keeps the state well typed.
LEMMA OperatorTyped ==
    ASSUME Typed, NEW o \in Operators, NEW ok \in BOOLEAN, OperatorStep(o, ok)
    PROVE  Typed'
<1> USE DEF AdminFrame
<1>a. adm \in [Operators -> Admin] /\ adm[o] \in Admin /\ Resting \in Admin
  BY FileBounds DEF Typed, TypeOK, Resting, Admin, AdminPC, Epochs
<1>b. mem \in Stores /\ disk \in Stores /\ mem.authority \in AuthorityRow
  BY DEF Typed, TypeOK, Stores
<1>1. CASE ThrowSwitch(o, ok)
  <2>1. Killed \in AuthorityRow
    BY <1>b, FileBounds DEF Killed, Exhausted, AuthorityRow, Epochs
  <2>2. adm' \in [Operators -> Admin]
    BY <1>1, <1>a, <2>1 DEF ThrowSwitch, Admin, AdminPC, AuthorityRow, Exhausted
  <2> QED
    BY <1>1, <2>1, <2>2, SavedAuthority DEF ThrowSwitch, Typed, TypeOK, HandlerBound
<1>2. CASE CancelNotRunningAll(o, ok)
  <2>1. WithStatus(mem.jobs, JobsIn(NotRunning), "canceled") \in [JobIds -> JobRow]
    BY <1>b, StatusTable DEF Stores, JobStatus
  <2>2. adm' \in [Operators -> Admin]
    BY <1>2, <1>a DEF CancelNotRunningAll, Admin, AdminPC
  <2> QED
    BY <1>2, <2>1, <2>2, SavedJobs DEF CancelNotRunningAll, Typed, TypeOK, HandlerBound
<1>3. CASE RevokeAllAnswers(o, ok)
  <2>1. adm[o].epoch \in Nat
    BY <1>a, FileBounds DEF Admin, Epochs
  <2>2. adm' \in [Operators -> Admin]
    BY <1>3, <1>a DEF RevokeAllAnswers, Done
  <2>3. faults' \in 0..MaxFaults /\ audit' \subseteq Remembered \X Nat
    BY <1>3, <2>1, Appended DEF RevokeAllAnswers
  <2> QED
    BY <1>3, <2>2, <2>3 DEF RevokeAllAnswers, Typed, TypeOK, HandlerBound
<1>4. CASE RequestEnable(o, ok)
  <2>1. mem.authority.epoch \in Nat /\ mem.authority.epoch \in Epochs
    BY <1>b, FileBounds DEF AuthorityRow, Epochs
  <2>2. adm' \in [Operators -> Admin]
    BY <1>4, <1>a, <2>1 DEF RequestEnable, Admin, AdminPC
  <2>3. faults' \in 0..MaxFaults /\ audit' \subseteq Remembered \X Nat
    BY <1>4, <2>1, Appended DEF RequestEnable
  <2> QED
    BY <1>4, <2>2, <2>3 DEF RequestEnable, Typed, TypeOK, HandlerBound
<1>5. CASE Enable(o, ok)
  <2>1. [mem.authority EXCEPT !.disabled = FALSE] \in AuthorityRow
    BY <1>b DEF AuthorityRow
  <2>2. adm' \in [Operators -> Admin]
    BY <1>5, <1>a, <1>b DEF Enable, Done, Admin, AdminPC, AuthorityRow
  <2> QED
    BY <1>5, <2>1, <2>2, SavedAuthority DEF Enable, Typed, TypeOK, HandlerBound
<1>6. CASE EnableAnswers(o, ok)
  <2>1. adm[o].epoch \in Nat
    BY <1>a, FileBounds DEF Admin, Epochs
  <2>2. adm' \in [Operators -> Admin]
    BY <1>6, <1>a DEF EnableAnswers, Done, Step, Admin, AdminPC
  <2>3. faults' \in 0..MaxFaults /\ audit' \subseteq Remembered \X Nat
    BY <1>6, <2>1, Appended DEF EnableAnswers
  <2> QED
    BY <1>6, <2>2, <2>3 DEF EnableAnswers, Typed, TypeOK, HandlerBound
<1>7. ASSUME NEW g \in GrantIds, CreateGrant(o, g, ok) PROVE Typed'
  <2>1. [mem.grants EXCEPT ![g] = [issued |-> TRUE, epoch |-> adm[o].epoch, revoked |-> FALSE]]
          \in [GrantIds -> GrantRow]
    BY <1>a, <1>b DEF Stores, GrantRow, Admin
  <2>2. adm' \in [Operators -> Admin]
    BY <1>7, <1>a DEF CreateGrant, Done, Admin, AdminPC, GrantIds
  <2>3. mem' \in Stores /\ disk' \in Stores /\ faults' \in 0..MaxFaults
    BY <1>7, <2>1, SavedGrants, Zenon DEF CreateGrant
  <2> QED
    BY <1>7, <2>2, <2>3 DEF CreateGrant, AdminFrame, Typed, TypeOK, HandlerBound
<1>8. CASE IssueAnswers(o, ok)
  <2>1. adm[o].row \in Nat
    BY <1>a DEF Admin
  <2>2. adm' \in [Operators -> Admin]
    BY <1>8, <1>a DEF IssueAnswers, Done, Step, Admin, AdminPC
  <2>3. faults' \in 0..MaxFaults /\ audit' \subseteq Remembered \X Nat
    BY <1>8, <2>1, Appended DEF IssueAnswers
  <2> QED
    BY <1>8, <2>2, <2>3 DEF IssueAnswers, Typed, TypeOK, HandlerBound
<1>9. CASE UndoIssue(o, ok)
  <2>1. [mem.grants EXCEPT ![adm[o].row].revoked = TRUE] \in [GrantIds -> GrantRow]
    BY <1>b DEF Stores, GrantRow
  <2>2. adm' \in [Operators -> Admin]
    BY <1>9, <1>a DEF UndoIssue, Done
  <2> QED
    BY <1>9, <2>1, <2>2, SavedGrants DEF UndoIssue, Typed, TypeOK, HandlerBound
<1>10. ASSUME NEW a \in ApprovalIds, NEW d \in Decisions, Decide(o, a, d, ok) PROVE Typed'
  <2>1. [mem.approvals EXCEPT ![a] = [@ EXCEPT !.status = "decided", !.decision = d]]
          \in [ApprovalIds -> ApprovalRow]
    BY <1>b DEF Stores, ApprovalRow
  <2>2. adm' \in [Operators -> Admin]
    BY <1>10, <1>a DEF Decide, Admin, AdminPC, ApprovalIds
  <2> QED
    BY <1>10, <2>1, <2>2, SavedApprovals DEF Decide, Typed, TypeOK, HandlerBound
<1>11. CASE DecideAnswers(o, ok)
  <2>1. adm[o].row \in Nat
    BY <1>a DEF Admin
  <2>2. adm' \in [Operators -> Admin]
    BY <1>11, <1>a DEF DecideAnswers, Done
  <2>3. faults' \in 0..MaxFaults /\ audit' \subseteq Remembered \X Nat
    BY <1>11, <2>1, Appended DEF DecideAnswers
  <2> QED
    BY <1>11, <2>2, <2>3 DEF DecideAnswers, Typed, TypeOK, HandlerBound
<1> QED
  BY <1>1, <1>2, <1>3, <1>4, <1>5, <1>6, <1>7, <1>8, <1>9, <1>10, <1>11 DEF OperatorStep

\* So does every write of a submission.
LEMMA SubmissionTyped ==
    ASSUME Typed, NEW ok \in BOOLEAN, SubmissionStep(ok)
    PROVE  Typed'
<1> USE DEF OpFrame
<1>a. op \in Handler /\ Idle \in Handler /\ Idle.pc = "idle"
  BY FileBounds DEF Typed, TypeOK, Idle, Handler, OpPC
<1>b. mem \in Stores /\ disk \in Stores
  BY DEF Typed, TypeOK
<1>c. op.job \in Nat /\ op.grant \in Nat /\ op.approval \in Nat
  BY <1>a, FileBounds DEF Handler
<1>1. CASE RequestApproval(ok)
  <2>1. ASSUME NEW a \in ApprovalIds
        PROVE  [mem.approvals EXCEPT ![a] =
                  [status |-> "pending", decision |-> None, grant |-> op.grant,
                   scope |-> OpRisk.scope]] \in [ApprovalIds -> ApprovalRow]
    <3>1. op.command \in Commands
      BY <1>1, Zenon DEF RequestApproval, Typed, HandlerBound, OnCommand
    <3>2. OpRisk.scope \in ScopeKeys
      BY <3>1, FileData DEF OpRisk, RiskResult
    <3> QED
      BY <1>a, <1>b, <3>2 DEF Stores, ApprovalRow, Handler
  <2>2. op' \in Handler /\ HandlerBound'
    <3>1. Finish \/ \E a \in ApprovalIds : op' = Matched("requested", a)
      BY <1>1, Zenon DEF RequestApproval, Matched
    <3>2. CASE Finish
      BY <3>2, Ends
    <3>3. ASSUME NEW a \in ApprovalIds, op' = Matched("requested", a)
          PROVE  op' \in Handler /\ HandlerBound'
      BY <3>3, Matches DEF OpPC, OnGrant, OnCommand, OnJob
    <3> QED
      BY <3>1, <3>2, <3>3
  <2>3. mem' \in Stores /\ disk' \in Stores /\ faults' \in 0..MaxFaults
    <3>1. CASE UNCHANGED <<mem, disk, faults>>
      BY <1>b, <3>1 DEF Typed, TypeOK
    <3>2. ASSUME NEW a \in ApprovalIds,
                 SaveApprovals([mem.approvals EXCEPT ![a] =
                    [status |-> "pending", decision |-> None, grant |-> op.grant,
                     scope |-> OpRisk.scope]], ok)
          PROVE  mem' \in Stores /\ disk' \in Stores /\ faults' \in 0..MaxFaults
      BY <2>1, <3>2, SavedApprovals
    <3> QED
      BY <1>1, <3>1, <3>2, Zenon DEF RequestApproval
  <2>4. UNCHANGED <<holds, told, audit, published, dead, adm, poll, report, past>>
    BY <1>1, Zenon DEF RequestApproval
  <2> QED
    BY <2>2, <2>3, <2>4 DEF Typed, TypeOK
<1>2. CASE LogAndFinish(ok)
  <2>1. op' \in Handler /\ HandlerBound'
    BY <1>2, Ends DEF LogAndFinish
  <2>2. faults' \in 0..MaxFaults /\ audit' \subseteq Remembered \X Nat
    BY <1>2, <1>c, Appended DEF LogAndFinish
  <2> QED
    BY <1>2, <2>1, <2>2 DEF LogAndFinish, Typed, TypeOK
<1>3. ASSUME NEW j \in JobIds, Enqueue(j, ok) PROVE Typed'
  <2>1. [mem.jobs EXCEPT ![j] =
          [status |-> "staged", grant |-> op.grant, request |-> op.request,
           command |-> op.command, approval |-> op.approval, output |-> FALSE]]
        \in [JobIds -> JobRow]
    BY <1>a, <1>b DEF Stores, JobRow, JobStatus, Handler
  <2>2. op' \in Handler /\ HandlerBound'
    <3>1. CASE op' = Taken("authenticate", j)
      BY <3>1, Takes DEF OpPC, OnGrant, OnCommand, OnJob
    <3> QED
      BY <1>3, <3>1, Ends DEF Enqueue, Taken
  <2>3. past' \in [grants : SUBSET GrantIds, jobs : SUBSET JobIds]
    BY <1>3 DEF Enqueue, Typed, TypeOK
  <2>4. mem' \in Stores /\ disk' \in Stores /\ faults' \in 0..MaxFaults
    BY <1>3, <2>1, SavedJobs DEF Enqueue
  <2> QED
    BY <1>3, <2>2, <2>3, <2>4 DEF Enqueue, Typed, TypeOK
<1>4. CASE AuthorizeLogged(ok)
  <2>1. op' \in Handler /\ HandlerBound'
    BY <1>4, Goes, Zenon DEF AuthorizeLogged, OpPC, OnGrant, OnCommand, OnJob
  <2>2. faults' \in 0..MaxFaults /\ audit' \subseteq Remembered \X Nat
    BY <1>4, <1>c, Appended DEF AuthorizeLogged
  <2> QED
    BY <1>4, <2>1, <2>2 DEF AuthorizeLogged, Typed, TypeOK
<1>5. CASE ConsumeAllowOnce(ok)
  <2>1. [mem.approvals EXCEPT ![mem.jobs[op.job].approval].status = "consumed"]
          \in [ApprovalIds -> ApprovalRow]
    <3>1. mem.approvals \in [ApprovalIds -> ApprovalRow]
      BY <1>b DEF Stores
    <3> QED
      BY <3>1 DEF ApprovalRow
  <2>2. op' \in Handler /\ HandlerBound'
    BY <1>5, Goes, Zenon DEF ConsumeAllowOnce, OpPC, OnGrant, OnCommand, OnJob
  <2>3. mem' \in Stores /\ disk' \in Stores /\ faults' \in 0..MaxFaults
    BY <1>5, <2>1, SavedApprovals DEF ConsumeAllowOnce
  <2> QED
    BY <1>5, <2>2, <2>3 DEF ConsumeAllowOnce, Typed, TypeOK
<1>6. CASE Publish(ok)
  <2>1. WithStatus(mem.jobs, {op.job}, IF op.job \in past.jobs THEN "expired" ELSE "pending")
          \in [JobIds -> JobRow]
    <3>1. (IF op.job \in past.jobs THEN "expired" ELSE "pending") \in JobStatus
      BY DEF JobStatus
    <3>2. mem.jobs \in [JobIds -> JobRow]
      BY <1>b DEF Stores
    <3> QED
      BY <3>1, <3>2, StatusTable
  <2>2. op' \in Handler /\ HandlerBound'
    <3>1. op.pc \in OnJob /\ (Finish \/ Goto("cancel"))
      BY <1>6 DEF Publish, OnJob
    <3> QED
      BY <3>1, Ends, Goes DEF OpPC, OnGrant, OnCommand, OnJob
  <2>3. mem' \in Stores /\ disk' \in Stores /\ faults' \in 0..MaxFaults
    <3>1. CASE UNCHANGED <<mem, disk, faults>>
      BY <1>b, <3>1 DEF Typed, TypeOK
    <3> QED
      BY <1>6, <3>1, <2>1, SavedJobs DEF Publish
  <2>4. published' \subseteq JobIds
    BY <1>6 DEF Publish, Typed, TypeOK, HandlerBound, OnJob
  <2> QED
    BY <1>6, <2>2, <2>3, <2>4 DEF Publish, Typed, TypeOK
<1>7. CASE CancelPending(ok)
  <2>1. WithStatus(mem.jobs, {op.job}, "canceled") \in [JobIds -> JobRow]
    BY <1>b, StatusTable DEF Stores, JobStatus
  <2>2. op' \in Handler /\ HandlerBound'
    BY <1>7, Ends DEF CancelPending
  <2>3. mem' \in Stores /\ disk' \in Stores /\ faults' \in 0..MaxFaults
    <3>1. CASE UNCHANGED <<mem, disk, faults>>
      BY <1>b, <3>1 DEF Typed, TypeOK
    <3> QED
      BY <1>7, <3>1, <2>1, SavedJobs DEF CancelPending
  <2> QED
    BY <1>7, <2>2, <2>3 DEF CancelPending, Typed, TypeOK
<1> QED
  BY <1>1, <1>2, <1>3, <1>4, <1>5, <1>6, <1>7 DEF SubmissionStep

\* So does every write of the worker's handlers.
LEMMA WorkerTyped ==
    ASSUME Typed, NEW ok \in BOOLEAN, WorkerStep(ok)
    PROVE  Typed'
<1> USE DEF OpFrame
<1>a. op \in Handler /\ Idle \in Handler /\ Idle.pc = "idle"
  BY FileBounds DEF Typed, TypeOK, Idle, Handler, OpPC
<1>b. mem \in Stores /\ disk \in Stores /\ mem.jobs \in [JobIds -> JobRow]
  BY DEF Typed, TypeOK, Stores
<1>c. op.job \in Nat
  BY <1>a, FileBounds DEF Handler
<1>1. CASE Claim(ok)
  <2>1. WithStatus(mem.jobs, Overdue, "expired") \in [JobIds -> JobRow]
    BY <1>b, StatusTable DEF JobStatus
  <2>2. ASSUME NEW j \in JobIds
        PROVE  WithStatus(WithStatus(mem.jobs, {i \in Overdue : i < j}, "expired"), {j}, "claimed")
                 \in [JobIds -> JobRow]
    BY <1>b, StatusTable DEF JobStatus
  <2>3. op' \in Handler /\ HandlerBound'
    <3>1. \/ UNCHANGED op
          \/ \E j \in JobIds : op' = Claiming(j)
      BY <1>1, Zenon DEF Claim, Claimable, Claiming
    <3>2. CASE UNCHANGED op
      BY <1>a, <3>2 DEF Typed, HandlerBound
    <3>3. ASSUME NEW j \in JobIds, op' = Claiming(j)
          PROVE  op' \in Handler /\ HandlerBound'
      BY <3>3, Begins DEF OpPC, OnGrant, OnCommand
    <3> QED
      BY <3>1, <3>2, <3>3
  <2>4. mem' \in Stores /\ disk' \in Stores /\ faults' \in 0..MaxFaults
    <3>1. CASE UNCHANGED <<mem, disk, faults>>
      BY <1>b, <3>1 DEF Typed, TypeOK
    <3>2. CASE SaveJobs(WithStatus(mem.jobs, Overdue, "expired"), ok)
      BY <2>1, <3>2, SavedJobs
    <3>3. ASSUME NEW j \in JobIds,
                 SaveJobs(WithStatus(WithStatus(mem.jobs, {i \in Overdue : i < j}, "expired"),
                                     {j}, "claimed"), ok)
          PROVE  mem' \in Stores /\ disk' \in Stores /\ faults' \in 0..MaxFaults
      BY <2>2, <3>3, SavedJobs
    <3> QED
      BY <1>1, <3>1, <3>2, <3>3, Zenon DEF Claim, Claimable
  <2>5. poll' \in BOOLEAN
    <3>1. poll' = FALSE
      BY <1>1, Zenon DEF Claim
    <3> QED
      BY <3>1
  <2>6. UNCHANGED <<adm, holds, told, report, past, audit, published, dead>>
    BY <1>1, Zenon DEF Claim
  <2> QED
    BY <2>3, <2>4, <2>5, <2>6 DEF Typed, TypeOK
<1>2. CASE ClaimAnswers(ok)
  <2>1. op' \in Handler /\ HandlerBound'
    <3>1. op.pc \in OnJob /\ (Finish \/ Goto("reject"))
      BY <1>2 DEF ClaimAnswers, OnJob
    <3> QED
      BY <3>1, Ends, Goes DEF OpPC, OnGrant, OnCommand, OnJob
  <2>2. faults' \in 0..MaxFaults /\ audit' \subseteq Remembered \X Nat
    BY <1>2, <1>c, Appended DEF ClaimAnswers
  <2>3. holds' \subseteq JobIds
    BY <1>2 DEF ClaimAnswers, Typed, TypeOK, HandlerBound, OnJob
  <2> QED
    BY <1>2, <2>1, <2>2, <2>3 DEF ClaimAnswers, Typed, TypeOK
<1>3. CASE Reject(ok)
  <2>1. WithStatus(mem.jobs, {op.job}, "canceled") \in [JobIds -> JobRow]
    BY <1>b, StatusTable DEF JobStatus
  <2>2. op' \in Handler /\ HandlerBound'
    <3>1. op.pc \in OnJob /\ (Finish \/ Goto("rejected"))
      BY <1>3 DEF Reject, OnJob
    <3> QED
      BY <3>1, Ends, Goes DEF OpPC, OnGrant, OnCommand, OnJob
  <2>3. mem' \in Stores /\ disk' \in Stores /\ faults' \in 0..MaxFaults
    <3>1. CASE UNCHANGED <<mem, disk, faults>>
      BY <1>b, <3>1 DEF Typed, TypeOK
    <3> QED
      BY <1>3, <3>1, <2>1, SavedJobs DEF Reject
  <2> QED
    BY <1>3, <2>2, <2>3 DEF Reject, Typed, TypeOK
<1>4. CASE Start(ok)
  <2>1. WithStatus(mem.jobs, {op.job}, IF op.job \in past.jobs THEN "expired" ELSE "running")
          \in [JobIds -> JobRow]
    <3>1. (IF op.job \in past.jobs THEN "expired" ELSE "running") \in JobStatus
      BY DEF JobStatus
    <3> QED
      BY <1>b, <3>1, StatusTable
  <2>2. op' \in Handler /\ HandlerBound'
    <3>1. op.pc \in OnJob /\ (Finish \/ Goto("started"))
      BY <1>4 DEF Start, OnJob
    <3> QED
      BY <3>1, Ends, Goes DEF OpPC, OnGrant, OnCommand, OnJob
  <2>3. mem' \in Stores /\ disk' \in Stores /\ faults' \in 0..MaxFaults
    <3>1. CASE UNCHANGED <<mem, disk, faults>>
      BY <1>b, <3>1 DEF Typed, TypeOK
    <3> QED
      BY <1>4, <3>1, <2>1, SavedJobs DEF Start
  <2> QED
    BY <1>4, <2>2, <2>3 DEF Start, Typed, TypeOK
<1>5. CASE StartAnswers(ok)
  <2>1. op' \in Handler /\ HandlerBound'
    <3>1. op.pc \in OnJob /\ (Finish \/ Goto("reject"))
      BY <1>5 DEF StartAnswers, OnJob
    <3> QED
      BY <3>1, Ends, Goes DEF OpPC, OnGrant, OnCommand, OnJob
  <2>2. faults' \in 0..MaxFaults /\ audit' \subseteq Remembered \X Nat
    BY <1>5, <1>c, Appended DEF StartAnswers
  <2>3. told' \subseteq JobIds
    BY <1>5 DEF StartAnswers, Typed, TypeOK, HandlerBound, OnJob
  <2> QED
    BY <1>5, <2>1, <2>2, <2>3 DEF StartAnswers, Typed, TypeOK
<1> USE DEF ReportFrame
<1>6. ASSUME NEW j \in JobIds, NEW output \in BOOLEAN, PutOutput(j, output, ok) PROVE Typed'
  <2>1. mem.outputs \cup {j} \in SUBSET JobIds
    BY <1>b DEF Stores
  <2>2. report' \in [JobIds -> Report]
    BY <1>6 DEF PutOutput, Typed, TypeOK, Report
  <2> QED
    BY <1>6, <2>1, <2>2, SavedOutputs DEF PutOutput, Typed, TypeOK, HandlerBound
<1>7. ASSUME NEW j \in JobIds, NEW success \in BOOLEAN, Complete(j, success, ok) PROVE Typed'
  <2>1. WithResult(j, success, report[j].output) \in [JobIds -> JobRow]
    <3>1. report[j].output \in BOOLEAN
      BY DEF Typed, TypeOK, Report
    <3>2. [mem.jobs[j] EXCEPT !.status = IF success THEN "succeeded" ELSE "failed",
                              !.output = report[j].output] \in JobRow
      BY <1>b, <3>1 DEF JobRow, JobStatus
    <3> QED
      BY <1>b, <3>2 DEF WithResult
  <2>2. report' \in [JobIds -> Report]
    <3>1. report \in [JobIds -> Report] /\ NoReport \in Report
      BY DEF Typed, TypeOK, Report, NoReport
    <3>2. [report[j] EXCEPT !.pc = "log"] \in Report
      BY <3>1 DEF Report
    <3> QED
      BY <1>7, <3>1, <3>2 DEF Complete
  <2> QED
    BY <1>7, <2>1, <2>2, SavedJobs DEF Complete, Typed, TypeOK, HandlerBound
<1>8. ASSUME NEW j \in JobIds, CompleteAnswers(j, ok) PROVE Typed'
  <2>1. faults' \in 0..MaxFaults /\ audit' \subseteq Remembered \X Nat
    <3>1. j \in Nat
      BY DEF JobIds
    <3> QED
      BY <1>8, <3>1, Appended DEF CompleteAnswers
  <2>2. report' \in [JobIds -> Report]
    BY <1>8 DEF CompleteAnswers, Typed, TypeOK, Report, NoReport
  <2> QED
    BY <1>8, <2>1, <2>2 DEF CompleteAnswers, Typed, TypeOK, HandlerBound
<1>9. ASSUME NEW j \in JobIds, CertificateRefused(j, ok) PROVE Typed'
  <2>1. WithStatus(mem.jobs, {j}, "canceled") \in [JobIds -> JobRow]
    BY <1>b, StatusTable DEF JobStatus
  <2> QED
    BY <1>9, <2>1, SavedJobs DEF CertificateRefused, Typed, TypeOK, HandlerBound
<1> QED
  BY <1>1, <1>2, <1>3, <1>4, <1>5, <1>6, <1>7, <1>8, <1>9 DEF WorkerStep

\* So does every write of a single grant's revocation.
LEMMA RevokeTyped ==
    ASSUME Typed, NEW ok \in BOOLEAN, RevokeStep(ok)
    PROVE  Typed'
<1> USE DEF OpFrame
<1>a. op \in Handler /\ Idle \in Handler /\ Idle.pc = "idle"
  BY FileBounds DEF Typed, TypeOK, Idle, Handler, OpPC
<1>b. mem \in Stores /\ disk \in Stores /\ mem.jobs \in [JobIds -> JobRow]
  BY DEF Typed, TypeOK, Stores
<1>1. ASSUME NEW g \in GrantIds, RevokeGrant(g, ok) PROVE Typed'
  <2>1. [mem.grants EXCEPT ![g].revoked = TRUE] \in [GrantIds -> GrantRow]
    BY <1>b DEF Stores, GrantRow
  <2>2. op' \in Handler /\ HandlerBound'
    <3>1. CASE UNCHANGED op
      BY <1>a, <3>1 DEF Typed, HandlerBound
    <3>2. CASE op' = Revoking(g)
      BY <3>2, BeginsGrant
    <3> QED
      BY <1>1, <3>1, <3>2 DEF RevokeGrant, Revoking
  <2> QED
    BY <1>1, <2>1, <2>2, SavedGrants DEF RevokeGrant, Typed, TypeOK
<1>2. CASE CancelPendingByGrant(ok)
  <2>1. WithStatus(mem.jobs, Unclaimed(op.grant), "canceled") \in [JobIds -> JobRow]
    BY <1>b, StatusTable DEF JobStatus
  <2>2. op' \in Handler /\ HandlerBound'
    BY <1>2, <1>a DEF CancelPendingByGrant, Handler, OpPC, HandlerBound, OnGrant, OnCommand, OnJob, Typed
  <2> QED
    BY <1>2, <2>1, <2>2, SavedJobs DEF CancelPendingByGrant, Typed, TypeOK
<1>3. CASE RevokeAnswers(ok)
  <2>1. op' \in Handler /\ HandlerBound'
    BY <1>3, <1>a DEF RevokeAnswers, Finish, HandlerBound, OnGrant, OnCommand, OnJob
  <2>2. faults' \in 0..MaxFaults /\ audit' \subseteq Remembered \X Nat
    <3>1. op.grant \in Nat
      BY <1>a, FileBounds DEF Handler
    <3> QED
      BY <1>3, <3>1, Appended DEF RevokeAnswers
  <2>3. dead' \subseteq GrantIds
    BY <1>3 DEF RevokeAnswers, Typed, TypeOK, HandlerBound, OnGrant
  <2> QED
    BY <1>3, <2>1, <2>2, <2>3 DEF RevokeAnswers, Typed, TypeOK
<1> QED
  BY <1>1, <1>2, <1>3 DEF RevokeStep

\* A handler that has just taken executionMu for a submission.
LEMMA BeginsCommand ==
    ASSUME Typed, NEW g \in GrantIds, NEW r \in Requests, NEW c \in Commands,
           op' = Submitting(g, r, c)
    PROVE  /\ op' \in Handler /\ HandlerBound' /\ op'.pc = "lookup" /\ op'.grant = g
           /\ op'.request = r /\ op'.command = c /\ op'.approval = 0
<1>1. g \in 0..MaxGrants /\ 0 \in 0..MaxJobs /\ 0 \in 0..MaxApprovals
  BY FileBounds DEF GrantIds
<1>2. /\ op' \in Handler /\ op'.pc = "lookup" /\ op'.grant = g
      /\ op'.request = r /\ op'.command = c /\ op'.approval = 0
  BY <1>1 DEF Idle, Handler, OpPC, Submitting
<1>3. HandlerBound'
  BY <1>2 DEF HandlerBound, OnGrant, OnCommand, OnJob
<1> QED
  BY <1>2, <1>3

\* Where the three reads of a submission lead.
LEMMA ReadOutcomes ==
    ASSUME Typed
    PROVE  /\ LookupRequest => /\ op.pc = "lookup"
                               /\ \/ Finish \/ Goto("denied") \/ Goto("enqueue") \/ Goto("match")
                                  \/ \E j \in ByRequest(op.grant, op.request) :
                                        /\ mem.jobs[j].status = "staged"
                                        /\ op' = Taken("authenticate", j)
           /\ MatchApproval => /\ op.pc = "match"
                               /\ \/ Goto("request") \/ Goto("denied")
                                  \/ \E a \in Matching : /\ mem.approvals[a].decision # "deny"
                                                         /\ op' = Matched("enqueue", a)
           /\ Authenticate => /\ op.pc = "authenticate"
                              /\ \/ Finish \/ Goto("cancel")
                                 \/ Goto("approve") /\ mem.jobs[op.job].status = "staged"
                                                    /\ Live(mem.jobs[op.job].grant)
           /\ Approve => /\ op.pc = "approve"
                         /\ \/ Goto("cancel")
                            \/ Goto("authorize") /\ \/ Risk[mem.jobs[op.job].command].decision = "allow"
                                                    \/ ApprovalHolds(op.job)
<1>1. ASSUME LookupRequest
      PROVE  /\ op.pc = "lookup"
             /\ \/ Finish \/ Goto("denied") \/ Goto("enqueue") \/ Goto("match")
                \/ \E j \in ByRequest(op.grant, op.request) :
                      /\ mem.jobs[j].status = "staged"
                      /\ op' = Taken("authenticate", j)
  <2>1. Route => Goto("denied") \/ Goto("enqueue") \/ Goto("match")
    <3>1. CASE OpRisk.decision = "deny"
      BY <3>1 DEF Route
    <3>2. CASE OpRisk.decision = "allow"
      BY <3>2 DEF Route
    <3>3. CASE OpRisk.decision # "deny" /\ OpRisk.decision # "allow"
      BY <3>3 DEF Route
    <3> QED
      BY <3>1, <3>2, <3>3
  <2>2. op.pc = "lookup"
    BY <1>1, Zenon DEF LookupRequest
  <2>3. Route \/ \E j \in ByRequest(op.grant, op.request) : AnswerFrom(j)
    BY <1>1, Zenon DEF LookupRequest
  <2>4. ASSUME NEW j \in ByRequest(op.grant, op.request), AnswerFrom(j)
        PROVE  Finish \/ (mem.jobs[j].status = "staged" /\ op' = Taken("authenticate", j))
    BY <2>4 DEF AnswerFrom, Taken
  <2> QED
    BY <2>1, <2>2, <2>3, <2>4
<1>2. ASSUME MatchApproval
      PROVE  /\ op.pc = "match"
             /\ \/ Goto("request") \/ Goto("denied")
                \/ \E a \in Matching : /\ mem.approvals[a].decision # "deny"
                                       /\ op' = Matched("enqueue", a)
  BY <1>2, Zenon DEF MatchApproval, Matched
<1>3. ASSUME Authenticate
      PROVE  /\ op.pc = "authenticate"
             /\ \/ Finish \/ Goto("cancel")
                \/ Goto("approve") /\ mem.jobs[op.job].status = "staged"
                                   /\ Live(mem.jobs[op.job].grant)
  BY <1>3, Zenon DEF Authenticate
<1>4. ASSUME Approve
      PROVE  /\ op.pc = "approve"
             /\ \/ Goto("cancel")
                \/ Goto("authorize") /\ \/ Risk[mem.jobs[op.job].command].decision = "allow"
                                        \/ ApprovalHolds(op.job)
  BY <1>4, Zenon DEF Approve
<1> QED
  BY <1>1, <1>2, <1>3, <1>4

\* So does every step that only reads the stores.
LEMMA ReadTyped ==
    ASSUME Typed, ReadStep
    PROVE  Typed'
<1>a. mem.jobs \in [JobIds -> JobRow] /\ mem.authority \in AuthorityRow
  BY DEF Typed, TypeOK, Stores
<1>0. ASSUME op' \in Handler, HandlerBound', OpFrame,
             UNCHANGED <<mem, disk, holds, told, audit, published, dead, faults>>
      PROVE  Typed'
  BY <1>0 DEF OpFrame, Typed, TypeOK
<1>1. ASSUME NEW o \in Operators, IssueGrant(o) PROVE Typed'
  <2>1. adm' \in [Operators -> Admin]
    <3>1. adm \in [Operators -> Admin] /\ mem.authority.epoch \in Epochs
      BY <1>a DEF Typed, TypeOK, AuthorityRow
    <3>2. adm' = [adm EXCEPT ![o].pc = "create", ![o].epoch = mem.authority.epoch]
      BY <1>1, Zenon DEF IssueGrant
    <3> QED
      BY <3>1, <3>2 DEF Admin, AdminPC
  <2> QED
    BY <1>1, <2>1 DEF IssueGrant, AdminFrame, Typed, TypeOK, HandlerBound
<1>2. ASSUME NEW g \in GrantIds, NEW r \in Requests, NEW c \in Commands, SubmitCommand(g, r, c)
      PROVE  Typed'
  <2>1. op' = Submitting(g, r, c)
    BY <1>2 DEF SubmitCommand, Submitting
  <2>2. op' \in Handler /\ HandlerBound'
    BY <2>1, BeginsCommand
  <2> QED
    BY <1>0, <1>2, <2>2 DEF SubmitCommand
<1>3. CASE LookupRequest
  <2>1. ASSUME NEW j \in ByRequest(op.grant, op.request), op' = Taken("authenticate", j)
        PROVE  op' \in Handler /\ HandlerBound'
    BY <2>1, Takes DEF ByRequest, OpPC, OnGrant, OnCommand
  <2>2. op' \in Handler /\ HandlerBound'
    BY <1>3, <2>1, ReadOutcomes, Ends, Goes DEF OpPC, OnGrant, OnCommand, OnJob
  <2>3. OpFrame /\ UNCHANGED <<mem, disk, holds, told, audit, published, dead, faults>>
    BY <1>3, Zenon DEF LookupRequest
  <2> QED
    BY <1>0, <2>2, <2>3
<1>4. CASE MatchApproval
  <2>1. ASSUME op.pc = "match", NEW a \in Matching, op' = Matched("enqueue", a)
        PROVE  op' \in Handler /\ HandlerBound'
    BY <2>1, Matches DEF Matching, OpPC, OnGrant, OnCommand, OnJob
  <2>2. op' \in Handler /\ HandlerBound'
    BY <1>4, <2>1, ReadOutcomes, Goes DEF OpPC, OnGrant, OnCommand, OnJob
  <2>3. OpFrame /\ UNCHANGED <<mem, disk, holds, told, audit, published, dead, faults>>
    BY <1>4, Zenon DEF MatchApproval
  <2> QED
    BY <1>0, <2>2, <2>3
<1>5. CASE Authenticate \/ Approve
  <2>2. op' \in Handler /\ HandlerBound'
    BY <1>5, ReadOutcomes, Ends, Goes DEF OpPC, OnGrant, OnCommand, OnJob
  <2>3. OpFrame /\ UNCHANGED <<mem, disk, holds, told, audit, published, dead, faults>>
    BY <1>5, Zenon DEF Authenticate, Approve
  <2> QED
    BY <1>0, <2>2, <2>3
<1>6. CASE GuardWorkerEnabled
  <2>1. poll' \in BOOLEAN
    BY <1>6 DEF GuardWorkerEnabled
  <2> QED
    BY <1>6, <2>1 DEF GuardWorkerEnabled, Typed, TypeOK, HandlerBound
<1>7. ASSUME NEW j \in JobIds, StartRequest(j) PROVE Typed'
  <2> DEFINE l == Live(mem.jobs[j].grant)
             pc == IF l THEN "start" ELSE "reject"
  <2>1. op' = Starting(pc, j, ~l)
    BY <1>7 DEF StartRequest, Starting
  <2>2. pc \in OpPC /\ pc \notin OnGrant \cup OnCommand /\ (~l) \in BOOLEAN
    BY DEF OpPC, OnGrant, OnCommand
  <2> HIDE DEF l, pc
  <2>3. op' \in Handler /\ HandlerBound'
    BY <2>1, <2>2, Begins
  <2> QED
    BY <1>0, <1>7, <2>3 DEF StartRequest
<1>8. ASSUME NEW g \in GrantIds, GrantLapses(g) PROVE Typed'
  <2>1. past' \in [grants : SUBSET GrantIds, jobs : SUBSET JobIds]
    BY <1>8 DEF GrantLapses, Typed, TypeOK
  <2> QED
    BY <1>8, <2>1 DEF GrantLapses, Typed, TypeOK, HandlerBound
<1>9. ASSUME NEW j \in JobIds, JobLapses(j) PROVE Typed'
  <2>1. past' \in [grants : SUBSET GrantIds, jobs : SUBSET JobIds]
    BY <1>9 DEF JobLapses, Typed, TypeOK
  <2> QED
    BY <1>9, <2>1 DEF JobLapses, Typed, TypeOK, HandlerBound
<1> QED
  BY <1>1, <1>2, <1>3, <1>4, <1>5, <1>6, <1>7, <1>8, <1>9 DEF ReadStep

\* A restart reads every store back from its file and ends every handler.
LEMMA RestartTyped ==
    ASSUME Typed, Restart
    PROVE  /\ Typed' /\ op' = Idle /\ disk' = disk
           /\ mem'.authority = disk.authority /\ mem'.grants = disk.grants
           /\ mem'.approvals = disk.approvals /\ mem'.jobs = disk.jobs
           /\ mem'.outputs = disk.outputs
<1>1. /\ mem'.authority = disk.authority /\ mem'.grants = disk.grants
      /\ mem'.approvals = disk.approvals /\ mem'.jobs = disk.jobs
      /\ mem'.outputs = disk.outputs /\ mem' \in Stores
  BY DEF Restart, OpenEmergency, OpenGrants, OpenApprovals, OpenJobs, OpenOutputs, Typed, TypeOK, Stores
<1>2. op' = Idle /\ op' \in Handler /\ HandlerBound'
  BY Ends DEF Restart, Finish
<1>3. adm' \in [Operators -> Admin] /\ report' \in [JobIds -> Report] /\ faults' \in 0..MaxFaults
  BY FileBounds DEF Restart, Resting, Admin, AdminPC, Epochs, NoReport, Report, Typed, TypeOK
<1>4. poll' \in BOOLEAN
  BY DEF Restart
<1> QED
  BY <1>1, <1>2, <1>3, <1>4 DEF Restart, Typed, TypeOK

\* Every step keeps the state well typed.
LEMMA NextTyped == Typed /\ [Next]_vars => Typed'
<1> SUFFICES ASSUME Typed, [Next]_vars PROVE Typed'
  OBVIOUS
<1>1. CASE UNCHANGED vars
  BY <1>1 DEF vars, Typed, TypeOK, HandlerBound
<1>2. ASSUME NEW ok \in BOOLEAN, NEW o \in Operators, OperatorStep(o, ok) PROVE Typed'
  BY <1>2, OperatorTyped
<1>3. ASSUME NEW ok \in BOOLEAN, SubmissionStep(ok) \/ WorkerStep(ok) \/ RevokeStep(ok) PROVE Typed'
  BY <1>3, SubmissionTyped, WorkerTyped, RevokeTyped
<1>4. CASE ReadStep
  BY <1>4, ReadTyped
<1>5. CASE Restart
  BY <1>5, RestartTyped
<1> QED
  BY <1>1, <1>2, <1>3, <1>4, <1>5 DEF Next

\* The stores, their files, the handlers and the history keep their types however
\* writes fail and whenever the process dies, and a handler that is past its
\* lookups names rows that exist.
THEOREM FileTypeCorrect == Spec => []TypeOK
<1>1. Spec => []Typed
  BY InitTyped, NextTyped, PTL DEF Spec
<1>2. Typed => TypeOK
  BY DEF Typed
<1> QED
  BY <1>1, <1>2, PTL

-----------------------------------------------------------------------------
(* Which steps write which store. *)

\* Every store but the emergency state is in memory what it is in its file.
Sync ==
    /\ mem.grants = disk.grants /\ mem.approvals = disk.approvals
    /\ mem.jobs = disk.jobs /\ mem.outputs = disk.outputs
    /\ mem.authority # disk.authority => mem.authority.disabled
    /\ mem.authority.epoch >= disk.authority.epoch

JobWrite ==
    \E ok \in BOOLEAN :
        \/ \E o \in Operators : CancelNotRunningAll(o, ok)
        \/ \E j \in JobIds : Enqueue(j, ok) \/ CertificateRefused(j, ok)
        \/ \E j \in JobIds, success \in BOOLEAN : Complete(j, success, ok)
        \/ Publish(ok) \/ CancelPending(ok) \/ CancelPendingByGrant(ok)
        \/ Claim(ok) \/ Reject(ok) \/ Start(ok)

GrantWrite ==
    \E ok \in BOOLEAN :
        \/ \E o \in Operators, g \in GrantIds : CreateGrant(o, g, ok)
        \/ \E o \in Operators : UndoIssue(o, ok)
        \/ \E g \in GrantIds : RevokeGrant(g, ok)

ApprovalWrite ==
    \E ok \in BOOLEAN :
        \/ \E o \in Operators, a \in ApprovalIds, d \in Decisions : Decide(o, a, d, ok)
        \/ RequestApproval(ok) \/ ConsumeAllowOnce(ok)

OutputWrite ==
    \E ok \in BOOLEAN, j \in JobIds, output \in BOOLEAN : PutOutput(j, output, ok)

AuthorityWrite ==
    \E ok \in BOOLEAN, o \in Operators : ThrowSwitch(o, ok) \/ Enable(o, ok)

\* Every other step leaves the stores alone.
LEMMA Writers ==
    ASSUME Next
    PROVE  \/ UNCHANGED <<mem, disk>> \/ Restart
           \/ JobWrite \/ GrantWrite \/ ApprovalWrite \/ OutputWrite \/ AuthorityWrite
<1> DEFINE Goal == \/ UNCHANGED <<mem, disk>> \/ Restart
                   \/ JobWrite \/ GrantWrite \/ ApprovalWrite \/ OutputWrite \/ AuthorityWrite
<1>1. ASSUME NEW ok \in BOOLEAN, NEW o \in Operators, OperatorStep(o, ok) PROVE Goal
  BY <1>1, Zenon DEF OperatorStep, JobWrite, GrantWrite, ApprovalWrite, AuthorityWrite,
       RevokeAllAnswers, RequestEnable, EnableAnswers, IssueAnswers, DecideAnswers
<1>2. ASSUME NEW ok \in BOOLEAN, SubmissionStep(ok) PROVE Goal
  BY <1>2, Zenon DEF SubmissionStep, JobWrite, ApprovalWrite, LogAndFinish, AuthorizeLogged
<1>3. ASSUME NEW ok \in BOOLEAN, WorkerStep(ok) PROVE Goal
  BY <1>3, Zenon DEF WorkerStep, JobWrite, OutputWrite, ClaimAnswers, StartAnswers, CompleteAnswers
<1>4. ASSUME NEW ok \in BOOLEAN, RevokeStep(ok) PROVE Goal
  BY <1>4, Zenon DEF RevokeStep, JobWrite, GrantWrite, RevokeAnswers
<1>5. ASSUME ReadStep PROVE Goal
  BY <1>5, Zenon DEF ReadStep, IssueGrant, SubmitCommand, LookupRequest, MatchApproval, Authenticate,
       Approve, GuardWorkerEnabled, StartRequest, GrantLapses, JobLapses
<1> QED
  BY <1>1, <1>2, <1>3, <1>4, <1>5 DEF Next

OthersKept(jobs, grants, approvals, outputs, authority) ==
    /\ jobs \/ UNCHANGED <<mem.jobs, disk.jobs>>
    /\ grants \/ UNCHANGED <<mem.grants, disk.grants>>
    /\ approvals \/ UNCHANGED <<mem.approvals, disk.approvals>>
    /\ outputs \/ UNCHANGED <<mem.outputs, disk.outputs>>
    /\ authority \/ UNCHANGED <<mem.authority, disk.authority>>

\* A step that writes one store leaves the others alone, in memory and on disk,
\* and what it writes is in both or in neither.
LEMMA JobWriteFrame ==
    ASSUME Typed, JobWrite
    PROVE  /\ OthersKept(TRUE, FALSE, FALSE, FALSE, FALSE)
           /\ mem.jobs = disk.jobs => mem'.jobs = disk'.jobs
<1>1. ASSUME NEW ok \in BOOLEAN, NEW v, SaveJobs(v, ok)
      PROVE  /\ OthersKept(TRUE, FALSE, FALSE, FALSE, FALSE)
             /\ mem.jobs = disk.jobs => mem'.jobs = disk'.jobs
  BY <1>1, SavedJobs DEF OthersKept
<1>2. CASE UNCHANGED <<mem, disk>>
  BY <1>2 DEF OthersKept
<1>3. UNCHANGED <<mem, disk>> \/ \E ok \in BOOLEAN : \E v : SaveJobs(v, ok)
  BY Zenon DEF JobWrite, CancelNotRunningAll, Enqueue, CertificateRefused, Complete, Publish,
       CancelPending, CancelPendingByGrant, Claim, Reject, Start
<1> QED
  BY <1>1, <1>2, <1>3

\* A write of the grants leaves the other stores alone and the two copies in step.
LEMMA GrantWriteFrame ==
    ASSUME Typed, GrantWrite
    PROVE  /\ OthersKept(FALSE, TRUE, FALSE, FALSE, FALSE)
           /\ mem.grants = disk.grants => mem'.grants = disk'.grants
<1>1. ASSUME NEW ok \in BOOLEAN, NEW v, SaveGrants(v, ok)
      PROVE  /\ OthersKept(FALSE, TRUE, FALSE, FALSE, FALSE)
             /\ mem.grants = disk.grants => mem'.grants = disk'.grants
  BY <1>1, SavedGrants DEF OthersKept
<1>3. \E ok \in BOOLEAN : \E v : SaveGrants(v, ok)
  BY Zenon DEF GrantWrite, CreateGrant, UndoIssue, RevokeGrant
<1> QED
  BY <1>1, <1>3

\* So does a write of the approvals.
LEMMA ApprovalWriteFrame ==
    ASSUME Typed, ApprovalWrite
    PROVE  /\ OthersKept(FALSE, FALSE, TRUE, FALSE, FALSE)
           /\ mem.approvals = disk.approvals => mem'.approvals = disk'.approvals
<1>1. ASSUME NEW ok \in BOOLEAN, NEW v, SaveApprovals(v, ok)
      PROVE  /\ OthersKept(FALSE, FALSE, TRUE, FALSE, FALSE)
             /\ mem.approvals = disk.approvals => mem'.approvals = disk'.approvals
  BY <1>1, SavedApprovals DEF OthersKept
<1>2. CASE UNCHANGED <<mem, disk>>
  BY <1>2 DEF OthersKept
<1>3. UNCHANGED <<mem, disk>> \/ \E ok \in BOOLEAN : \E v : SaveApprovals(v, ok)
  BY Zenon DEF ApprovalWrite, Decide, RequestApproval, ConsumeAllowOnce
<1> QED
  BY <1>1, <1>2, <1>3

\* So does a write of the outputs.
LEMMA OutputWriteFrame ==
    ASSUME Typed, OutputWrite
    PROVE  /\ OthersKept(FALSE, FALSE, FALSE, TRUE, FALSE)
           /\ mem.outputs = disk.outputs => mem'.outputs = disk'.outputs
<1>1. ASSUME NEW ok \in BOOLEAN, NEW v, SaveOutputs(v, ok)
      PROVE  /\ OthersKept(FALSE, FALSE, FALSE, TRUE, FALSE)
             /\ mem.outputs = disk.outputs => mem'.outputs = disk'.outputs
  BY <1>1, SavedOutputs DEF OthersKept
<1>2. CASE UNCHANGED <<mem, disk>>
  BY <1>2 DEF OthersKept
<1>3. UNCHANGED <<mem, disk>> \/ \E ok \in BOOLEAN : \E v : SaveOutputs(v, ok)
  BY Zenon DEF OutputWrite, PutOutput
<1> QED
  BY <1>1, <1>2, <1>3

\* The switch: thrown in memory whatever becomes of its file, enabled in both.
SwitchThrown == /\ mem'.authority = Killed
                /\ disk'.authority \in {disk.authority, Killed}

SwitchEnabled == /\ ~Exhausted
                 /\ mem'.authority.epoch = mem.authority.epoch /\ mem'.authority.disabled = FALSE
                 /\ disk'.authority = mem'.authority

\* A write of the emergency state throws the switch or enables, and nothing else.
LEMMA AuthorityWriteFrame ==
    ASSUME Typed, AuthorityWrite
    PROVE  /\ OthersKept(FALSE, FALSE, FALSE, FALSE, TRUE)
           /\ \/ UNCHANGED <<mem.authority, disk.authority>>
              \/ \E o \in Operators, ok \in BOOLEAN : ThrowSwitch(o, ok) /\ SwitchThrown
              \/ \E o \in Operators : adm[o].pc = "enable" /\ SwitchEnabled
<1>a. mem.authority \in AuthorityRow /\ disk.authority \in AuthorityRow
  BY DEF Typed, TypeOK, Stores
<1>1. ASSUME NEW ok \in BOOLEAN, NEW o \in Operators, ThrowSwitch(o, ok)
      PROVE  OthersKept(FALSE, FALSE, FALSE, FALSE, TRUE) /\ SwitchThrown
  <2>1. Killed \in AuthorityRow
    BY <1>a, FileBounds DEF Killed, Exhausted, AuthorityRow, Epochs
  <2>2. SaveSwitch(Killed, ok)
    BY <1>1 DEF ThrowSwitch
  <2> QED
    BY <2>1, <2>2, SavedAuthority DEF OthersKept, SwitchThrown
<1>2. ASSUME NEW ok \in BOOLEAN, NEW o \in Operators, Enable(o, ok)
      PROVE  /\ OthersKept(FALSE, FALSE, FALSE, FALSE, TRUE)
             /\ \/ UNCHANGED <<mem.authority, disk.authority>>
                \/ adm[o].pc = "enable" /\ SwitchEnabled
  <2> DEFINE v == [mem.authority EXCEPT !.disabled = FALSE]
  <2>1. v \in AuthorityRow /\ v.epoch = mem.authority.epoch /\ v.disabled = FALSE
    BY <1>a DEF AuthorityRow
  <2>2. CASE UNCHANGED <<mem, disk>>
    BY <2>2 DEF OthersKept
  <2>3. CASE ~Exhausted /\ SaveEnable(v, ok)
    <3> HIDE DEF v
    <3>1. adm[o].pc = "enable"
      BY <1>2 DEF Enable
    <3> QED
      BY <2>1, <2>3, <3>1, SavedAuthority DEF OthersKept, SwitchEnabled
  <2> QED
    BY <1>2, <2>2, <2>3 DEF Enable
<1> QED
  BY <1>1, <1>2 DEF AuthorityWrite

AuthorityMove ==
    \/ UNCHANGED <<mem.authority, disk.authority>>
    \/ \E o \in Operators, ok \in BOOLEAN : ThrowSwitch(o, ok) /\ SwitchThrown
    \/ \E o \in Operators : adm[o].pc = "enable" /\ SwitchEnabled
    \/ Restart /\ mem'.authority = disk.authority /\ disk'.authority = disk.authority

\* What a step does to the stores: memory and files move together, the emergency
\* state apart, and the epoch in its file never goes back.
LEMMA StoreMoves ==
    ASSUME Typed, Sync, [Next]_vars
    PROVE  /\ Sync' /\ AuthorityMove
           /\ disk'.authority.epoch >= disk.authority.epoch
           /\ JobWrite \/ mem'.jobs = mem.jobs
           /\ GrantWrite \/ mem'.grants = mem.grants
           /\ ApprovalWrite \/ mem'.approvals = mem.approvals
           /\ OutputWrite \/ mem'.outputs = mem.outputs
<1>a. mem.authority \in AuthorityRow /\ disk.authority \in AuthorityRow
  BY DEF Typed, TypeOK, Stores
<1>b. mem.authority.epoch \in Nat /\ disk.authority.epoch \in Nat
  BY <1>a, FileBounds DEF AuthorityRow, Epochs
<1>c. UNCHANGED <<mem.authority, disk.authority>> => /\ AuthorityMove
                                                     /\ disk'.authority.epoch >= disk.authority.epoch
  BY <1>b DEF AuthorityMove
<1>1. CASE UNCHANGED <<mem, disk>>
  BY <1>1, <1>c DEF Sync
<1>2. CASE Restart
  <2>1. /\ mem'.authority = disk.authority /\ disk' = disk
        /\ mem'.grants = disk.grants /\ mem'.approvals = disk.approvals
        /\ mem'.jobs = disk.jobs /\ mem'.outputs = disk.outputs
    BY <1>2, RestartTyped
  <2> QED
    BY <1>2, <1>b, <2>1 DEF Sync, AuthorityMove
<1>3. CASE JobWrite
  BY <1>3, <1>c, JobWriteFrame DEF OthersKept, Sync
<1>4. CASE GrantWrite
  BY <1>4, <1>c, GrantWriteFrame DEF OthersKept, Sync
<1>5. CASE ApprovalWrite
  BY <1>5, <1>c, ApprovalWriteFrame DEF OthersKept, Sync
<1>6. CASE OutputWrite
  BY <1>6, <1>c, OutputWriteFrame DEF OthersKept, Sync
<1>7. CASE AuthorityWrite
  <2>1. OthersKept(FALSE, FALSE, FALSE, FALSE, TRUE) /\ AuthorityMove
    BY <1>7, AuthorityWriteFrame DEF AuthorityMove
  <2>2. /\ disk'.authority.epoch >= disk.authority.epoch
        /\ mem'.authority # disk'.authority => mem'.authority.disabled
        /\ mem'.authority.epoch >= disk'.authority.epoch
    <3>1. CASE UNCHANGED <<mem.authority, disk.authority>>
      BY <3>1, <1>b DEF Sync
    <3>2. CASE SwitchThrown
      <4>1. Killed.epoch \in Nat /\ Killed.epoch >= mem.authority.epoch /\ Killed.disabled
        BY <1>a, FileBounds DEF Killed, Exhausted, AuthorityRow, Epochs
      <4> QED
        BY <3>2, <4>1, <1>b DEF SwitchThrown, Sync
    <3>3. CASE SwitchEnabled
      BY <3>3, <1>b DEF SwitchEnabled, Sync
    <3> QED
      BY <1>7, <3>1, <3>2, <3>3, AuthorityWriteFrame
  <2> QED
    BY <2>1, <2>2 DEF OthersKept, Sync
<1> QED
  BY <1>1, <1>2, <1>3, <1>4, <1>5, <1>6, <1>7, Writers DEF vars

\* The two copies of the empty stores agree.
LEMMA InitSync == Init => Sync
  BY FileBounds DEF Init, Empty, Sync

\* Memory and files agree, but for the kill switch, in every reachable state.
LEMMA SyncAlways == Spec => [](Typed /\ Sync)
<1>1. Init => Typed /\ Sync
  BY InitTyped, InitSync
<1>2. Typed /\ Sync /\ [Next]_vars => Typed' /\ Sync'
  BY NextTyped, StoreMoves
<1> QED
  BY <1>1, <1>2, PTL DEF Spec

\* Whatever fails to be written, what a restart forgets is at most that the kill
\* switch was thrown.
THEOREM RestartLosesLittle == Spec => []RestartLosesOnlyKillSwitch
<1>1. Typed /\ Sync => RestartLosesOnlyKillSwitch
  <2> SUFFICES ASSUME Typed, Sync PROVE RestartLosesOnlyKillSwitch
    OBVIOUS
  <2>1. mem \in Stores /\ disk \in Stores
    BY DEF Typed, TypeOK
  <2>2. [disk EXCEPT !.authority = mem.authority] = mem
    BY <2>1 DEF Sync, Stores
  <2> QED
    BY <2>2 DEF Sync, RestartLosesOnlyKillSwitch
<1> QED
  BY <1>1, SyncAlways, PTL

-----------------------------------------------------------------------------
(* How a row of each store may change. *)

Kept(j) == /\ mem'.jobs[j].grant = mem.jobs[j].grant /\ mem'.jobs[j].request = mem.jobs[j].request
           /\ mem'.jobs[j].command = mem.jobs[j].command
           /\ mem'.jobs[j].approval = mem.jobs[j].approval

Moves(j, from, to) == mem.jobs[j].status \in from /\ mem'.jobs[j].status \in to

Enqueued(j) ==
    /\ op.pc = "enqueue" /\ mem.jobs[j].status = "none"
    /\ mem'.jobs[j] = [status |-> "staged", grant |-> op.grant, request |-> op.request,
                       command |-> op.command, approval |-> op.approval, output |-> FALSE]

StatusMove(j) ==
    /\ Kept(j) /\ mem'.jobs[j].output = mem.jobs[j].output
    /\ \/ mem.jobs[j].status # "none" /\ mem'.jobs[j].status \in {"canceled", "expired"}
       \/ /\ op.pc = "publish" /\ op.job = j /\ published' = published \cup {j}
          /\ Moves(j, {"staged"}, {"pending"})
       \/ op.pc = "idle" /\ Moves(j, {"pending"}, {"claimed"})
       \/ op.pc = "start" /\ op.job = j /\ Moves(j, {"claimed"}, {"running"})

ResultMove(j) ==
    /\ Kept(j) /\ Moves(j, {"running"}, {"succeeded", "failed"})
    /\ report[j].pc = "complete" /\ mem'.jobs[j].output = report[j].output

JobMove(j) == \/ mem'.jobs[j] = mem.jobs[j]
              \/ Enqueued(j) \/ StatusMove(j) \/ ResultMove(j)

\* A table in which some statuses changed.
LEMMA StatusSaved ==
    ASSUME Typed, NEW ok \in BOOLEAN, NEW selected, NEW status \in JobStatus,
           SaveJobs(WithStatus(mem.jobs, selected, status), ok)
    PROVE  \A j \in JobIds :
             \/ mem'.jobs[j] = mem.jobs[j]
             \/ /\ ok /\ j \in selected /\ Kept(j) /\ mem'.jobs[j].output = mem.jobs[j].output
                /\ mem'.jobs[j].status = status
<1>1. mem.jobs \in [JobIds -> JobRow]
  BY DEF Typed, TypeOK, Stores
<1>2. mem'.jobs = IF ok THEN WithStatus(mem.jobs, selected, status) ELSE mem.jobs
  BY SavedJobs
<1> QED
  BY <1>1, <1>2, StatusTable DEF Kept

\* Every write of the jobs makes one of these moves of every row.
LEMMA JobMoves ==
    ASSUME Typed, JobWrite
    PROVE  \A j \in JobIds : JobMove(j)
<1>0. CASE UNCHANGED <<mem, disk>>
  BY <1>0 DEF JobMove
<1>1. ASSUME NEW ok \in BOOLEAN, NEW o \in Operators, CancelNotRunningAll(o, ok)
      PROVE  \A j \in JobIds : JobMove(j)
  <2>1. CASE SaveJobs(WithStatus(mem.jobs, JobsIn(NotRunning), "canceled"), ok)
    BY <2>1, StatusSaved DEF JobStatus, JobMove, StatusMove, JobsIn, NotRunning
  <2> QED
    BY <1>0, <1>1, <2>1, Zenon DEF CancelNotRunningAll
<1>2. ASSUME NEW ok \in BOOLEAN, NEW j \in JobIds, Enqueue(j, ok)
      PROVE  \A i \in JobIds : JobMove(i)
  <2>1. mem'.jobs = IF ok THEN [mem.jobs EXCEPT ![j] =
          [status |-> "staged", grant |-> op.grant, request |-> op.request,
           command |-> op.command, approval |-> op.approval, output |-> FALSE]] ELSE mem.jobs
    BY <1>2, SavedJobs DEF Enqueue
  <2>2. mem.jobs \in [JobIds -> JobRow]
    BY DEF Typed, TypeOK, Stores
  <2>3. op.pc = "enqueue" /\ mem.jobs[j].status = "none"
    BY <1>2 DEF Enqueue
  <2> QED
    BY <2>1, <2>2, <2>3 DEF JobMove, Enqueued
<1>3. ASSUME NEW ok \in BOOLEAN, NEW j \in JobIds, CertificateRefused(j, ok)
      PROVE  \A i \in JobIds : JobMove(i)
  BY <1>3, StatusSaved DEF CertificateRefused, JobStatus, JobMove, StatusMove
<1>4. ASSUME NEW ok \in BOOLEAN, NEW j \in JobIds, NEW success \in BOOLEAN, Complete(j, success, ok)
      PROVE  \A i \in JobIds : JobMove(i)
  <2>1. CASE SaveJobs(WithResult(j, success, report[j].output), ok) /\ mem.jobs[j].status = "running"
    <3>1. mem'.jobs = IF ok THEN WithResult(j, success, report[j].output) ELSE mem.jobs
      BY <2>1, SavedJobs
    <3>2. mem.jobs \in [JobIds -> JobRow]
      BY DEF Typed, TypeOK, Stores
    <3>3. report[j].pc = "complete"
      BY <1>4 DEF Complete
    <3>4. ASSUME NEW i \in JobIds, i # j PROVE mem'.jobs[i] = mem.jobs[i]
      BY <3>1, <3>2, <3>4 DEF WithResult
    <3>5. ASSUME ok PROVE ResultMove(j)
      <4>1. mem'.jobs[j] = [mem.jobs[j] EXCEPT !.status = IF success THEN "succeeded" ELSE "failed",
                                               !.output = report[j].output]
        BY <3>1, <3>2, <3>5 DEF WithResult
      <4>2. mem.jobs[j] \in JobRow
        BY <3>2
      <4> QED
        BY <2>1, <3>3, <4>1, <4>2 DEF JobRow, ResultMove, Kept, Moves
    <3> QED
      BY <3>1, <3>4, <3>5 DEF JobMove
  <2> QED
    BY <1>0, <1>4, <2>1 DEF Complete
<1>5. ASSUME NEW ok \in BOOLEAN, Publish(ok) PROVE \A j \in JobIds : JobMove(j)
  <2> DEFINE status == IF op.job \in past.jobs THEN "expired" ELSE "pending"
  <2>1. CASE SaveJobs(WithStatus(mem.jobs, {op.job}, status), ok) /\ mem.jobs[op.job].status = "staged"
    <3>1. status \in JobStatus
      BY DEF JobStatus
    <3>2. ASSUME NEW j \in JobIds
          PROVE  \/ mem'.jobs[j] = mem.jobs[j]
                 \/ /\ ok /\ j = op.job /\ Kept(j) /\ mem'.jobs[j].output = mem.jobs[j].output
                    /\ mem'.jobs[j].status = status
      <4> HIDE DEF status
      <4> QED
        BY <2>1, <3>1, StatusSaved
    <3>3. op.pc = "publish"
      BY <1>5 DEF Publish
    <3>4. ok /\ op.job \notin past.jobs => published' = published \cup {op.job}
      BY <1>5, <2>1 DEF Publish
    <3> QED
      BY <2>1, <3>2, <3>3, <3>4 DEF JobMove, StatusMove, Moves
  <2> QED
    BY <1>0, <1>5, <2>1 DEF Publish
<1>6. ASSUME NEW ok \in BOOLEAN, CancelPending(ok) PROVE \A j \in JobIds : JobMove(j)
  BY <1>0, <1>6, StatusSaved DEF CancelPending, JobStatus, JobMove, StatusMove
<1>7. ASSUME NEW ok \in BOOLEAN, CancelPendingByGrant(ok) PROVE \A j \in JobIds : JobMove(j)
  <2>1. CASE SaveJobs(WithStatus(mem.jobs, Unclaimed(op.grant), "canceled"), ok)
    BY <2>1, StatusSaved DEF JobStatus, JobMove, StatusMove, Unclaimed, JobsIn
  <2> QED
    BY <1>0, <1>7, <2>1, Zenon DEF CancelPendingByGrant
<1>8. ASSUME NEW ok \in BOOLEAN, Claim(ok) PROVE \A j \in JobIds : JobMove(j)
  <2>1. CASE SaveJobs(WithStatus(mem.jobs, Overdue, "expired"), ok)
    BY <2>1, StatusSaved DEF JobStatus, JobMove, StatusMove, Overdue
  <2>2. ASSUME NEW j \in Claimable,
               SaveJobs(WithStatus(WithStatus(mem.jobs, {i \in Overdue : i < j}, "expired"),
                                   {j}, "claimed"), ok)
        PROVE  \A i \in JobIds : JobMove(i)
    <3> DEFINE first == WithStatus(mem.jobs, {i \in Overdue : i < j}, "expired")
    <3>1. mem.jobs \in [JobIds -> JobRow]
      BY DEF Typed, TypeOK, Stores
    <3>2. first \in [JobIds -> JobRow]
      BY <3>1, StatusTable DEF JobStatus
    <3>3. mem'.jobs = IF ok THEN WithStatus(first, {j}, "claimed") ELSE mem.jobs
      BY <2>2, SavedJobs
    <3>4. ASSUME NEW i \in JobIds
          PROVE  \/ first[i] = mem.jobs[i]
                 \/ /\ first[i].status = "expired" /\ mem.jobs[i].status # "none"
                    /\ first[i].grant = mem.jobs[i].grant /\ first[i].request = mem.jobs[i].request
                    /\ first[i].command = mem.jobs[i].command
                    /\ first[i].approval = mem.jobs[i].approval
                    /\ first[i].output = mem.jobs[i].output
      BY <3>1, StatusTable DEF JobStatus, Overdue
    <3>5. j \in JobIds /\ mem.jobs[j].status = "pending" /\ first[j] = mem.jobs[j]
      <4>1. j \in JobIds /\ mem.jobs[j].status = "pending" /\ j \notin {i \in Overdue : i < j}
        BY DEF Claimable, Overdue
      <4> QED
        BY <3>1, <4>1, StatusTable DEF JobStatus
    <3> HIDE DEF first
    <3>6. ASSUME NEW i \in JobIds, i # j, ok PROVE mem'.jobs[i] = first[i]
      BY <3>2, <3>3, <3>6, StatusTable DEF JobStatus
    <3>7. ASSUME ok
          PROVE  /\ Kept(j) /\ mem'.jobs[j].output = mem.jobs[j].output
                 /\ mem'.jobs[j].status = "claimed"
      BY <3>2, <3>3, <3>5, <3>7, StatusTable DEF JobStatus, Kept
    <3>8. op.pc = "idle"
      BY <1>8, Zenon DEF Claim, MutexFree
    <3> QED
      BY <3>3, <3>4, <3>5, <3>6, <3>7, <3>8 DEF JobMove, StatusMove, Moves, Kept
  <2> QED
    BY <1>0, <1>8, <2>1, <2>2, Zenon DEF Claim
<1>9. ASSUME NEW ok \in BOOLEAN, Reject(ok) PROVE \A j \in JobIds : JobMove(j)
  BY <1>0, <1>9, StatusSaved DEF Reject, JobStatus, JobMove, StatusMove, Held
<1>10. ASSUME NEW ok \in BOOLEAN, Start(ok) PROVE \A j \in JobIds : JobMove(j)
  <2> DEFINE status == IF op.job \in past.jobs THEN "expired" ELSE "running"
  <2>1. CASE SaveJobs(WithStatus(mem.jobs, {op.job}, status), ok) /\ mem.jobs[op.job].status = "claimed"
    <3>1. status \in JobStatus
      BY DEF JobStatus
    <3>2. ASSUME NEW j \in JobIds
          PROVE  \/ mem'.jobs[j] = mem.jobs[j]
                 \/ /\ ok /\ j = op.job /\ Kept(j) /\ mem'.jobs[j].output = mem.jobs[j].output
                    /\ mem'.jobs[j].status = status
      <4> HIDE DEF status
      <4> QED
        BY <2>1, <3>1, StatusSaved
    <3>3. op.pc = "start"
      BY <1>10 DEF Start
    <3> QED
      BY <2>1, <3>2, <3>3 DEF JobMove, StatusMove, Moves
  <2> QED
    BY <1>0, <1>10, <2>1 DEF Start
<1> QED
  BY <1>1, <1>2, <1>3, <1>4, <1>5, <1>6, <1>7, <1>8, <1>9, <1>10, Zenon DEF JobWrite

GrantMove(g) ==
    \/ mem'.grants[g] = mem.grants[g]
    \/ /\ ~mem.grants[g].issued
       /\ \E o \in Operators : /\ adm[o].pc = "create"
                               /\ mem'.grants[g] = [issued |-> TRUE, epoch |-> adm[o].epoch, revoked |-> FALSE]
    \/ /\ mem'.grants[g].issued = mem.grants[g].issued
       /\ mem'.grants[g].epoch = mem.grants[g].epoch /\ mem'.grants[g].revoked

\* Every write of the grants makes one of these moves of every row.
LEMMA GrantMoves ==
    ASSUME Typed, GrantWrite
    PROVE  \A g \in GrantIds : GrantMove(g)
<1>a. mem.grants \in [GrantIds -> GrantRow]
  BY DEF Typed, TypeOK, Stores
<1>1. ASSUME NEW ok \in BOOLEAN, NEW o \in Operators, NEW h \in GrantIds, CreateGrant(o, h, ok)
      PROVE  \A g \in GrantIds : GrantMove(g)
  <2>1. mem'.grants = IF ok THEN [mem.grants EXCEPT ![h] =
            [issued |-> TRUE, epoch |-> adm[o].epoch, revoked |-> FALSE]] ELSE mem.grants
    BY <1>1, SavedGrants DEF CreateGrant
  <2>2. adm[o].pc = "create" /\ ~mem.grants[h].issued
    BY <1>1 DEF CreateGrant
  <2> QED
    BY <1>a, <2>1, <2>2 DEF GrantMove
<1>2. ASSUME NEW ok \in BOOLEAN, NEW h,
             SaveGrants([mem.grants EXCEPT ![h].revoked = TRUE], ok)
      PROVE  \A g \in GrantIds : GrantMove(g)
  <2>1. mem'.grants = IF ok THEN [mem.grants EXCEPT ![h].revoked = TRUE] ELSE mem.grants
    BY <1>2, SavedGrants
  <2> QED
    BY <1>a, <2>1 DEF GrantMove, GrantRow
<1>3. ASSUME NEW ok \in BOOLEAN, NEW o \in Operators, UndoIssue(o, ok)
      PROVE  \A g \in GrantIds : GrantMove(g)
  BY <1>2, <1>3, Zenon DEF UndoIssue
<1>4. ASSUME NEW ok \in BOOLEAN, NEW h \in GrantIds, RevokeGrant(h, ok)
      PROVE  \A g \in GrantIds : GrantMove(g)
  BY <1>2, <1>4, Zenon DEF RevokeGrant
<1> QED
  BY <1>1, <1>3, <1>4, Zenon DEF GrantWrite

ApprovalMove(a) ==
    \/ mem'.approvals[a] = mem.approvals[a]
    \/ mem.approvals[a].status = "none" /\ mem'.approvals[a].status = "pending"
    \/ mem.approvals[a].status = "pending" /\ mem'.approvals[a].status = "decided"
    \/ /\ op.pc = "consume" /\ op'.pc = "publish" /\ a = mem.jobs[op.job].approval
       /\ mem'.approvals[a].status = "consumed"
       /\ mem'.approvals[a].decision = mem.approvals[a].decision

\* Every write of the approvals makes one of these moves of every row.
LEMMA ApprovalMoves ==
    ASSUME Typed, ApprovalWrite
    PROVE  \A a \in ApprovalIds : ApprovalMove(a)
<1>a. mem.approvals \in [ApprovalIds -> ApprovalRow]
  BY DEF Typed, TypeOK, Stores
<1>0. CASE UNCHANGED <<mem, disk>>
  BY <1>0 DEF ApprovalMove
<1>1. ASSUME NEW ok \in BOOLEAN, NEW o \in Operators, NEW b \in ApprovalIds, NEW d \in Decisions,
             Decide(o, b, d, ok)
      PROVE  \A a \in ApprovalIds : ApprovalMove(a)
  <2>1. mem'.approvals = IF ok THEN [mem.approvals EXCEPT ![b] =
            [@ EXCEPT !.status = "decided", !.decision = d]] ELSE mem.approvals
    BY <1>1, SavedApprovals DEF Decide
  <2>2. mem.approvals[b].status = "pending"
    BY <1>1 DEF Decide
  <2> QED
    BY <1>a, <2>1, <2>2 DEF ApprovalMove, ApprovalRow
<1>2. ASSUME NEW ok \in BOOLEAN, NEW b \in ApprovalIds, mem.approvals[b].status = "none",
             SaveApprovals([mem.approvals EXCEPT ![b] =
                     [status |-> "pending", decision |-> None, grant |-> op.grant,
                      scope |-> OpRisk.scope]], ok)
      PROVE  \A a \in ApprovalIds : ApprovalMove(a)
  <2>1. mem'.approvals = IF ok THEN [mem.approvals EXCEPT ![b] =
                     [status |-> "pending", decision |-> None, grant |-> op.grant,
                      scope |-> OpRisk.scope]] ELSE mem.approvals
    BY <1>2, SavedApprovals
  <2> QED
    BY <1>a, <1>2, <2>1 DEF ApprovalMove
<1>3. ASSUME NEW ok \in BOOLEAN, RequestApproval(ok) PROVE \A a \in ApprovalIds : ApprovalMove(a)
  BY <1>0, <1>2, <1>3, Zenon DEF RequestApproval
<1>4. ASSUME NEW ok \in BOOLEAN, ConsumeAllowOnce(ok) PROVE \A a \in ApprovalIds : ApprovalMove(a)
  <2>1. mem'.approvals = IF ok THEN [mem.approvals EXCEPT
                                       ![mem.jobs[op.job].approval].status = "consumed"]
                               ELSE mem.approvals
    BY <1>4, SavedApprovals DEF ConsumeAllowOnce
  <2>2. op.pc = "consume"
    BY <1>4 DEF ConsumeAllowOnce
  <2>3. ok => op'.pc = "publish"
    BY <1>4, <2>2, Goes DEF ConsumeAllowOnce, OpPC, OnGrant, OnCommand, OnJob
  <2> QED
    BY <1>a, <2>1, <2>2, <2>3 DEF ApprovalMove, ApprovalRow
<1> QED
  BY <1>1, <1>3, <1>4, Zenon DEF ApprovalWrite

\* No write of the outputs loses one.
LEMMA OutputMoves ==
    ASSUME Typed, OutputWrite
    PROVE  mem.outputs \subseteq mem'.outputs
<1>1. ASSUME NEW ok \in BOOLEAN, NEW j \in JobIds, NEW output \in BOOLEAN, PutOutput(j, output, ok)
      PROVE  mem.outputs \subseteq mem'.outputs
  BY <1>1, SavedOutputs DEF PutOutput
<1> QED
  BY <1>1 DEF OutputWrite

\* The log never loses an event.
LEMMA AuditGrows ==
    ASSUME Next
    PROVE  audit \subseteq audit'
<1>0. audit' = audit => audit \subseteq audit'
  OBVIOUS
<1>1. ASSUME NEW ok, NEW kind, NEW row, Append(kind, row, ok)
      PROVE  audit \subseteq audit'
  BY <1>1 DEF Append
<1>2. ASSUME NEW ok \in BOOLEAN, NEW o \in Operators, OperatorStep(o, ok)
      PROVE  audit' = audit \/ \E kind, row : Append(kind, row, ok)
  BY <1>2, Zenon DEF OperatorStep, ThrowSwitch, CancelNotRunningAll, RevokeAllAnswers, RequestEnable,
       Enable, EnableAnswers, CreateGrant, IssueAnswers, UndoIssue, Decide, DecideAnswers
<1>3. ASSUME NEW ok \in BOOLEAN, SubmissionStep(ok)
      PROVE  audit' = audit \/ \E kind, row : Append(kind, row, ok)
  BY <1>3, Zenon DEF SubmissionStep, RequestApproval, LogAndFinish, Enqueue, AuthorizeLogged,
       ConsumeAllowOnce, Publish, CancelPending
<1>4. ASSUME NEW ok \in BOOLEAN, WorkerStep(ok)
      PROVE  audit' = audit \/ \E kind, row : Append(kind, row, ok)
  BY <1>4, Zenon DEF WorkerStep, Claim, ClaimAnswers, Reject, Start, StartAnswers, PutOutput,
       Complete, CompleteAnswers, CertificateRefused
<1>5. ASSUME NEW ok \in BOOLEAN, RevokeStep(ok)
      PROVE  audit' = audit \/ \E kind, row : Append(kind, row, ok)
  BY <1>5, Zenon DEF RevokeStep, RevokeGrant, CancelPendingByGrant, RevokeAnswers
<1>6. ASSUME ReadStep \/ Restart PROVE audit' = audit
  BY <1>6, Zenon DEF ReadStep, IssueGrant, SubmitCommand, LookupRequest, MatchApproval, Authenticate,
       Approve, GuardWorkerEnabled, StartRequest, GrantLapses, JobLapses, Restart
<1> QED
  BY <1>0, <1>1, <1>2, <1>3, <1>4, <1>5, <1>6, Zenon DEF Next

\* All rows at once.
RowMoves ==
    /\ \A j \in JobIds : JobMove(j)
    /\ \A g \in GrantIds : GrantMove(g)
    /\ \A a \in ApprovalIds : ApprovalMove(a)
    /\ mem.outputs \subseteq mem'.outputs
    /\ audit \subseteq audit'

\* Every step, a failed write and a restart included, makes only such moves.
LEMMA RowsMove ==
    ASSUME Typed, Sync, [Next]_vars
    PROVE  RowMoves
<1>1. \A j \in JobIds : JobMove(j)
  BY StoreMoves, JobMoves DEF JobMove
<1>2. \A g \in GrantIds : GrantMove(g)
  BY StoreMoves, GrantMoves DEF GrantMove
<1>3. \A a \in ApprovalIds : ApprovalMove(a)
  BY StoreMoves, ApprovalMoves DEF ApprovalMove
<1>4. mem.outputs \subseteq mem'.outputs
  BY StoreMoves, OutputMoves
<1>5. audit \subseteq audit'
  BY AuditGrows DEF vars
<1> QED
  BY <1>1, <1>2, <1>3, <1>4, <1>5 DEF RowMoves

\* How the request of an operator may go on.
Snapshots(o)  == /\ ~mem.authority.disabled /\ adm'[o].pc = "create"
                 /\ adm'[o].epoch = mem.authority.epoch /\ mem' = mem /\ disk' = disk

ThrowsIt(o)   == /\ adm'[o].pc = "queue" /\ adm'[o].epoch = Killed.epoch
                 /\ ~adm'[o].failed => disk'.authority = Killed

Unqueues(o)   == /\ adm[o].pc = "queue" /\ adm'[o].pc = "revoked" /\ adm'[o].epoch = adm[o].epoch
                 /\ mem'.authority = mem.authority /\ disk'.authority = disk.authority
                 /\ ~adm'[o].failed => /\ ~adm[o].failed
                                       /\ \A j \in JobIds : mem'.jobs[j].status \notin NotRunning

AsksEnable(o) == /\ mem.authority.disabled /\ adm'[o].pc = "enable" /\ mem' = mem /\ disk' = disk
                 /\ <<"emergency.enable_requested", mem.authority.epoch>> \in audit'

AdminMove(o) ==
    \/ adm'[o] = adm[o]
    \/ adm'[o].pc \notin {"create", "queue", "revoked", "enable"}
    \/ Snapshots(o) \/ ThrowsIt(o) \/ Unqueues(o) \/ AsksEnable(o)

\* An operator's step moves that operator's handler as described, and no other.
LEMMA OperatorMoves ==
    ASSUME Typed, NEW o \in Operators, NEW ok \in BOOLEAN, OperatorStep(o, ok)
    PROVE  \A p \in Operators : AdminMove(p)
<1>a. adm \in [Operators -> Admin]
  BY DEF Typed, TypeOK
<1>b. mem.authority \in AuthorityRow
  BY DEF Typed, TypeOK, Stores
<1>c. ASSUME Done(o) PROVE \A p \in Operators : AdminMove(p)
  BY <1>a, <1>c DEF Done, Resting, AdminMove
<1>d. ASSUME NEW pc \in {"undo", "fallback"}, Step(o, pc) PROVE \A p \in Operators : AdminMove(p)
  BY <1>a, <1>d DEF Step, Admin, AdminMove
<1>e. ASSUME UNCHANGED adm PROVE \A p \in Operators : AdminMove(p)
  BY <1>e DEF AdminMove
<1>1. CASE ThrowSwitch(o, ok)
  <2>1. Killed \in AuthorityRow
    BY <1>b, FileBounds DEF Killed, Exhausted, AuthorityRow, Epochs
  <2>2. disk'.authority = IF ok THEN Killed ELSE disk.authority
    BY <1>1, <2>1, SavedAuthority DEF ThrowSwitch
  <2>3. adm' = [adm EXCEPT ![o] = [pc |-> "queue", epoch |-> Killed.epoch, row |-> 0,
                                  failed |-> ~ok \/ Exhausted, auto |-> adm[o].pc = "fallback"]]
    BY <1>1, Zenon DEF ThrowSwitch
  <2>4. ThrowsIt(o)
    BY <1>a, <2>2, <2>3 DEF ThrowsIt
  <2> QED
    BY <1>a, <2>3, <2>4 DEF AdminMove
<1>2. CASE CancelNotRunningAll(o, ok)
  <2>1. adm' = [adm EXCEPT ![o].pc = "revoked", ![o].failed = @ \/ ~ok]
    BY <1>2, Zenon DEF CancelNotRunningAll
  <2>2. adm[o].pc = "queue" /\ adm[o] \in Admin
    BY <1>2, <1>a DEF CancelNotRunningAll
  <2>3. /\ adm'[o].pc = "revoked" /\ adm'[o].epoch = adm[o].epoch
        /\ ~adm'[o].failed => ok /\ ~adm[o].failed
    BY <1>a, <2>1, <2>2 DEF Admin
  <2>4. ok => \A j \in JobIds : mem'.jobs[j].status \notin NotRunning
    <3>1. CASE SaveJobs(WithStatus(mem.jobs, JobsIn(NotRunning), "canceled"), ok)
      <4>1. mem.jobs \in [JobIds -> JobRow]
        BY DEF Typed, TypeOK, Stores
      <4>2. ok => mem'.jobs = WithStatus(mem.jobs, JobsIn(NotRunning), "canceled")
        BY <3>1, SavedJobs
      <4> QED
        BY <4>1, <4>2, StatusTable DEF JobsIn, NotRunning, JobStatus
    <3>2. CASE JobsIn(NotRunning) = {} /\ UNCHANGED <<mem, disk>>
      BY <3>2 DEF JobsIn
    <3> QED
      BY <1>2, <3>1, <3>2 DEF CancelNotRunningAll
  <2>5. mem'.authority = mem.authority /\ disk'.authority = disk.authority
    <3>1. JobWrite
      BY <1>2 DEF JobWrite
    <3> QED
      BY <3>1, JobWriteFrame DEF OthersKept
  <2>6. Unqueues(o)
    BY <2>2, <2>3, <2>4, <2>5 DEF Unqueues
  <2> QED
    BY <1>a, <2>1, <2>6 DEF AdminMove
<1>3. CASE RevokeAllAnswers(o, ok)
  BY <1>3, <1>c DEF RevokeAllAnswers
<1>4. CASE RequestEnable(o, ok)
  <2>1. CASE ok
    <3>1. mem.authority.epoch \in Nat /\ mem.authority.disabled /\ mem' = mem /\ disk' = disk
      BY <1>4, <1>b, FileBounds DEF RequestEnable, AuthorityRow, Epochs
    <3>2. <<"emergency.enable_requested", mem.authority.epoch>> \in audit'
      BY <1>4, <2>1, <3>1, Appended DEF RequestEnable, Remembered
    <3>3. adm' = [adm EXCEPT ![o].pc = "enable", ![o].epoch = mem.authority.epoch]
      BY <1>4, <2>1 DEF RequestEnable
    <3>4. adm'[o].pc = "enable" /\ \A p \in Operators : p # o => adm'[p] = adm[p]
      BY <3>3, <1>a DEF Admin
    <3> QED
      BY <3>1, <3>2, <3>4 DEF AdminMove, AsksEnable
  <2> QED
    BY <1>4, <1>e, <2>1 DEF RequestEnable
<1>5. CASE Enable(o, ok)
  <2>1. CASE adm' = [adm EXCEPT ![o].pc = "enabled", ![o].epoch = mem.authority.epoch]
    BY <2>1, <1>a DEF Admin, AdminMove
  <2> QED
    BY <1>5, <1>c, <2>1 DEF Enable
<1>6. CASE EnableAnswers(o, ok)
  BY <1>6, <1>c, <1>d DEF EnableAnswers
<1>7. ASSUME NEW g \in GrantIds, CreateGrant(o, g, ok) PROVE \A p \in Operators : AdminMove(p)
  <2>1. CASE adm' = [adm EXCEPT ![o].pc = "issued", ![o].row = g]
    BY <2>1, <1>a DEF Admin, AdminMove
  <2> QED
    BY <1>7, <1>c, <2>1 DEF CreateGrant
<1>8. CASE IssueAnswers(o, ok)
  BY <1>8, <1>c, <1>d DEF IssueAnswers
<1>9. CASE UndoIssue(o, ok)
  BY <1>9, <1>c DEF UndoIssue
<1>10. ASSUME NEW a \in ApprovalIds, NEW d \in Decisions, Decide(o, a, d, ok)
       PROVE  \A p \in Operators : AdminMove(p)
  <2>1. CASE adm' = [adm EXCEPT ![o].pc = "decided", ![o].row = a]
    BY <2>1, <1>a DEF Admin, AdminMove
  <2> QED
    BY <1>10, <1>e, <2>1 DEF Decide
<1>11. CASE DecideAnswers(o, ok)
  BY <1>11, <1>c DEF DecideAnswers
<1> QED
  BY <1>1, <1>2, <1>3, <1>4, <1>5, <1>6, <1>7, <1>8, <1>9, <1>10, <1>11 DEF OperatorStep

\* So does every step.
LEMMA AdminMoves ==
    ASSUME Typed, [Next]_vars
    PROVE  \A p \in Operators : AdminMove(p)
<1>a. adm \in [Operators -> Admin]
  BY DEF Typed, TypeOK
<1>1. ASSUME NEW ok \in BOOLEAN, NEW o \in Operators, OperatorStep(o, ok)
      PROVE  \A p \in Operators : AdminMove(p)
  BY <1>1, OperatorMoves
<1>2. ASSUME NEW o \in Operators, IssueGrant(o) PROVE \A p \in Operators : AdminMove(p)
  <2>1. /\ adm' = [adm EXCEPT ![o].pc = "create", ![o].epoch = mem.authority.epoch]
        /\ mem' = mem /\ disk' = disk /\ ~mem.authority.disabled
    BY <1>2, Zenon DEF IssueGrant
  <2>2. Snapshots(o) /\ \A p \in Operators : p # o => adm'[p] = adm[p]
    BY <2>1, <1>a DEF Admin, Snapshots
  <2> QED
    BY <2>2 DEF AdminMove
<1>3. CASE Restart
  BY <1>3 DEF Restart, Resting, AdminMove
<1>4. CASE UNCHANGED adm
  BY <1>4 DEF AdminMove
<1>5. ASSUME NEW ok \in BOOLEAN, SubmissionStep(ok) \/ WorkerStep(ok) \/ RevokeStep(ok) PROVE UNCHANGED adm
  BY <1>5, Zenon DEF SubmissionStep, WorkerStep, RevokeStep, RequestApproval, LogAndFinish, Enqueue,
       AuthorizeLogged, ConsumeAllowOnce, Publish, CancelPending, Claim, ClaimAnswers, Reject, Start,
       StartAnswers, PutOutput, Complete, CompleteAnswers, CertificateRefused, RevokeGrant,
       CancelPendingByGrant, RevokeAnswers, OpFrame, ReportFrame
<1>6. ASSUME ReadStep PROVE UNCHANGED adm \/ \E o \in Operators : IssueGrant(o)
  BY <1>6, Zenon DEF ReadStep, SubmitCommand, LookupRequest, MatchApproval, Authenticate,
       Approve, GuardWorkerEnabled, StartRequest, GrantLapses, JobLapses, OpFrame
<1> QED
  BY <1>1, <1>2, <1>3, <1>4, <1>5, <1>6, Zenon DEF Next, vars

-----------------------------------------------------------------------------
(* Epochs, enabling and outputs. *)

Epoch == disk.authority.epoch

\* No grant, issued or about to be, is of an epoch the file has not reached, and
\* a REVOKE ALL that will be confirmed is in the file.
EpochInv ==
    /\ \A g \in GrantIds : mem.grants[g].issued => mem.grants[g].epoch <= Epoch
    /\ \A o \in Operators : adm[o].pc = "create" => adm[o].epoch <= Epoch
    /\ \A o \in Operators : adm[o].pc \in {"queue", "revoked"} /\ ~adm[o].failed => adm[o].epoch <= Epoch

Asked(e, log) == \E n \in 1..e : <<"emergency.enable_requested", n>> \in log

\* An enabled state, in memory or in its file, was asked for after the first
\* REVOKE ALL; so was every Enable under way.
EnableInv ==
    /\ \A a \in {mem.authority, disk.authority} :
          /\ a.epoch > 0 /\ ~a.disabled => Asked(a.epoch, audit)
          /\ a.disabled => a.epoch > 0 \/ MaxEpoch = 0
    /\ \A o \in Operators : adm[o].pc = "enable" => Asked(mem.authority.epoch, audit) \/ MaxEpoch = 0

\* An output is in its file before the result that names it is written.
OutputInv ==
    \A j \in JobIds : /\ mem.jobs[j].output => j \in mem.outputs
                      /\ report[j].pc = "complete" /\ report[j].output => j \in mem.outputs

\* The empty stores satisfy the three invariants.
LEMMA InitStores == Init => EpochInv /\ EnableInv /\ OutputInv
<1> SUFFICES ASSUME Init PROVE EpochInv /\ EnableInv /\ OutputInv
  OBVIOUS
<1>1. EpochInv
  BY DEF Init, Empty, Resting, EpochInv
<1>2. EnableInv
  BY DEF Init, Empty, Resting, EnableInv
<1>3. OutputInv
  BY DEF Init, Empty, NoReport, OutputInv
<1> QED
  BY <1>1, <1>2, <1>3

\* No step lets a grant, or a confirmed REVOKE ALL, get ahead of the file.
LEMMA NextEpochs ==
    ASSUME Typed, Sync, EpochInv, [Next]_vars
    PROVE  EpochInv'
<1>a. /\ mem.authority \in AuthorityRow /\ disk.authority \in AuthorityRow
      /\ mem.grants \in [GrantIds -> GrantRow] /\ adm \in [Operators -> Admin]
  BY DEF Typed, TypeOK, Stores
<1>b. /\ mem.authority.epoch \in Nat /\ disk.authority.epoch \in Nat /\ disk'.authority.epoch \in Nat
      /\ \A g \in GrantIds : mem.grants[g].epoch \in Nat
      /\ \A o \in Operators : adm[o].epoch \in Nat
  <2>1. disk' \in Stores
    BY NextTyped DEF Typed, TypeOK
  <2>2. disk'.authority \in AuthorityRow
    BY <2>1 DEF Stores
  <2> QED
    BY <1>a, <2>2, FileBounds DEF AuthorityRow, GrantRow, Admin, Epochs
<1>c. disk'.authority.epoch >= disk.authority.epoch
  BY StoreMoves
<1>1. ASSUME NEW g \in GrantIds, mem'.grants[g].issued PROVE mem'.grants[g].epoch <= Epoch'
  <2>1. GrantMove(g)
    BY RowsMove DEF RowMoves
  <2>2. ASSUME NEW o \in Operators, adm[o].pc = "create",
               mem'.grants[g] = [issued |-> TRUE, epoch |-> adm[o].epoch, revoked |-> FALSE]
        PROVE  mem'.grants[g].epoch <= Epoch'
    BY <1>b, <1>c, <2>2 DEF EpochInv, Epoch
  <2>3. CASE mem'.grants[g].issued = mem.grants[g].issued /\ mem'.grants[g].epoch = mem.grants[g].epoch
    BY <1>1, <1>b, <1>c, <2>3 DEF EpochInv, Epoch
  <2> QED
    BY <2>1, <2>2, <2>3 DEF GrantMove
<1>2. ASSUME NEW o \in Operators, adm'[o].pc = "create" PROVE adm'[o].epoch <= Epoch'
  <2>1. AdminMove(o)
    BY AdminMoves
  <2>2. CASE adm'[o] = adm[o]
    BY <1>2, <1>b, <1>c, <2>2 DEF EpochInv, Epoch
  <2>3. CASE Snapshots(o)
    BY <1>b, <2>3 DEF Snapshots, Sync, Epoch
  <2> QED
    BY <1>2, <2>1, <2>2, <2>3 DEF AdminMove, ThrowsIt, Unqueues, AsksEnable
<1>3. ASSUME NEW o \in Operators, adm'[o].pc \in {"queue", "revoked"}, ~adm'[o].failed
      PROVE  adm'[o].epoch <= Epoch'
  <2>1. AdminMove(o)
    BY AdminMoves
  <2>2. CASE adm'[o] = adm[o]
    BY <1>3, <1>b, <1>c, <2>2 DEF EpochInv, Epoch
  <2>3. CASE ThrowsIt(o)
    BY <1>3, <1>b, <2>3 DEF ThrowsIt, Epoch
  <2>4. CASE Unqueues(o)
    BY <1>3, <1>b, <1>c, <2>4 DEF Unqueues, EpochInv, Epoch
  <2> QED
    BY <1>3, <2>1, <2>2, <2>3, <2>4 DEF AdminMove, Snapshots, AsksEnable
<1> QED
  BY <1>1, <1>2, <1>3 DEF EpochInv

\* A later state still remembers what was asked for, and asks no more of it.
LEMMA AskedGrows ==
    ASSUME NEW e \in Nat, NEW f \in Nat, e <= f, audit \subseteq audit', Asked(e, audit)
    PROVE  Asked(f, audit')
<1>1. PICK n \in 1..e : <<"emergency.enable_requested", n>> \in audit
  BY DEF Asked
<1>2. n \in 1..f /\ <<"emergency.enable_requested", n>> \in audit'
  BY <1>1
<1> QED
  BY <1>2 DEF Asked

\* No step enables access that nobody asked for.
LEMMA NextEnable ==
    ASSUME Typed, Sync, EnableInv, [Next]_vars
    PROVE  EnableInv'
<1>a. mem.authority \in AuthorityRow /\ disk.authority \in AuthorityRow
  BY DEF Typed, TypeOK, Stores
<1>b. /\ mem.authority.epoch \in 0..MaxEpoch /\ disk.authority.epoch \in 0..MaxEpoch
      /\ mem.authority.epoch \in Nat /\ disk.authority.epoch \in Nat /\ MaxEpoch \in Nat
  BY <1>a, FileBounds DEF AuthorityRow, Epochs
<1>c. AuthorityMove /\ audit \subseteq audit'
  BY StoreMoves, RowsMove DEF RowMoves
<1>d. Killed.epoch \in Nat /\ Killed.disabled /\ (Killed.epoch > 0 \/ MaxEpoch = 0) /\ Killed.epoch >= mem.authority.epoch
  BY <1>b DEF Killed, Exhausted
<1>e. ASSUME NEW a \in {mem.authority, disk.authority}
      PROVE  /\ a.epoch > 0 /\ ~a.disabled => Asked(a.epoch, audit')
             /\ a.disabled => a.epoch > 0 \/ MaxEpoch = 0
  <2>1. a.epoch \in Nat
    BY <1>b
  <2> QED
    BY <1>c, <2>1, AskedGrows DEF EnableInv
<1> DEFINE Fine(a) == /\ a.epoch > 0 /\ ~a.disabled => Asked(a.epoch, audit')
                      /\ a.disabled => a.epoch > 0 \/ MaxEpoch = 0
<1>1. Fine(mem'.authority) /\ Fine(disk'.authority)
  <2>0. Fine(mem.authority) /\ Fine(disk.authority) /\ Fine(Killed)
    BY <1>d, <1>e
  <2> HIDE DEF Fine
  <2>1. CASE UNCHANGED <<mem.authority, disk.authority>>
    BY <2>0, <2>1
  <2>2. CASE SwitchThrown
    BY <2>0, <2>2 DEF SwitchThrown
  <2>3. ASSUME NEW o \in Operators, adm[o].pc = "enable", SwitchEnabled
        PROVE  Fine(mem'.authority) /\ Fine(disk'.authority)
    <3>1. MaxEpoch # 0
      BY <2>3, <1>b DEF SwitchEnabled, Exhausted
    <3>2. Asked(mem.authority.epoch, audit')
      BY <2>3, <3>1, <1>b, <1>c, AskedGrows DEF EnableInv
    <3>3. mem'.authority.epoch = mem.authority.epoch /\ mem'.authority.disabled = FALSE
      BY <2>3 DEF SwitchEnabled
    <3>4. disk'.authority = mem'.authority
      BY <2>3 DEF SwitchEnabled
    <3> QED
      BY <3>2, <3>3, <3>4 DEF Fine
  <2>4. CASE mem'.authority = disk.authority /\ disk'.authority = disk.authority
    BY <2>0, <2>4
  <2> QED
    BY <1>c, <2>1, <2>2, <2>3, <2>4 DEF AuthorityMove
<1>2. ASSUME NEW o \in Operators, adm'[o].pc = "enable"
      PROVE  Asked(mem'.authority.epoch, audit') \/ MaxEpoch = 0
  <2>1. AdminMove(o)
    BY AdminMoves
  <2>2. CASE adm'[o] = adm[o] /\ mem'.authority.epoch \in Nat /\ mem'.authority.epoch >= mem.authority.epoch
    <3>1. Asked(mem.authority.epoch, audit) \/ MaxEpoch = 0
      BY <1>2, <2>2 DEF EnableInv
    <3>2. Asked(mem.authority.epoch, audit) => \E n \in 1..mem'.authority.epoch : <<"emergency.enable_requested", n>> \in audit'
      BY <2>2, <1>b, <1>c DEF Asked
    <3> QED
      BY <3>1, <3>2 DEF Asked
  <2>3. CASE AsksEnable(o)
    <3>1. mem.authority.epoch > 0 \/ MaxEpoch = 0
      BY <2>3 DEF AsksEnable, EnableInv
    <3> QED
      BY <3>1, <2>3, <1>b DEF AsksEnable, Asked
  <2>4. CASE adm'[o] = adm[o]
    <3>1. ~Restart
      BY <1>2 DEF Restart, Resting
    <3>2. mem'.authority.epoch \in Nat /\ mem'.authority.epoch >= mem.authority.epoch
      BY <3>1, <1>b, <1>c, <1>d DEF AuthorityMove, SwitchThrown, SwitchEnabled
    <3> QED
      BY <2>2, <2>4, <3>2
  <2> QED
    BY <1>2, <2>1, <2>3, <2>4 DEF AdminMove, Snapshots, ThrowsIt, Unqueues
<1> QED
  BY <1>1, <1>2 DEF EnableInv

\* No step records a result whose output is not in its file.
LEMMA NextOutputs ==
    ASSUME Typed, Sync, OutputInv, [Next]_vars
    PROVE  OutputInv'
<1>a. report \in [JobIds -> Report]
  BY DEF Typed, TypeOK
<1>b. mem.outputs \subseteq mem'.outputs
  BY RowsMove DEF RowMoves
<1>1. ASSUME NEW j \in JobIds, mem'.jobs[j].output PROVE j \in mem'.outputs
  <2>1. JobMove(j)
    BY RowsMove DEF RowMoves
  <2>2. ~Enqueued(j)
    BY <1>1 DEF Enqueued
  <2>3. mem.jobs[j].output \/ (report[j].pc = "complete" /\ report[j].output)
    BY <1>1, <2>1, <2>2, Zenon DEF JobMove, StatusMove, ResultMove
  <2> QED
    BY <1>b, <2>3, Zenon DEF OutputInv
<1>2. ASSUME NEW j \in JobIds, report'[j].pc = "complete", report'[j].output PROVE j \in mem'.outputs
  <2>1. CASE report'[j] = report[j]
    BY <1>2, <1>b, <2>1 DEF OutputInv
  <2>2. ASSUME NEW ok \in BOOLEAN, NEW i \in JobIds, NEW output \in BOOLEAN, PutOutput(i, output, ok)
        PROVE  j \in mem'.outputs
    <3>1. CASE ok /\ i = j
      <4>1. report'[j].output = output
        BY <1>a, <2>2, <3>1 DEF PutOutput
      <4>2. SaveOutputs(mem.outputs \cup {j}, ok)
        BY <1>2, <2>2, <3>1, <4>1 DEF PutOutput
      <4>3. mem'.outputs = mem.outputs \cup {j}
        BY <3>1, <4>2, SavedOutputs
      <4> QED
        BY <4>3
    <3>2. CASE ~ok \/ i # j
      BY <1>a, <2>1, <2>2, <3>2 DEF PutOutput
    <3> QED
      BY <3>1, <3>2
  <2>3. ASSUME NEW ok \in BOOLEAN, NEW i \in JobIds, NEW success \in BOOLEAN,
               Complete(i, success, ok) \/ CompleteAnswers(i, ok)
        PROVE  j \in mem'.outputs
    <3>1. i # j => report'[j] = report[j]
      BY <1>a, <2>3 DEF Complete, CompleteAnswers
    <3>2. i = j => report'[j].pc # "complete"
      BY <1>a, <2>3 DEF Complete, CompleteAnswers, NoReport, Report
    <3> QED
      BY <1>2, <2>1, <3>1, <3>2
  <2>4. ~Restart
    BY <1>2 DEF Restart, NoReport
  <2>5. \/ report' = report
        \/ \E ok \in BOOLEAN :
             \/ \E i \in JobIds, output \in BOOLEAN : PutOutput(i, output, ok)
             \/ \E i \in JobIds, success \in BOOLEAN : Complete(i, success, ok)
             \/ \E i \in JobIds : CompleteAnswers(i, ok)
    <3>1. ASSUME NEW ok \in BOOLEAN, NEW o \in Operators, OperatorStep(o, ok) PROVE report' = report
      BY <3>1, Zenon DEF OperatorStep, ThrowSwitch, CancelNotRunningAll, RevokeAllAnswers, RequestEnable,
           Enable, EnableAnswers, CreateGrant, IssueAnswers, UndoIssue, Decide, DecideAnswers, AdminFrame
    <3>2. ASSUME NEW ok \in BOOLEAN, SubmissionStep(ok) \/ RevokeStep(ok) PROVE report' = report
      BY <3>2, Zenon DEF SubmissionStep, RevokeStep, RequestApproval, LogAndFinish, Enqueue, AuthorizeLogged,
           ConsumeAllowOnce, Publish, CancelPending, RevokeGrant, CancelPendingByGrant, RevokeAnswers, OpFrame
    <3>3. ASSUME NEW ok \in BOOLEAN, WorkerStep(ok)
          PROVE  \/ report' = report
                 \/ \E i \in JobIds, output \in BOOLEAN : PutOutput(i, output, ok)
                 \/ \E i \in JobIds, success \in BOOLEAN : Complete(i, success, ok)
                 \/ \E i \in JobIds : CompleteAnswers(i, ok)
      BY <3>3, Zenon DEF WorkerStep, Claim, ClaimAnswers, Reject, Start, StartAnswers, CertificateRefused, OpFrame
    <3>4. ASSUME ReadStep PROVE report' = report
      BY <3>4, Zenon DEF ReadStep, IssueGrant, SubmitCommand, LookupRequest, MatchApproval, Authenticate,
           Approve, GuardWorkerEnabled, StartRequest, GrantLapses, JobLapses, OpFrame, AdminFrame
    <3> QED
      BY <2>4, <3>1, <3>2, <3>3, <3>4, Zenon DEF Next, vars
  <2> QED
    BY <2>1, <2>2, <2>3, <2>5
<1> QED
  BY <1>1, <1>2 DEF OutputInv

StoreInv == Typed /\ Sync /\ EpochInv /\ EnableInv /\ OutputInv

\* The invariants of the stores hold in every reachable state.
LEMMA StoresAlways == Spec => []StoreInv
<1>1. Init => StoreInv
  BY InitTyped, InitSync, InitStores DEF StoreInv
<1>2. StoreInv /\ [Next]_vars => StoreInv'
  BY NextTyped, StoreMoves, NextEpochs, NextEnable, NextOutputs DEF StoreInv
<1> QED
  BY <1>1, <1>2, PTL DEF Spec

\* Whatever fails, no grant is of an epoch that the files have not reached, and a
\* result reported with an output has that output in its file.
THEOREM FilesStayConsistent == Spec => []FilesConsistent
<1>1. StoreInv => FilesConsistent
  BY DEF StoreInv, EpochInv, OutputInv, Sync, Epoch, FilesConsistent, GrantEpochsDurable, OutputBeforeResult
<1> QED
  BY <1>1, StoresAlways, PTL

\* After the first REVOKE ALL access is enabled only if a later request to enable
\* it is in the audit log, across failed writes and restarts.
THEOREM EnablingIsRequested == Spec => []EnabledWasRequested
<1>1. StoreInv => EnabledWasRequested
  BY DEF StoreInv, EnableInv, Asked, EnabledWasRequested
<1> QED
  BY <1>1, StoresAlways, PTL

-----------------------------------------------------------------------------
(* How the handler that holds executionMu may go on. *)

Authorized(j) == <<"execution.job_authorized", j>> \in audit

OpQuits     == op'.pc \in {"idle", "denied", "requested"}
OpFails     == op.pc \in OnJob /\ op'.pc \in {"cancel", "reject", "rejected"} /\ op'.job = op.job
OpSubmits   == /\ op'.pc = "lookup" /\ op'.approval = 0 /\ mem' = mem
               /\ op'.grant \in GrantIds /\ mem.grants[op'.grant].issued
OpRoutes    == /\ op.pc = "lookup" /\ mem' = mem
               /\ op'.grant = op.grant /\ op'.command = op.command /\ op'.approval = op.approval
               /\ \/ op'.pc = "enqueue"
                  \/ op'.pc = "match" /\ Risk[op.command].decision = "approval_required"
OpUnmatched == op.pc = "match" /\ op'.pc = "request" /\ op'.grant = op.grant /\ mem' = mem
OpMatches   == /\ op.pc = "match" /\ op'.pc = "enqueue" /\ mem' = mem
               /\ op'.grant = op.grant /\ op'.command = op.command
               /\ op'.approval \in ApprovalIds /\ mem.approvals[op'.approval].status = "decided"
OpTakes     == /\ op'.pc = "authenticate" /\ op'.job \in JobIds
               /\ \/ mem' = mem /\ mem.jobs[op'.job].status = "staged"
                  \/ Enqueued(op'.job)
OpPasses    == /\ op.pc = "authenticate" /\ op'.pc = "approve" /\ op'.job = op.job /\ mem' = mem
               /\ mem.jobs[op.job].status = "staged" /\ Live(mem.jobs[op.job].grant)
               /\ disk' = disk /\ UNCHANGED <<adm, dead>>
OpApproves  == /\ op.pc = "approve" /\ op'.pc = "authorize" /\ op'.job = op.job /\ mem' = mem
               /\ Risk[mem.jobs[op.job].command].decision = "allow" \/ ApprovalHolds(op.job)
OpLogs      == /\ op.pc = "authorize" /\ op'.pc \in {"consume", "publish"} /\ op'.job = op.job
               /\ mem' = mem /\ <<"execution.job_authorized", op.job>> \in audit'
               /\ op'.pc = "consume" <=> NeedsConsumption(op.job)
OpConsumes  == /\ op.pc = "consume" /\ op'.pc = "publish" /\ op'.job = op.job
               /\ mem'.jobs = mem.jobs
               /\ mem'.approvals = [mem.approvals EXCEPT ![mem.jobs[op.job].approval].status = "consumed"]
OpClaims    == op'.pc = "claimed" /\ op'.job \in JobIds /\ mem.jobs[op'.job].status = "pending"
OpStarts    == /\ op'.pc \in {"start", "reject"} /\ op'.job \in holds /\ mem' = mem
               /\ op'.pc = "start" => Live(mem.jobs[op'.job].grant)
               /\ disk' = disk /\ UNCHANGED <<adm, dead>>
OpStarted   == op.pc = "start" /\ op'.pc = "started" /\ op'.job = op.job
OpRevokes   == /\ op'.pc = "unqueue" /\ op'.grant \in GrantIds
               /\ mem'.grants[op'.grant].issued /\ mem'.grants[op'.grant].revoked
OpUnqueues  == op.pc = "unqueue" /\ op'.pc = "revoked" /\ op'.grant = op.grant

OpMove ==
    \/ op' = op \/ OpQuits \/ OpFails \/ OpSubmits \/ OpRoutes \/ OpUnmatched \/ OpMatches
    \/ OpTakes \/ OpPasses \/ OpApproves \/ OpLogs \/ OpConsumes \/ OpClaims \/ OpStarts
    \/ OpStarted \/ OpRevokes \/ OpUnqueues

\* A write of a submission moves the handler as described.
LEMMA SubmissionMoves ==
    ASSUME Typed, NEW ok \in BOOLEAN, SubmissionStep(ok)
    PROVE  OpMove
<1>0. ASSUME Finish PROVE OpMove
  BY <1>0, Ends DEF OpMove, OpQuits
<1>fail. ASSUME Goto("cancel"), op.pc \in OnJob PROVE OpMove
  <2>1. op'.pc = "cancel" /\ op'.job = op.job
    BY <1>fail, Goes DEF OpPC, OnGrant, OnCommand, OnJob
  <2> QED
    BY <1>fail, <2>1 DEF OpMove, OpFails
<1>1. CASE RequestApproval(ok)
  <2>1. Finish \/ \E a \in ApprovalIds : op' = Matched("requested", a)
    BY <1>1, Zenon DEF RequestApproval, Matched
  <2>2. ASSUME NEW a \in ApprovalIds, op' = Matched("requested", a) PROVE OpMove
    <3>1. op'.pc = "requested"
      BY <2>2, Matches DEF OpPC, OnGrant, OnCommand, OnJob
    <3> QED
      BY <3>1 DEF OpMove, OpQuits
  <2> QED
    BY <1>0, <2>1, <2>2
<1>2. CASE LogAndFinish(ok)
  BY <1>0, <1>2 DEF LogAndFinish
<1>3. ASSUME NEW j \in JobIds, Enqueue(j, ok) PROVE OpMove
  <2>1. CASE ok
    <3>1. op' = Taken("authenticate", j)
      BY <1>3, <2>1 DEF Enqueue, Taken
    <3>2. op'.pc = "authenticate" /\ op'.job = j
      BY <3>1, Takes DEF OpPC, OnGrant, OnCommand
    <3>3. Enqueued(j)
      <4>1. mem'.jobs = [mem.jobs EXCEPT ![j] =
              [status |-> "staged", grant |-> op.grant, request |-> op.request,
               command |-> op.command, approval |-> op.approval, output |-> FALSE]]
        BY <1>3, <2>1, SavedJobs DEF Enqueue
      <4>2. mem.jobs \in [JobIds -> JobRow]
        BY DEF Typed, TypeOK, Stores
      <4>3. op.pc = "enqueue" /\ mem.jobs[j].status = "none"
        BY <1>3 DEF Enqueue
      <4> QED
        BY <4>1, <4>2, <4>3 DEF Enqueued
    <3> QED
      BY <3>2, <3>3 DEF OpMove, OpTakes
  <2> QED
    BY <1>0, <1>3, <2>1 DEF Enqueue
<1>4. CASE AuthorizeLogged(ok)
  <2>1. CASE ok
    <3> DEFINE pc == IF NeedsConsumption(op.job) THEN "consume" ELSE "publish"
    <3>1. Goto(pc) /\ op.pc = "authorize" /\ mem' = mem /\ pc \in {"consume", "publish"}
      BY <1>4, <2>1 DEF AuthorizeLogged
    <3>2. op.job \in Nat
      BY FileBounds DEF Typed, TypeOK, Handler
    <3>3. <<"execution.job_authorized", op.job>> \in audit'
      BY <1>4, <2>1, <3>2, Appended DEF AuthorizeLogged, Remembered
    <3>4. pc = "consume" <=> NeedsConsumption(op.job)
      OBVIOUS
    <3> HIDE DEF pc
    <3>5. op'.pc = pc /\ op'.job = op.job
      BY <3>1, Goes DEF OpPC, OnGrant, OnCommand, OnJob
    <3> QED
      BY <3>1, <3>3, <3>4, <3>5 DEF OpMove, OpLogs
  <2> QED
    BY <1>fail, <1>4, <2>1 DEF AuthorizeLogged, OnJob
<1>5. CASE ConsumeAllowOnce(ok)
  <2>1. CASE ok
    <3>1. Goto("publish") /\ op.pc = "consume"
      BY <1>5, <2>1 DEF ConsumeAllowOnce
    <3>2. op'.pc = "publish" /\ op'.job = op.job
      BY <3>1, Goes DEF OpPC, OnGrant, OnCommand, OnJob
    <3>3. /\ mem'.approvals = [mem.approvals EXCEPT ![mem.jobs[op.job].approval].status = "consumed"]
          /\ mem'.jobs = mem.jobs
      BY <1>5, <2>1, SavedApprovals DEF ConsumeAllowOnce
    <3> QED
      BY <3>1, <3>2, <3>3 DEF OpMove, OpConsumes
  <2> QED
    BY <1>fail, <1>5, <2>1 DEF ConsumeAllowOnce, OnJob
<1>6. CASE Publish(ok)
  BY <1>0, <1>fail, <1>6 DEF Publish, OnJob
<1>7. CASE CancelPending(ok)
  BY <1>0, <1>7 DEF CancelPending
<1> QED
  BY <1>1, <1>2, <1>3, <1>4, <1>5, <1>6, <1>7, Zenon DEF SubmissionStep

\* So does a write of the worker's handlers.
LEMMA WorkerMoves ==
    ASSUME Typed, NEW ok \in BOOLEAN, WorkerStep(ok)
    PROVE  OpMove
<1>0. ASSUME Finish PROVE OpMove
  BY <1>0, Ends DEF OpMove, OpQuits
<1>fail. ASSUME NEW pc \in {"reject", "rejected"}, Goto(pc), op.pc \in OnJob PROVE OpMove
  <2>1. op'.pc = pc /\ op'.job = op.job
    BY <1>fail, Goes DEF OpPC, OnGrant, OnCommand, OnJob
  <2> QED
    BY <1>fail, <2>1 DEF OpMove, OpFails
<1>1. CASE Claim(ok)
  <2>1. UNCHANGED op \/ \E j \in Claimable : op' = Claiming(j)
    BY <1>1, Zenon DEF Claim, Claiming
  <2>2. ASSUME NEW j \in Claimable, op' = Claiming(j) PROVE OpMove
    <3>1. j \in JobIds /\ mem.jobs[j].status = "pending"
      BY DEF Claimable
    <3>2. op'.pc = "claimed" /\ op'.job = j
      BY <2>2, <3>1, Begins DEF OpPC, OnGrant, OnCommand
    <3> QED
      BY <3>1, <3>2 DEF OpMove, OpClaims
  <2> QED
    BY <2>1, <2>2 DEF OpMove
<1>2. CASE ClaimAnswers(ok)
  BY <1>0, <1>fail, <1>2 DEF ClaimAnswers, OnJob
<1>3. CASE Reject(ok)
  BY <1>0, <1>fail, <1>3 DEF Reject, OnJob
<1>4. CASE Start(ok)
  <2>1. CASE Goto("started")
    <3>1. op.pc = "start"
      BY <1>4 DEF Start
    <3>2. op'.pc = "started" /\ op'.job = op.job
      BY <2>1, <3>1, Goes DEF OpPC, OnGrant, OnCommand, OnJob
    <3> QED
      BY <3>1, <3>2 DEF OpMove, OpStarted
  <2> QED
    BY <1>0, <1>4, <2>1 DEF Start
<1>5. CASE StartAnswers(ok)
  BY <1>0, <1>fail, <1>5 DEF StartAnswers, OnJob
<1>6. CASE UNCHANGED op
  BY <1>6 DEF OpMove
<1> QED
  BY <1>1, <1>2, <1>3, <1>4, <1>5, <1>6, Zenon DEF WorkerStep, PutOutput, Complete, CompleteAnswers,
       CertificateRefused, ReportFrame

\* So does a write of a single grant's revocation.
LEMMA RevokeMoves ==
    ASSUME Typed, NEW ok \in BOOLEAN, RevokeStep(ok)
    PROVE  OpMove
<1>1. ASSUME NEW g \in GrantIds, RevokeGrant(g, ok) PROVE OpMove
  <2>1. CASE ok
    <3>1. op' = Revoking(g)
      BY <1>1, <2>1 DEF RevokeGrant, Revoking
    <3>2. op'.pc = "unqueue" /\ op'.grant = g
      BY <3>1, BeginsGrant
    <3>3. mem'.grants = [mem.grants EXCEPT ![g].revoked = TRUE] /\ mem.grants[g].issued
      BY <1>1, <2>1, SavedGrants DEF RevokeGrant
    <3>4. mem.grants \in [GrantIds -> GrantRow]
      BY DEF Typed, TypeOK, Stores
    <3>5. mem'.grants[g].issued /\ mem'.grants[g].revoked
      BY <3>3, <3>4 DEF GrantRow
    <3> QED
      BY <3>2, <3>5 DEF OpMove, OpRevokes
  <2> QED
    BY <1>1, <2>1 DEF RevokeGrant, OpMove
<1>2. CASE CancelPendingByGrant(ok)
  <2>1. op' = [op EXCEPT !.pc = "revoked", !.failed = ~ok] /\ op.pc = "unqueue"
    BY <1>2, Zenon DEF CancelPendingByGrant
  <2>2. op'.pc = "revoked" /\ op'.grant = op.grant
    BY <2>1 DEF Typed, TypeOK, Handler
  <2> QED
    BY <2>1, <2>2 DEF OpMove, OpUnqueues
<1>3. CASE RevokeAnswers(ok)
  BY <1>3, Ends DEF RevokeAnswers, OpMove, OpQuits
<1> QED
  BY <1>1, <1>2, <1>3 DEF RevokeStep

\* So does a step that only reads.
LEMMA ReadMoves ==
    ASSUME Typed, ReadStep
    PROVE  OpMove
<1>0. ASSUME Finish \/ Goto("denied"), op.pc \in OnCommand \cup OnJob PROVE OpMove
  <2>1. Goto("denied") => op'.pc = "denied"
    BY <1>0, Goes DEF OpPC, OnGrant, OnCommand, OnJob
  <2> QED
    BY <1>0, <2>1, Ends DEF OpMove, OpQuits
<1>fail. ASSUME Goto("cancel"), op.pc \in OnJob PROVE OpMove
  <2>1. op'.pc = "cancel" /\ op'.job = op.job
    BY <1>fail, Goes DEF OpPC, OnGrant, OnCommand, OnJob
  <2> QED
    BY <1>fail, <2>1 DEF OpMove, OpFails
<1>1. CASE UNCHANGED op
  BY <1>1 DEF OpMove
<1>2. ASSUME NEW g \in GrantIds, NEW r \in Requests, NEW c \in Commands, SubmitCommand(g, r, c)
      PROVE  OpMove
  <2>1. op' = Submitting(g, r, c) /\ mem' = mem /\ Live(g)
    BY <1>2 DEF SubmitCommand, Submitting
  <2>2. op'.pc = "lookup" /\ op'.approval = 0 /\ op'.grant = g
    BY <2>1, BeginsCommand
  <2>3. mem.grants[g].issued
    BY <2>1 DEF Live
  <2> QED
    BY <2>1, <2>2, <2>3 DEF OpMove, OpSubmits
<1>3. CASE LookupRequest
  <2>a. op.pc = "lookup" /\ mem' = mem
    BY <1>3, Zenon DEF LookupRequest
  <2>b. op.command \in Commands
    BY <2>a DEF Typed, HandlerBound, OnCommand
  <2>1. CASE Finish \/ Goto("denied")
    BY <1>0, <2>a, <2>1 DEF OnCommand
  <2>2. ASSUME NEW j \in ByRequest(op.grant, op.request), mem.jobs[j].status = "staged",
               op' = Taken("authenticate", j)
        PROVE  OpMove
    <3>1. j \in JobIds
      BY DEF ByRequest
    <3>2. op'.pc = "authenticate" /\ op'.job = j
      BY <2>2, <3>1, Takes DEF OpPC, OnGrant, OnCommand
    <3> QED
      BY <2>a, <2>2, <3>1, <3>2 DEF OpMove, OpTakes
  <2>3. ASSUME Goto("enqueue") PROVE OpMove
    <3>1. op'.pc = "enqueue" /\ op'.grant = op.grant /\ op'.command = op.command /\ op'.approval = op.approval
      BY <2>3, <2>a, Goes DEF OpPC, OnGrant, OnCommand, OnJob
    <3> QED
      BY <2>a, <3>1 DEF OpMove, OpRoutes
  <2>4. CASE Goto("match") /\ Risk[op.command].decision = "approval_required"
    <3>1. op'.pc = "match" /\ op'.grant = op.grant /\ op'.command = op.command /\ op'.approval = op.approval
      BY <2>4, <2>a, Goes DEF OpPC, OnGrant, OnCommand, OnJob
    <3> QED
      BY <2>a, <2>4, <3>1 DEF OpMove, OpRoutes
  <2>5. CASE Route
    <3>1. OpRisk.decision \in {"allow", "approval_required", "deny"}
      BY <2>b, FileData DEF OpRisk, RiskResult
    <3>2. CASE OpRisk.decision = "deny"
      BY <2>1, <2>5, <3>2 DEF Route
    <3>3. CASE OpRisk.decision = "allow"
      BY <2>3, <2>5, <3>3 DEF Route
    <3>4. CASE OpRisk.decision = "approval_required"
      BY <2>4, <2>5, <3>4 DEF Route, OpRisk
    <3> QED
      BY <3>1, <3>2, <3>3, <3>4
  <2>6. ASSUME NEW j \in ByRequest(op.grant, op.request), AnswerFrom(j)
        PROVE  Finish \/ (mem.jobs[j].status = "staged" /\ op' = Taken("authenticate", j))
    BY <2>6 DEF AnswerFrom, Taken
  <2>7. Route \/ \E j \in ByRequest(op.grant, op.request) : AnswerFrom(j)
    BY <1>3, Zenon DEF LookupRequest
  <2> QED
    BY <2>1, <2>2, <2>5, <2>6, <2>7
<1>4. CASE MatchApproval
  <2>a. op.pc = "match" /\ mem' = mem
    BY <1>4, Zenon DEF MatchApproval
  <2>1. CASE Goto("request")
    <3>1. op'.pc = "request" /\ op'.grant = op.grant
      BY <2>a, <2>1, Goes DEF OpPC, OnGrant, OnCommand, OnJob
    <3> QED
      BY <2>a, <3>1 DEF OpMove, OpUnmatched
  <2>2. CASE Goto("denied")
    BY <1>0, <2>a, <2>2 DEF OnCommand
  <2>3. ASSUME NEW a \in Matching, op' = Matched("enqueue", a) PROVE OpMove
    <3>1. a \in ApprovalIds /\ mem.approvals[a].status = "decided"
      BY DEF Matching
    <3>2. /\ op'.pc = "enqueue" /\ op'.grant = op.grant /\ op'.command = op.command
          /\ op'.approval = a
      BY <2>a, <2>3, <3>1, Matches DEF OpPC, OnGrant, OnCommand, OnJob
    <3> QED
      BY <2>a, <3>1, <3>2 DEF OpMove, OpMatches
  <2> QED
    BY <1>4, <2>1, <2>2, <2>3, ReadOutcomes
<1>5. CASE Authenticate
  <2>a. op.pc = "authenticate" /\ mem' = mem /\ disk' = disk /\ UNCHANGED <<adm, dead>>
    BY <1>5, Zenon DEF Authenticate, OpFrame
  <2>1. CASE Goto("approve") /\ mem.jobs[op.job].status = "staged" /\ Live(mem.jobs[op.job].grant)
    <3>1. op'.pc = "approve" /\ op'.job = op.job
      BY <2>a, <2>1, Goes DEF OpPC, OnGrant, OnCommand, OnJob
    <3> QED
      BY <2>a, <2>1, <3>1 DEF OpMove, OpPasses
  <2> QED
    BY <1>0, <1>fail, <1>5, <2>a, <2>1, ReadOutcomes DEF OnJob
<1>6. CASE Approve
  <2>a. op.pc = "approve" /\ mem' = mem
    BY <1>6, Zenon DEF Approve
  <2>1. CASE /\ Goto("authorize")
             /\ Risk[mem.jobs[op.job].command].decision = "allow" \/ ApprovalHolds(op.job)
    <3>1. op'.pc = "authorize" /\ op'.job = op.job
      BY <2>a, <2>1, Goes DEF OpPC, OnGrant, OnCommand, OnJob
    <3> QED
      BY <2>a, <2>1, <3>1 DEF OpMove, OpApproves
  <2> QED
    BY <1>fail, <1>6, <2>a, <2>1, ReadOutcomes DEF OnJob
<1>7. ASSUME NEW j \in JobIds, StartRequest(j) PROVE OpMove
  <2> DEFINE l == Live(mem.jobs[j].grant)
             pc == IF l THEN "start" ELSE "reject"
  <2>1. op' = Starting(pc, j, ~l)
    BY <1>7 DEF StartRequest, Starting
  <2>2. /\ pc \in OpPC /\ pc \notin OnGrant \cup OnCommand /\ (~l) \in BOOLEAN
        /\ pc \in {"start", "reject"} /\ (pc = "start" => Live(mem.jobs[j].grant))
    BY DEF OpPC, OnGrant, OnCommand
  <2>3. j \in holds /\ mem' = mem /\ disk' = disk /\ UNCHANGED <<adm, dead>>
    BY <1>7 DEF StartRequest, OpFrame
  <2> HIDE DEF l, pc
  <2>4. op'.pc = pc /\ op'.job = j
    BY <2>1, <2>2, Begins
  <2> QED
    BY <2>2, <2>3, <2>4 DEF OpMove, OpStarts
<1> QED
  BY <1>1, <1>2, <1>3, <1>4, <1>5, <1>6, <1>7, Zenon DEF ReadStep, IssueGrant, AdminFrame,
       GuardWorkerEnabled, GrantLapses, JobLapses

\* So does every step.
LEMMA OpMoves ==
    ASSUME Typed, [Next]_vars
    PROVE  OpMove
<1>1. ASSUME NEW ok \in BOOLEAN, NEW o \in Operators, OperatorStep(o, ok) PROVE op' = op
  BY <1>1, Zenon DEF OperatorStep, ThrowSwitch, CancelNotRunningAll, RevokeAllAnswers, RequestEnable,
       Enable, EnableAnswers, CreateGrant, IssueAnswers, UndoIssue, Decide, DecideAnswers, AdminFrame
<1>2. ASSUME Restart PROVE OpMove
  BY <1>2, RestartTyped DEF OpMove, OpQuits, Idle
<1>3. CASE op' = op
  BY <1>3 DEF OpMove
<1> QED
  BY <1>1, <1>2, <1>3, SubmissionMoves, WorkerMoves, RevokeMoves, ReadMoves DEF Next, vars

\* What workers are told, and what the history remembers.
HoldsMove ==
    \/ holds' = holds
    \/ /\ op.pc = "claimed" /\ holds' = holds \cup {op.job}
       /\ <<"execution.job_claimed", op.job>> \in audit'

ToldMove ==
    \/ told' = told
    \/ /\ op.pc = "started" /\ told' = told \cup {op.job}
       /\ <<"execution.job_started", op.job>> \in audit'

PublishedMove ==
    \/ published' = published
    \/ /\ op.pc = "publish" /\ published' = published \cup {op.job}
       /\ op'.pc = "idle" /\ mem'.approvals = mem.approvals
       /\ mem.jobs[op.job].status = "staged" /\ mem'.jobs[op.job].status = "pending"

Covered(o) == {g \in GrantIds : mem.grants[g].issued /\ mem.grants[g].epoch < adm[o].epoch}

DeadMove ==
    \/ dead' = dead
    \/ op.pc = "revoked" /\ dead' = dead \cup {op.grant} /\ op'.pc = "idle" /\ mem' = mem
    \/ /\ \E o \in Operators : /\ adm[o].pc = "revoked" /\ ~adm[o].failed
                               /\ dead' = dead \cup Covered(o)
       /\ mem' = mem /\ op' = op

\* Every step changes what was told, published or revoked only as described.
LEMMA HistoryMoves ==
    ASSUME Typed, [Next]_vars
    PROVE  HoldsMove /\ ToldMove /\ PublishedMove /\ DeadMove
<1>0. CASE UNCHANGED <<holds, told, published, dead>>
  BY <1>0 DEF HoldsMove, ToldMove, PublishedMove, DeadMove
<1>a. op.job \in Nat
  BY FileBounds DEF Typed, TypeOK, Handler
<1>1. ASSUME NEW ok \in BOOLEAN, ClaimAnswers(ok)
      PROVE  HoldsMove /\ ToldMove /\ PublishedMove /\ DeadMove
  <2>1. HoldsMove
    <3>1. CASE ok
      <4>1. <<"execution.job_claimed", op.job>> \in audit'
        BY <1>1, <1>a, <3>1, Appended DEF ClaimAnswers, Remembered
      <4> QED
        BY <1>1, <3>1, <4>1 DEF ClaimAnswers, HoldsMove
    <3> QED
      BY <1>1, <3>1 DEF ClaimAnswers, HoldsMove
  <2> QED
    BY <1>1, <2>1 DEF ClaimAnswers, ToldMove, PublishedMove, DeadMove
<1>2. ASSUME NEW ok \in BOOLEAN, StartAnswers(ok)
      PROVE  HoldsMove /\ ToldMove /\ PublishedMove /\ DeadMove
  <2>1. ToldMove
    <3>1. CASE ok
      <4>1. <<"execution.job_started", op.job>> \in audit'
        BY <1>2, <1>a, <3>1, Appended DEF StartAnswers, Remembered
      <4> QED
        BY <1>2, <3>1, <4>1 DEF StartAnswers, ToldMove
    <3> QED
      BY <1>2, <3>1 DEF StartAnswers, ToldMove
  <2> QED
    BY <1>2, <2>1 DEF StartAnswers, HoldsMove, PublishedMove, DeadMove
<1>3. ASSUME NEW ok \in BOOLEAN, Publish(ok)
      PROVE  HoldsMove /\ ToldMove /\ PublishedMove /\ DeadMove
  <2>1. PublishedMove
    <3>1. CASE ok /\ op.job \notin past.jobs /\ mem.jobs[op.job].status = "staged"
      <4>1. op.pc = "publish" /\ op.job \in JobIds
        BY <1>3 DEF Publish, Typed, HandlerBound, OnJob
      <4>2. SaveJobs(WithStatus(mem.jobs, {op.job}, "pending"), ok)
        BY <1>3, <3>1 DEF Publish
      <4>3. mem.jobs \in [JobIds -> JobRow]
        BY DEF Typed, TypeOK, Stores
      <4>4. mem'.jobs = WithStatus(mem.jobs, {op.job}, "pending") /\ mem'.approvals = mem.approvals
        BY <3>1, <4>2, SavedJobs
      <4>5. mem'.jobs[op.job].status = "pending"
        BY <4>1, <4>3, <4>4, StatusTable DEF JobStatus
      <4>6. published' = published \cup {op.job} /\ Finish
        BY <1>3, <3>1 DEF Publish
      <4> QED
        BY <3>1, <4>1, <4>4, <4>5, <4>6, Ends DEF PublishedMove
    <3>2. CASE ~(ok /\ op.job \notin past.jobs /\ mem.jobs[op.job].status = "staged")
      BY <1>3, <3>2 DEF Publish, PublishedMove
    <3> QED
      BY <3>1, <3>2
  <2> QED
    BY <1>3, <2>1 DEF Publish, HoldsMove, ToldMove, DeadMove
<1>4. ASSUME NEW ok \in BOOLEAN, RevokeAnswers(ok)
      PROVE  HoldsMove /\ ToldMove /\ PublishedMove /\ DeadMove
  BY <1>4, Ends DEF RevokeAnswers, HoldsMove, ToldMove, PublishedMove, DeadMove
<1>5. ASSUME NEW ok \in BOOLEAN, NEW o \in Operators, RevokeAllAnswers(o, ok)
      PROVE  HoldsMove /\ ToldMove /\ PublishedMove /\ DeadMove
  <2>1. DeadMove
    BY <1>5 DEF RevokeAllAnswers, AdminFrame, DeadMove, Covered
  <2> QED
    BY <1>5, <2>1 DEF RevokeAllAnswers, AdminFrame, HoldsMove, ToldMove, PublishedMove
<1>6. ASSUME NEW ok \in BOOLEAN, NEW o \in Operators, OperatorStep(o, ok)
      PROVE  UNCHANGED <<holds, told, published, dead>> \/ RevokeAllAnswers(o, ok)
  BY <1>6, Zenon DEF OperatorStep, ThrowSwitch, CancelNotRunningAll, RequestEnable,
       Enable, EnableAnswers, CreateGrant, IssueAnswers, UndoIssue, Decide, DecideAnswers, AdminFrame
<1>7. ASSUME NEW ok \in BOOLEAN, SubmissionStep(ok)
      PROVE  UNCHANGED <<holds, told, published, dead>> \/ Publish(ok)
  BY <1>7, Zenon DEF SubmissionStep, RequestApproval, LogAndFinish, Enqueue, AuthorizeLogged,
       ConsumeAllowOnce, CancelPending
<1>8. ASSUME NEW ok \in BOOLEAN, WorkerStep(ok)
      PROVE  UNCHANGED <<holds, told, published, dead>> \/ ClaimAnswers(ok) \/ StartAnswers(ok)
  BY <1>8, Zenon DEF WorkerStep, Claim, Reject, Start, PutOutput, Complete, CompleteAnswers,
       CertificateRefused, ReportFrame
<1>9. ASSUME NEW ok \in BOOLEAN, RevokeStep(ok)
      PROVE  UNCHANGED <<holds, told, published, dead>> \/ RevokeAnswers(ok)
  BY <1>9, Zenon DEF RevokeStep, RevokeGrant, CancelPendingByGrant
<1>10. ASSUME ReadStep \/ Restart PROVE UNCHANGED <<holds, told, published, dead>>
  BY <1>10, Zenon DEF ReadStep, IssueGrant, SubmitCommand, LookupRequest, MatchApproval, Authenticate,
       Approve, GuardWorkerEnabled, StartRequest, GrantLapses, JobLapses, Restart, AdminFrame
<1> QED
  BY <1>0, <1>1, <1>2, <1>3, <1>4, <1>5, <1>6, <1>7, <1>8, <1>9, <1>10 DEF Next, vars

-----------------------------------------------------------------------------
(* The audit log, and the rows that rows refer to. *)

\* A job leaves "staged" upwards only after its authorization was logged, its
\* token leaves the process only after its claim was, and both stay in the log.
LogInv ==
    /\ \A j \in JobIds :
          mem.jobs[j].status \in {"pending", "claimed", "running", "succeeded", "failed"} => Authorized(j)
    /\ op.pc \in {"consume", "publish", "claimed"} => Authorized(op.job)
    /\ \A j \in holds : Authorized(j) /\ <<"execution.job_claimed", j>> \in audit
    /\ op.pc \in {"start", "started"} => op.job \in holds
    /\ UnauditedNeverRuns

Final(a) == mem.approvals[a].status \in {"decided", "consumed"}

Once(a) == a # 0 /\ mem.approvals[a].decision = "allow_once"

\* Rows and the handler refer to rows that exist, and a job refers to an approval
\* only if its command needs one.
RowInv ==
    /\ \A j \in JobIds : mem.jobs[j].status # "none" =>
          /\ mem.jobs[j].grant \in GrantIds /\ mem.grants[mem.jobs[j].grant].issued
          /\ mem.jobs[j].command \in Commands
          /\ mem.jobs[j].approval # 0 => /\ Final(mem.jobs[j].approval)
                                         /\ Risk[mem.jobs[j].command].decision = "approval_required"
    /\ op.pc \in OnJob => mem.jobs[op.job].status # "none"
    /\ \A j \in holds : mem.jobs[j].status # "none"
    /\ op.pc \in OnCommand => mem.grants[op.grant].issued
    /\ op.pc = "lookup" => op.approval = 0
    /\ op.pc = "match" => Risk[op.command].decision = "approval_required"
    /\ op.pc = "enqueue" /\ op.approval # 0 =>
          Final(op.approval) /\ Risk[op.command].decision = "approval_required"

\* Nothing is logged and no row refers to another at first.
LEMMA InitRows == Init => LogInv /\ RowInv
<1> SUFFICES ASSUME Init PROVE LogInv /\ RowInv
  OBVIOUS
<1>1. LogInv
  BY DEF Init, Empty, Idle, LogInv, UnauditedNeverRuns
<1>2. RowInv
  BY DEF Init, Empty, Idle, RowInv, OnJob, OnCommand
<1> QED
  BY <1>1, <1>2

\* No step publishes, claims or starts a job ahead of its log entry.
LEMMA NextLog ==
    ASSUME Typed, Sync, LogInv, [Next]_vars
    PROVE  LogInv'
<1>a. audit \subseteq audit'
  BY RowsMove DEF RowMoves
<1>b. ASSUME NEW j, Authorized(j) PROVE Authorized(j)'
  BY <1>a, <1>b DEF Authorized
<1>c. OpMove /\ HoldsMove /\ ToldMove
  BY OpMoves, HistoryMoves
<1> DEFINE Upwards == {"pending", "claimed", "running", "succeeded", "failed"}
<1>1. ASSUME NEW j \in JobIds, mem'.jobs[j].status \in Upwards PROVE Authorized(j)'
  <2>1. JobMove(j)
    BY RowsMove DEF RowMoves
  <2>2. mem.jobs[j].status \in Upwards \/ (op.pc = "publish" /\ op.job = j)
    BY <1>1, <2>1 DEF JobMove, Enqueued, StatusMove, ResultMove, Moves
  <2> QED
    BY <1>b, <2>2 DEF LogInv
<1>2. ASSUME op'.pc \in {"consume", "publish", "claimed"} PROVE Authorized(op.job)'
  <2>1. CASE op' = op
    BY <1>2, <1>a, <2>1 DEF LogInv, Authorized
  <2>2. CASE OpLogs
    BY <2>2 DEF OpLogs, Authorized
  <2>3. CASE OpConsumes
    BY <1>a, <2>3 DEF OpConsumes, LogInv, Authorized
  <2>4. CASE OpClaims
    BY <1>a, <2>4 DEF OpClaims, LogInv, Authorized
  <2> QED
    BY <1>2, <1>c, <2>1, <2>2, <2>3, <2>4 DEF OpMove, OpQuits, OpFails, OpSubmits, OpRoutes, OpUnmatched,
         OpMatches, OpTakes, OpPasses, OpApproves, OpStarts, OpStarted, OpRevokes, OpUnqueues
<1>3. ASSUME NEW j \in holds' PROVE Authorized(j)' /\ <<"execution.job_claimed", j>> \in audit'
  BY <1>a, <1>b, <1>c DEF HoldsMove, LogInv
<1>4. ASSUME op'.pc \in {"start", "started"} PROVE op'.job \in holds'
  <2>1. op'.job \in holds
    BY <1>4, <1>c DEF LogInv, OpMove, OpQuits, OpFails, OpSubmits, OpRoutes, OpUnmatched, OpMatches,
         OpTakes, OpPasses, OpApproves, OpLogs, OpConsumes, OpClaims, OpStarts, OpStarted, OpRevokes, OpUnqueues
  <2> QED
    BY <1>c, <2>1 DEF HoldsMove
<1>5. ASSUME NEW j \in told'
      PROVE  {<<"execution.job_authorized", j>>, <<"execution.job_claimed", j>>,
              <<"execution.job_started", j>>} \subseteq audit'
  <2>1. CASE j \in told
    BY <1>a, <2>1 DEF LogInv, UnauditedNeverRuns
  <2>2. CASE op.pc = "started" /\ j = op.job /\ <<"execution.job_started", op.job>> \in audit'
    BY <1>a, <2>2 DEF LogInv, Authorized
  <2> QED
    BY <1>c, <2>1, <2>2 DEF ToldMove
<1>6. UnauditedNeverRuns'
  BY <1>5, Zenon DEF UnauditedNeverRuns
<1> QED
  BY <1>1, <1>2, <1>3, <1>4, <1>6 DEF LogInv

\* An issued grant and a decided approval stay so; a decision is not changed.
LEMMA RowsStay ==
    ASSUME Typed, Sync, [Next]_vars
    PROVE  /\ \A g \in GrantIds : mem.grants[g].issued =>
                 mem'.grants[g].issued /\ mem'.grants[g].epoch = mem.grants[g].epoch
           /\ \A g \in GrantIds : mem.grants[g].issued /\ mem.grants[g].revoked => mem'.grants[g].revoked
           /\ \A a \in ApprovalIds : Final(a) => /\ Final(a)'
                                                 /\ mem'.approvals[a].decision = mem.approvals[a].decision
<1>1. ASSUME NEW g \in GrantIds, mem.grants[g].issued
      PROVE  /\ mem'.grants[g].issued /\ mem'.grants[g].epoch = mem.grants[g].epoch
             /\ mem.grants[g].revoked => mem'.grants[g].revoked
  <2>1. GrantMove(g)
    BY RowsMove DEF RowMoves
  <2> QED
    BY <1>1, <2>1, Zenon DEF GrantMove
<1>2. ASSUME NEW a \in ApprovalIds, Final(a)
      PROVE  Final(a)' /\ mem'.approvals[a].decision = mem.approvals[a].decision
  <2>1. ApprovalMove(a)
    BY RowsMove DEF RowMoves
  <2> QED
    BY <1>2, <2>1 DEF ApprovalMove, Final
<1> QED
  BY <1>1, <1>2

\* Jobs, once queued, keep what they were queued with.
LEMMA JobsStay ==
    ASSUME Typed, Sync, [Next]_vars, NEW j \in JobIds
    PROVE  \/ mem.jobs[j].status # "none" /\ mem'.jobs[j].status # "none" /\ Kept(j)
           \/ mem.jobs[j].status = "none" /\ mem'.jobs[j].status = "none"
           \/ Enqueued(j)
<1>1. JobMove(j)
  BY RowsMove DEF RowMoves
<1> QED
  BY <1>1 DEF JobMove, Enqueued, StatusMove, ResultMove, Moves, Kept

\* No step leaves a row that refers to one that does not exist.
LEMMA NextRows ==
    ASSUME Typed, Sync, RowInv, [Next]_vars
    PROVE  RowInv'
<1>a. OpMove
  BY OpMoves
<1>b. op \in Handler /\ mem.jobs \in [JobIds -> JobRow] /\ HandlerBound
  BY DEF Typed, TypeOK, Stores
<1>c. ASSUME NEW a \in 0..MaxApprovals, a # 0 PROVE a \in ApprovalIds
  BY <1>c, FileBounds DEF ApprovalIds
<1>1. ASSUME NEW j \in JobIds, mem'.jobs[j].status # "none"
      PROVE  /\ mem'.jobs[j].grant \in GrantIds /\ mem'.grants[mem'.jobs[j].grant].issued
             /\ mem'.jobs[j].command \in Commands
             /\ mem'.jobs[j].approval # 0 => /\ mem'.approvals[mem'.jobs[j].approval].status \in {"decided", "consumed"}
                                             /\ Risk[mem'.jobs[j].command].decision = "approval_required"
  <2>1. CASE mem.jobs[j].status # "none" /\ Kept(j)
    <3>1. mem.jobs[j].approval \in 0..MaxApprovals
      BY <1>b DEF JobRow
    <3> QED
      BY <1>c, <2>1, <3>1, RowsStay DEF RowInv, Kept, Final
  <2>2. CASE Enqueued(j)
    <3>1. op.pc = "enqueue" /\ op.grant \in GrantIds /\ op.command \in Commands
      BY <1>b, <2>2 DEF Enqueued, HandlerBound, OnGrant, OnCommand
    <3>2. mem.grants[op.grant].issued /\ op.approval \in 0..MaxApprovals
      BY <1>b, <3>1 DEF RowInv, OnCommand, Handler
    <3>3. /\ mem'.jobs[j].grant = op.grant /\ mem'.jobs[j].command = op.command
          /\ mem'.jobs[j].approval = op.approval
      BY <2>2 DEF Enqueued
    <3> QED
      BY <1>c, <3>1, <3>2, <3>3, RowsStay DEF RowInv, Final
  <2> QED
    BY <1>1, <2>1, <2>2, JobsStay
<1>2. ASSUME op'.pc \in OnJob PROVE mem'.jobs[op'.job].status # "none"
  <2>0. op'.job \in JobIds
    BY <1>2, NextTyped DEF Typed, HandlerBound
  <2>1. CASE op.pc \in OnJob /\ op'.job = op.job
    BY <2>0, <2>1, JobsStay DEF RowInv, Enqueued
  <2>2. CASE OpTakes
    BY <2>2 DEF OpTakes, Enqueued
  <2>3. CASE OpClaims
    BY <2>0, <2>3, JobsStay DEF OpClaims, Enqueued
  <2>4. CASE OpStarts
    BY <2>4 DEF OpStarts, RowInv
  <2> QED
    BY <1>2, <1>a, <2>1, <2>2, <2>3, <2>4 DEF OpMove, OpQuits, OpFails, OpSubmits, OpRoutes, OpUnmatched, OpMatches,
         OpPasses, OpApproves, OpLogs, OpConsumes, OpStarted, OpRevokes, OpUnqueues, OnJob
<1>3. ASSUME NEW j \in holds' PROVE mem'.jobs[j].status # "none"
  <2>1. j \in JobIds /\ mem.jobs[j].status # "none"
    <3>1. CASE j \in holds
      BY <3>1 DEF RowInv, Typed, TypeOK
    <3>2. CASE op.pc = "claimed" /\ j = op.job
      BY <1>b, <3>2 DEF RowInv, HandlerBound, OnJob
    <3> QED
      BY <3>1, <3>2, HistoryMoves DEF HoldsMove
  <2> QED
    BY <2>1, JobsStay DEF Enqueued
<1>4. ASSUME op'.pc \in OnCommand PROVE mem'.grants[op'.grant].issued
  <2>0. op'.grant \in GrantIds
    BY <1>4, NextTyped DEF Typed, HandlerBound, OnGrant, OnCommand
  <2>1. mem.grants[op'.grant].issued
    BY <1>4, <1>a DEF RowInv, OpMove, OpQuits, OpFails, OpSubmits, OpRoutes, OpUnmatched, OpMatches, OpTakes,
         OpPasses, OpApproves, OpLogs, OpConsumes, OpClaims, OpStarts, OpStarted, OpRevokes, OpUnqueues, OnCommand
  <2> QED
    BY <2>0, <2>1, RowsStay
<1>5. op'.pc = "lookup" => op'.approval = 0
  BY <1>a DEF RowInv, OpMove, OpQuits, OpFails, OpSubmits, OpRoutes, OpUnmatched, OpMatches, OpTakes,
       OpPasses, OpApproves, OpLogs, OpConsumes, OpClaims, OpStarts, OpStarted, OpRevokes, OpUnqueues
<1>6. op'.pc = "match" => Risk[op'.command].decision = "approval_required"
  BY <1>a DEF RowInv, OpMove, OpQuits, OpFails, OpSubmits, OpRoutes, OpUnmatched, OpMatches, OpTakes,
       OpPasses, OpApproves, OpLogs, OpConsumes, OpClaims, OpStarts, OpStarted, OpRevokes, OpUnqueues
<1>7. ASSUME op'.pc = "enqueue", op'.approval # 0
      PROVE  /\ mem'.approvals[op'.approval].status \in {"decided", "consumed"}
             /\ Risk[op'.command].decision = "approval_required"
  <2>1. op' = op \/ OpMatches
    BY <1>7, <1>a DEF RowInv, OpMove, OpQuits, OpFails, OpSubmits, OpRoutes, OpUnmatched, OpTakes,
         OpPasses, OpApproves, OpLogs, OpConsumes, OpClaims, OpStarts, OpStarted, OpRevokes, OpUnqueues
  <2>2. CASE op' = op
    <3>1. op.approval \in ApprovalIds
      BY <1>7, <1>b, <1>c, <2>2 DEF Handler
    <3> QED
      BY <1>7, <2>2, <3>1, RowsStay DEF RowInv, Final
  <2>3. CASE OpMatches
    BY <2>3 DEF OpMatches, RowInv
  <2> QED
    BY <2>1, <2>2, <2>3
<1> QED
  BY <1>1, <1>2, <1>3, <1>4, <1>5, <1>6, <1>7 DEF RowInv, Final

\* A worker that was allowed to go on holds a job whose authorization, claim and
\* start are all in the audit log, whatever failed on the way.
THEOREM UnauditedNeverRunsAlways == Spec => []UnauditedNeverRuns
<1>1. Init => Typed /\ Sync /\ LogInv
  BY InitTyped, InitSync, InitRows
<1>2. Typed /\ Sync /\ LogInv /\ [Next]_vars => Typed' /\ Sync' /\ LogInv'
  BY NextTyped, StoreMoves, NextLog
<1>3. LogInv => UnauditedNeverRuns
  BY DEF LogInv
<1> QED
  BY <1>1, <1>2, <1>3, PTL DEF Spec

-----------------------------------------------------------------------------
(* One allow_once, one job. *)

Unpublished == {"authenticate", "approve", "authorize", "consume", "publish"}

\* The approval of the job that is being handled.
Mine == mem.jobs[op.job].approval

\* A published job has consumed its allow_once, and the handler that is about to
\* publish one is the only user of its own.
OnceInv ==
    /\ \A i \in published : /\ mem.jobs[i].status \notin {"none", "staged"}
                            /\ Once(mem.jobs[i].approval) =>
                                  mem.approvals[mem.jobs[i].approval].status = "consumed"
    /\ op.pc \in Unpublished => op.job \notin published
    /\ op.pc = "authorize" /\ Risk[mem.jobs[op.job].command].decision = "approval_required"
          => Mine # 0 /\ mem.approvals[Mine].status = "decided"
    /\ op.pc = "consume" => Once(Mine) /\ mem.approvals[Mine].status = "decided"
    /\ op.pc = "publish" /\ Once(Mine) => /\ mem.approvals[Mine].status = "consumed"
                                          /\ \A i \in published : mem.jobs[i].approval # Mine
    /\ AllowOnceAuthorizesOne

\* Nothing has been published at first.
LEMMA InitOnce == Init => OnceInv
  BY DEF Init, Empty, Idle, OnceInv, Unpublished, AllowOnceAuthorizesOne

\* No step lets a second job use an allow_once.
LEMMA NextOnce ==
    ASSUME Typed, Sync, RowInv, OnceInv, [Next]_vars
    PROVE  OnceInv'
<1>a. OpMove /\ PublishedMove
  BY OpMoves, HistoryMoves
<1>b. /\ op \in Handler /\ HandlerBound /\ mem.jobs \in [JobIds -> JobRow] /\ published \subseteq JobIds
      /\ mem.approvals \in [ApprovalIds -> ApprovalRow]
  BY DEF Typed, TypeOK, Stores
<1>c. ASSUME NEW j \in JobIds, mem.jobs[j].approval # 0 PROVE mem.jobs[j].approval \in ApprovalIds
  BY <1>b, <1>c, FileBounds DEF ApprovalIds, JobRow
<1>d. ASSUME NEW j \in JobIds, mem.jobs[j].status # "none"
      PROVE  /\ mem'.jobs[j].approval = mem.jobs[j].approval
             /\ mem'.jobs[j].command = mem.jobs[j].command
             /\ Once(mem.jobs[j].approval)' <=> Once(mem.jobs[j].approval)
  <2>1. Kept(j)
    BY <1>d, JobsStay DEF Enqueued
  <2>2. mem.jobs[j].approval # 0 => Final(mem.jobs[j].approval) /\ mem.jobs[j].approval \in ApprovalIds
    BY <1>c, <1>d DEF RowInv
  <2> QED
    BY <2>1, <2>2, RowsStay DEF Kept, Once
<1>e. ASSUME NEW a \in ApprovalIds, mem.approvals[a].status = "consumed"
      PROVE  mem'.approvals[a].status = "consumed"
  <2>1. ApprovalMove(a)
    BY RowsMove DEF RowMoves
  <2> QED
    BY <1>e, <2>1 DEF ApprovalMove
<1>f. ASSUME NEW a \in ApprovalIds, mem.approvals[a].status = "decided"
      PROVE  \/ mem'.approvals[a].status = "decided"
             \/ op.pc = "consume" /\ op'.pc = "publish"
  <2>1. ApprovalMove(a)
    BY RowsMove DEF RowMoves
  <2> QED
    BY <1>f, <2>1 DEF ApprovalMove
<1>g. op.pc \in OnJob => op.job \in JobIds /\ mem.jobs[op.job].status # "none"
  BY <1>b DEF HandlerBound, RowInv
<1>1. ASSUME NEW i \in published'
      PROVE  /\ mem'.jobs[i].status \notin {"none", "staged"}
             /\ Once(mem.jobs[i].approval)' =>
                   mem'.approvals[mem'.jobs[i].approval].status = "consumed"
  <2>1. CASE i \in published
    <3>1. i \in JobIds /\ mem.jobs[i].status \notin {"none", "staged"}
      BY <1>b, <2>1 DEF OnceInv
    <3>2. JobMove(i)
      BY <3>1, RowsMove DEF RowMoves
    <3>3. mem'.jobs[i].status \notin {"none", "staged"}
      BY <3>1, <3>2 DEF JobMove, Enqueued, StatusMove, ResultMove, Moves
    <3>4. Once(mem.jobs[i].approval) =>
            mem.jobs[i].approval \in ApprovalIds /\ mem.approvals[mem.jobs[i].approval].status = "consumed"
      BY <1>c, <2>1, <3>1 DEF OnceInv, Once
    <3> QED
      BY <1>d, <1>e, <3>1, <3>3, <3>4
  <2>2. CASE /\ op.pc = "publish" /\ i = op.job /\ mem'.approvals = mem.approvals
             /\ mem'.jobs[op.job].status = "pending"
    <3>1. i \in JobIds /\ mem.jobs[i].status # "none"
      BY <1>g, <2>2 DEF OnJob
    <3>2. Once(mem.jobs[i].approval) => mem.approvals[mem.jobs[i].approval].status = "consumed"
      BY <2>2 DEF OnceInv, Mine
    <3> QED
      BY <1>d, <2>2, <3>1, <3>2
  <2> QED
    BY <1>a, <2>1, <2>2 DEF PublishedMove
<1>2. ASSUME op'.pc \in Unpublished PROVE op'.job \notin published'
  <2>1. published' = published
    BY <1>2, <1>a DEF PublishedMove, Unpublished
  <2>2. op'.job \notin published
    BY <1>2, <1>a DEF OnceInv, OpMove, OpQuits, OpFails, OpSubmits, OpRoutes, OpUnmatched, OpMatches, OpTakes,
         OpPasses, OpApproves, OpLogs, OpConsumes, OpClaims, OpStarts, OpStarted, OpRevokes, OpUnqueues,
         Unpublished, Enqueued
  <2> QED
    BY <2>1, <2>2
<1>3. ASSUME op'.pc = "authorize", Risk[mem'.jobs[op'.job].command].decision = "approval_required"
      PROVE  Mine' # 0 /\ mem'.approvals[Mine'].status = "decided"
  <2>1. CASE op' = op
    <3>1. op.job \in JobIds /\ mem.jobs[op.job].status # "none"
      BY <1>3, <1>g, <2>1 DEF OnJob
    <3>2. Mine # 0 /\ mem.approvals[Mine].status = "decided" /\ Mine' = Mine
      BY <1>3, <1>d, <2>1, <3>1 DEF OnceInv, Mine
    <3>3. Mine \in ApprovalIds
      BY <1>c, <3>1, <3>2 DEF Mine
    <3> QED
      BY <1>3, <1>f, <2>1, <3>2, <3>3
  <2>2. CASE OpApproves
    <3>1. op'.job = op.job /\ mem' = mem
      BY <2>2 DEF OpApproves
    <3>2. ApprovalHolds(op.job)
      BY <1>3, <2>2, <3>1 DEF OpApproves
    <3> QED
      BY <3>1, <3>2 DEF ApprovalHolds, Usable, Mine
  <2> QED
    BY <1>3, <1>a, <2>1, <2>2 DEF OpMove, OpQuits, OpFails, OpSubmits, OpRoutes, OpUnmatched, OpMatches, OpTakes,
         OpPasses, OpLogs, OpConsumes, OpClaims, OpStarts, OpStarted, OpRevokes, OpUnqueues
<1>4. ASSUME op'.pc = "consume" PROVE Once(Mine)' /\ mem'.approvals[Mine'].status = "decided"
  <2>1. CASE op' = op
    <3>1. op.job \in JobIds /\ mem.jobs[op.job].status # "none"
      BY <1>4, <1>g, <2>1 DEF OnJob
    <3>2. Once(Mine) /\ mem.approvals[Mine].status = "decided" /\ Mine' = Mine /\ Once(Mine)'
      BY <1>4, <1>d, <2>1, <3>1 DEF OnceInv, Mine
    <3>3. Mine \in ApprovalIds
      BY <1>c, <3>1, <3>2 DEF Mine, Once
    <3> QED
      BY <1>4, <1>f, <3>2, <3>3
  <2>2. CASE OpLogs
    <3>1. op'.job = op.job /\ mem' = mem /\ op.pc = "authorize" /\ NeedsConsumption(op.job)
      BY <1>4, <2>2 DEF OpLogs
    <3>2. Mine # 0 /\ mem.approvals[Mine].status = "decided" /\ mem.approvals[Mine].decision = "allow_once"
      BY <3>1 DEF NeedsConsumption, OnceInv, Mine
    <3> QED
      BY <3>1, <3>2 DEF Mine, Once
  <2> QED
    BY <1>4, <1>a, <2>1, <2>2 DEF OpMove, OpQuits, OpFails, OpSubmits, OpRoutes, OpUnmatched, OpMatches, OpTakes,
         OpPasses, OpApproves, OpConsumes, OpClaims, OpStarts, OpStarted, OpRevokes, OpUnqueues
<1>5. ASSUME op'.pc = "publish", Once(Mine)'
      PROVE  /\ mem'.approvals[Mine'].status = "consumed"
             /\ \A i \in published' : mem'.jobs[i].approval # Mine'
  <2>0. op'.job = op.job /\ op.pc \in {"authorize", "consume", "publish"}
    BY <1>5, <1>a DEF OpMove, OpQuits, OpFails, OpSubmits, OpRoutes, OpUnmatched, OpMatches, OpTakes,
         OpPasses, OpApproves, OpLogs, OpConsumes, OpClaims, OpStarts, OpStarted, OpRevokes, OpUnqueues
  <2>1. op.job \in JobIds /\ mem.jobs[op.job].status # "none" /\ published' = published
    BY <1>5, <1>a, <1>g, <2>0 DEF OnJob, PublishedMove
  <2>2. Mine' = Mine /\ Once(Mine)
    BY <1>5, <1>d, <2>0, <2>1 DEF Mine, Once
  <2>3. Mine \in ApprovalIds
    BY <1>c, <2>1, <2>2 DEF Mine, Once
  <2>4. ASSUME NEW i \in published PROVE mem'.jobs[i].approval = mem.jobs[i].approval
    BY <1>b, <1>d DEF OnceInv
  <2>5. CASE op' = op
    BY <1>e, <1>5, <2>1, <2>2, <2>3, <2>4, <2>5 DEF OnceInv
  <2>6. CASE OpLogs
    <3>1. op.pc = "authorize" /\ ~NeedsConsumption(op.job)
      BY <1>5, <2>6 DEF OpLogs
    <3>2. Risk[mem.jobs[op.job].command].decision = "approval_required"
      BY <2>1, <2>2 DEF RowInv, Once, Mine
    <3> QED
      BY <2>2, <3>1, <3>2 DEF NeedsConsumption, Once, Mine
  <2>7. CASE OpConsumes
    <3>1. /\ mem'.approvals = [mem.approvals EXCEPT ![Mine].status = "consumed"]
          /\ op.pc = "consume"
      BY <2>7 DEF OpConsumes, Mine
    <3>2. mem'.approvals[Mine].status = "consumed"
      BY <1>b, <2>3, <3>1 DEF ApprovalRow
    <3>3. mem.approvals[Mine].status = "decided"
      BY <3>1 DEF OnceInv
    <3>4. ASSUME NEW i \in published PROVE mem.jobs[i].approval # Mine
      BY <2>2, <3>3 DEF OnceInv
    <3> QED
      BY <2>1, <2>2, <2>4, <3>2, <3>4
  <2> QED
    BY <1>5, <1>a, <2>5, <2>6, <2>7 DEF OpMove, OpQuits, OpFails, OpSubmits, OpRoutes, OpUnmatched, OpMatches, OpTakes,
         OpPasses, OpApproves, OpClaims, OpStarts, OpStarted, OpRevokes, OpUnqueues
<1>6. ASSUME NEW i \in published', NEW j \in published', mem'.jobs[i].approval # 0,
             mem'.jobs[i].approval = mem'.jobs[j].approval,
             mem'.approvals[mem'.jobs[i].approval].decision = "allow_once"
      PROVE  i = j
  <2>1. Once(mem.jobs[i].approval)'
    BY <1>6 DEF Once
  <2>2. ASSUME NEW k \in published
        PROVE  k \in JobIds /\ mem.jobs[k].status # "none"
    BY <1>b DEF OnceInv
  <2>3. CASE i \in published /\ j \in published
    <3>1. /\ mem'.jobs[i].approval = mem.jobs[i].approval /\ mem'.jobs[j].approval = mem.jobs[j].approval
          /\ Once(mem.jobs[i].approval)
      BY <1>d, <2>1, <2>2, <2>3
    <3> QED
      BY <1>6, <2>3, <3>1 DEF OnceInv, AllowOnceAuthorizesOne, Once
  <2>4. ASSUME NEW k \in published, op.pc = "publish",
               mem'.jobs[op.job].approval = mem'.jobs[k].approval, Once(mem.jobs[k].approval)'
        PROVE  FALSE
    <3>1. /\ mem'.jobs[k].approval = mem.jobs[k].approval /\ Once(mem.jobs[k].approval)
      BY <1>d, <2>2, <2>4
    <3>2. mem'.jobs[op.job].approval = Mine
      BY <1>d, <1>g, <2>4 DEF Mine, OnJob
    <3> QED
      BY <2>4, <3>1, <3>2 DEF OnceInv
  <2>5. Once(mem.jobs[j].approval)'
    BY <1>6 DEF Once
  <2> QED
    BY <1>6, <1>a, <2>1, <2>3, <2>4, <2>5 DEF PublishedMove
<1>7. AllowOnceAuthorizesOne'
  BY <1>6, Zenon DEF AllowOnceAuthorizesOne
<1> QED
  BY <1>1, <1>2, <1>3, <1>4, <1>5, <1>7 DEF OnceInv

\* However writes fail and whenever the process dies, one allow_once decision
\* makes at most one job available to workers.
THEOREM AllowOnceHolds == Spec => []AllowOnceAuthorizesOne
<1> DEFINE I == Typed /\ Sync /\ RowInv /\ OnceInv
<1>1. Init => I
  BY InitTyped, InitSync, InitRows, InitOnce
<1>2. I /\ [Next]_vars => I'
  BY NextTyped, StoreMoves, NextRows, NextOnce
<1>3. I => AllowOnceAuthorizesOne
  BY DEF OnceInv
<1> HIDE DEF I
<1> QED
  BY <1>1, <1>2, <1>3, PTL DEF Spec

-----------------------------------------------------------------------------
(* A confirmed revocation. *)

\* A grant that is revoked for good, or is about to be by a REVOKE ALL that has
\* canceled the queue.
GoneIn(g, lost, grants, admins) ==
    \/ g \in lost
    \/ /\ grants[g].issued
       /\ \E o \in Operators : /\ admins[o].pc = "revoked" /\ ~admins[o].failed
                               /\ grants[g].epoch < admins[o].epoch

Gone(g) == GoneIn(g, dead, mem.grants, adm)

\* A job that was authenticated before its grant was revoked is not in the queue
\* any more when the revocation is confirmed.
RevokeInv ==
    /\ \A g \in dead : mem.grants[g].issued /\ (mem.grants[g].revoked \/ mem.grants[g].epoch < Epoch)
    /\ op.pc \in {"unqueue", "revoked"} => mem.grants[op.grant].issued /\ mem.grants[op.grant].revoked
    /\ op.pc \in {"approve", "authorize", "consume", "publish"} /\ mem.jobs[op.job].status = "staged"
          => ~Gone(mem.jobs[op.job].grant)
    /\ op.pc = "start" /\ mem.jobs[op.job].status = "claimed" => ~Gone(mem.jobs[op.job].grant)

Window == {"approve", "authorize", "consume", "publish"}

\* Nothing has been revoked at first.
LEMMA InitRevoke == Init => RevokeInv
  BY DEF Init, Empty, Idle, RevokeInv

\* A grant that authenticates has not been revoked, nor is it about to be by a
\* REVOKE ALL that has already canceled the queue: that one's epoch is in memory.
LEMMA LiveNotGone ==
    ASSUME Typed, Sync, EpochInv, RevokeInv, NEW g, Live(g)
    PROVE  ~Gone(g)
<1>1. g \in GrantIds /\ ~mem.grants[g].revoked /\ mem.grants[g].epoch = mem.authority.epoch
  BY DEF Live
<1>2. mem.authority \in AuthorityRow /\ disk.authority \in AuthorityRow /\ adm \in [Operators -> Admin]
  BY DEF Typed, TypeOK, Stores
<1>3. mem.authority.epoch \in Nat /\ disk.authority.epoch \in Nat /\ \A o \in Operators : adm[o].epoch \in Nat
  BY <1>2, FileBounds DEF AuthorityRow, Admin, Epochs
<1>4. mem.authority.epoch >= Epoch
  BY DEF Sync, Epoch
<1>5. ASSUME g \in dead PROVE FALSE
  BY <1>1, <1>3, <1>4, <1>5 DEF RevokeInv, Epoch
<1>6. ASSUME NEW o \in Operators, adm[o].pc = "revoked", ~adm[o].failed, mem.grants[g].epoch < adm[o].epoch
      PROVE  FALSE
  BY <1>1, <1>3, <1>4, <1>6 DEF EpochInv, Epoch
<1> QED
  BY <1>5, <1>6 DEF Gone, GoneIn

\* A grant that gets lost does so when the queue has been canceled, or by a handler
\* that holds executionMu itself.
LEMMA GoneGrows ==
    ASSUME Typed, Sync, [Next]_vars, NEW g \in GrantIds, mem.grants[g].issued, GoneIn(g, dead', mem'.grants, adm')
    PROVE  \/ Gone(g)
           \/ \A j \in JobIds : mem'.jobs[j].status \notin NotRunning
           \/ op'.pc = "idle"
<1>1. CASE g \in dead'
  BY <1>1, HistoryMoves DEF DeadMove, Covered, Gone, GoneIn
<1>2. ASSUME NEW o \in Operators, adm'[o].pc = "revoked", ~adm'[o].failed,
             mem'.grants[g].epoch < adm'[o].epoch
      PROVE  Gone(g) \/ \A j \in JobIds : mem'.jobs[j].status \notin NotRunning
  <2>1. AdminMove(o)
    BY AdminMoves
  <2>2. mem'.grants[g].epoch = mem.grants[g].epoch
    BY RowsStay
  <2>3. CASE adm'[o] = adm[o]
    BY <1>2, <2>2, <2>3 DEF Gone, GoneIn
  <2>4. CASE Unqueues(o)
    BY <1>2, <2>4 DEF Unqueues
  <2> QED
    BY <1>2, <2>1, <2>3, <2>4 DEF AdminMove, Snapshots, ThrowsIt, AsksEnable
<1> QED
  BY <1>1, <1>2 DEF Gone, GoneIn

\* No step confirms a revocation while work it covers may still start.
LEMMA NextRevoke ==
    ASSUME Typed, Sync, EpochInv, RowInv, RevokeInv, [Next]_vars
    PROVE  RevokeInv'
<1>a. OpMove /\ DeadMove
  BY OpMoves, HistoryMoves
<1>b. op \in Handler /\ HandlerBound /\ dead \subseteq GrantIds
  BY DEF Typed, TypeOK
<1>c. disk.authority.epoch \in Nat /\ disk'.authority.epoch \in Nat /\ Epoch <= Epoch'
  <2>1. disk' \in Stores /\ disk \in Stores
    BY NextTyped DEF Typed, TypeOK
  <2>2. disk.authority \in AuthorityRow /\ disk'.authority \in AuthorityRow
    BY <2>1 DEF Stores
  <2>3. disk.authority.epoch \in Nat /\ disk'.authority.epoch \in Nat
    BY <2>2, FileBounds DEF AuthorityRow, Epochs
  <2> QED
    BY <2>3, StoreMoves DEF Epoch
<1>d. /\ \A g \in GrantIds : mem.grants[g].epoch \in Nat
      /\ \A o \in Operators : adm[o].epoch \in Nat
  <2>1. mem.grants \in [GrantIds -> GrantRow] /\ adm \in [Operators -> Admin]
    BY DEF Typed, TypeOK, Stores
  <2> QED
    BY <2>1, FileBounds DEF GrantRow, Admin, Epochs
<1>1. ASSUME NEW g \in dead'
      PROVE  mem'.grants[g].issued /\ (mem'.grants[g].revoked \/ mem'.grants[g].epoch < Epoch')
  <2>1. CASE g \in dead
    <3>1. g \in GrantIds /\ mem.grants[g].issued /\ (mem.grants[g].revoked \/ mem.grants[g].epoch < Epoch)
      BY <1>b, <2>1 DEF RevokeInv
    <3>2. mem'.grants[g].issued /\ mem'.grants[g].epoch = mem.grants[g].epoch
      BY <3>1, RowsStay
    <3>3. mem.grants[g].revoked => mem'.grants[g].revoked
      BY <3>1, RowsStay
    <3>4. mem.grants[g].epoch < Epoch => mem'.grants[g].epoch < Epoch'
      BY <1>c, <1>d, <3>1, <3>2 DEF Epoch
    <3> QED
      BY <3>1, <3>2, <3>3, <3>4
  <2>2. CASE op.pc = "revoked" /\ g = op.grant /\ mem' = mem
    BY <2>2 DEF RevokeInv
  <2>3. ASSUME NEW o \in Operators, adm[o].pc = "revoked", ~adm[o].failed, g \in Covered(o), mem' = mem
        PROVE  mem'.grants[g].issued /\ mem'.grants[g].epoch < Epoch'
    <3>1. g \in GrantIds /\ mem.grants[g].issued /\ mem.grants[g].epoch < adm[o].epoch
      BY <2>3 DEF Covered
    <3>2. adm[o].epoch <= Epoch
      BY <2>3 DEF EpochInv
    <3>3. mem.grants[g].epoch < Epoch'
      BY <1>c, <1>d, <3>1, <3>2 DEF Epoch
    <3> QED
      BY <2>3, <3>1, <3>3
  <2> QED
    BY <1>a, <2>1, <2>2, <2>3 DEF DeadMove
<1>2. ASSUME op'.pc \in {"unqueue", "revoked"}
      PROVE  mem'.grants[op'.grant].issued /\ mem'.grants[op'.grant].revoked
  <2>1. CASE op'.grant = op.grant /\ op.pc \in {"unqueue", "revoked"}
    <3>1. op.grant \in GrantIds /\ mem.grants[op.grant].issued /\ mem.grants[op.grant].revoked
      BY <1>b, <2>1 DEF RevokeInv, HandlerBound, OnGrant
    <3> QED
      BY <2>1, <3>1, RowsStay
  <2>2. CASE OpRevokes
    BY <2>2 DEF OpRevokes
  <2> QED
    BY <1>2, <1>a, <2>1, <2>2 DEF OpMove, OpQuits, OpFails, OpSubmits, OpRoutes, OpUnmatched, OpMatches, OpTakes,
         OpPasses, OpApproves, OpLogs, OpConsumes, OpClaims, OpStarts, OpStarted, OpUnqueues
<1>e. ASSUME NEW j \in JobIds, mem.jobs[j].status # "none"
      PROVE  /\ mem'.jobs[j].grant = mem.jobs[j].grant /\ mem.jobs[j].grant \in GrantIds
             /\ mem.grants[mem.jobs[j].grant].issued
  BY <1>e, JobsStay DEF RowInv, Kept, Enqueued
<1>3. ASSUME op'.pc \in Window, mem'.jobs[op'.job].status = "staged", 
             GoneIn(mem'.jobs[op'.job].grant, dead', mem'.grants, adm')
      PROVE  FALSE
  <2>0. op'.job = op.job /\ (op.pc \in Window \/ OpPasses)
    BY <1>3, <1>a DEF Window, OpMove, OpQuits, OpFails, OpSubmits, OpRoutes, OpUnmatched, OpMatches, OpTakes,
         OpPasses, OpApproves, OpLogs, OpConsumes, OpClaims, OpStarts, OpStarted, OpRevokes, OpUnqueues
  <2>1. op.job \in JobIds /\ mem.jobs[op.job].status # "none"
    BY <1>b, <2>0 DEF RowInv, HandlerBound, OnJob, Window, OpPasses
  <2>2. JobMove(op.job)
    BY <2>1, RowsMove DEF RowMoves
  <2>3. mem.jobs[op.job].status = "staged"
    BY <1>3, <2>0, <2>1, <2>2 DEF JobMove, Enqueued, StatusMove, ResultMove, Moves
  <2>4. /\ mem.jobs[op.job].grant \in GrantIds /\ mem.grants[mem.jobs[op.job].grant].issued
        /\ mem'.jobs[op.job].grant = mem.jobs[op.job].grant
    BY <1>e, <2>1
  <2>5. Gone(mem.jobs[op.job].grant)
    <3> DEFINE g == mem.jobs[op.job].grant
    <3>1. PICK h \in GrantIds : h = g
      BY <2>4
    <3>2. GoneIn(h, dead', mem'.grants, adm')
      BY <1>3, <2>0, <2>4, <3>1
    <3>3. Gone(h)
      BY <1>3, <2>0, <2>1, <2>4, <3>1, <3>2, GoneGrows DEF NotRunning, Window
    <3> QED
      BY <3>1, <3>3
  <2> QED
    BY <2>0, <2>3, <2>5, LiveNotGone DEF RevokeInv, Window, OpPasses
<1>4. ASSUME op'.pc = "start", mem'.jobs[op'.job].status = "claimed", 
             GoneIn(mem'.jobs[op'.job].grant, dead', mem'.grants, adm')
      PROVE  FALSE
  <2>0. \/ op' = op
        \/ OpStarts
    BY <1>4, <1>a DEF OpMove, OpQuits, OpFails, OpSubmits, OpRoutes, OpUnmatched, OpMatches, OpTakes,
         OpPasses, OpApproves, OpLogs, OpConsumes, OpClaims, OpStarted, OpRevokes, OpUnqueues
  <2>1. CASE op' = op
    <3>1. op.job \in JobIds /\ mem.jobs[op.job].status # "none"
      BY <1>b, <1>4, <2>1 DEF RowInv, HandlerBound, OnJob
    <3>2. JobMove(op.job)
      BY <3>1, RowsMove DEF RowMoves
    <3>3. mem.jobs[op.job].status = "claimed"
      BY <1>4, <2>1, <3>1, <3>2 DEF JobMove, Enqueued, StatusMove, ResultMove, Moves
    <3>4. PICK h \in GrantIds : /\ h = mem.jobs[op.job].grant /\ mem.grants[h].issued
                                /\ h = mem'.jobs[op.job].grant
      BY <1>e, <3>1
    <3>5. GoneIn(h, dead', mem'.grants, adm')
      BY <1>4, <2>1, <3>4
    <3>6. Gone(h)
      BY <1>4, <2>1, <3>1, <3>4, <3>5, GoneGrows DEF NotRunning
    <3> QED
      BY <1>4, <2>1, <3>3, <3>4, <3>6 DEF RevokeInv
  <2>2. CASE OpStarts
    <3>1. /\ mem' = mem /\ disk' = disk /\ UNCHANGED <<adm, dead>>
          /\ Live(mem.jobs[op'.job].grant)
      BY <1>4, <2>2 DEF OpStarts
    <3>2. ~Gone(mem.jobs[op'.job].grant)
      BY <3>1, LiveNotGone
    <3> QED
      BY <1>4, <3>1, <3>2 DEF Gone
  <2> QED
    BY <2>0, <2>1, <2>2
<1> QED
  BY <1>1, <1>2, <1>3, <1>4 DEF RevokeInv, Window, Gone

RevocationInv == Typed /\ Sync /\ EpochInv /\ RowInv /\ RevokeInv

\* Once a revocation has been confirmed to the operator, no job of the grants it
\* covers is published or started, whatever was in flight, failed or restarted.
THEOREM ConfirmedRevocationHolds == Spec => ConfirmedRevocationStopsStarts
<1>1. Init => RevocationInv
  BY InitTyped, InitSync, InitStores, InitRows, InitRevoke DEF RevocationInv
<1>2. RevocationInv /\ [Next]_vars => RevocationInv'
  BY NextTyped, StoreMoves, NextEpochs, NextRows, NextRevoke DEF RevocationInv
<1>3. ASSUME RevocationInv, [Next]_vars
      PROVE  [\A j \in JobIds :
                mem'.jobs[j].status \in {"pending", "running"} /\ mem'.jobs[j] # mem.jobs[j]
                   => mem'.jobs[j].grant \notin dead]_vars
  <2> SUFFICES ASSUME NEW j \in JobIds, mem'.jobs[j].status \in {"pending", "running"},
                      mem'.jobs[j] # mem.jobs[j]
               PROVE  mem'.jobs[j].grant \notin dead
    OBVIOUS
  <2>1. JobMove(j)
    BY <1>3, RowsMove DEF RowMoves, RevocationInv
  <2>2. /\ Kept(j) /\ op.job = j
        /\ \/ op.pc = "publish" /\ mem.jobs[j].status = "staged"
           \/ op.pc = "start" /\ mem.jobs[j].status = "claimed"
    BY <2>1 DEF JobMove, Enqueued, StatusMove, ResultMove, Moves
  <2>3. ~Gone(mem.jobs[j].grant)
    BY <1>3, <2>2 DEF RevocationInv, RevokeInv
  <2> QED
    BY <2>2, <2>3 DEF Gone, GoneIn, Kept
<1> QED
  BY <1>1, <1>2, <1>3, PTL DEF Spec, ConfirmedRevocationStopsStarts

=============================================================================

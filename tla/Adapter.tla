------------------------------- MODULE Adapter -------------------------------
(***************************************************************************)
(* The MCP adapter (sentinel-mcp): five tools over the Agent API.  A tool   *)
(* call that starts work writes the operation, with the request_id of each  *)
(* of its steps, to a journal and then submits the steps; sentinel_check    *)
(* submits the same request_ids again.                                      *)
(*                                                                         *)
(* Several processes may run on the default journal path, each with its own *)
(* copy of the journal in memory and any number of calls at work.  One      *)
(* action is one call to the Agent API with the code up to the next one.    *)
(* A tool call reads the capability and introspects it in the step that     *)
(* goes to the journal: nothing outside the process happens in between.     *)
(***************************************************************************)
EXTENDS AgentApi, Sequences

CONSTANTS
    Procs,     \* sentinel-mcp processes on one journal
    Calls,     \* tool calls at work
    First,     \* the grant whose capability is installed first
    MaxSteps,  \* commands of a batch
    Plans,     \* inputs of the tools that start work
    Shell,     \* the grants with shell authority
    Carriers,  \* the commands that the classifier counts as arbitrary code
    \* bounds of the checked instance
    MaxOps,          \* operations
    MaxRequests,     \* steps of all operations
    MaxCalls,        \* tool calls that run an operation
    MaxDisturbances  \* installed capabilities, grants that end and failures before

\* Operation IDs and request_ids are random and never repeat: operations are
\* numbered as they are created, step i of operation o has request_id <<o, i>>.
Ops == 1..MaxOps

Plan == [kind : {"exec", "batch", "code"}, parallel : BOOLEAN, commands : Seq(Commands)]

ASSUME AdapterAssumption ==
    /\ MaxSteps \in Nat \ {0}
    /\ First \in Grants
    /\ {MaxOps, MaxRequests, MaxCalls, MaxDisturbances} \subseteq Nat
    /\ Requests = Ops \X (1..MaxSteps)
    /\ Plans \subseteq Plan
    /\ \A p \in Plans : Len(p.commands) \in 1..MaxSteps
    /\ \A p \in Plans : p.kind # "batch" => Len(p.commands) = 1 /\ ~p.parallel
    /\ Shell \subseteq Grants
    /\ Carriers \subseteq Risky
    /\ None \notin (Procs \cup Calls)

VARIABLES
    operation,  \* operation[o]: the session and the plan journaled under o
    journal,    \* the operations in the journal file
    memory,     \* memory[p]: the operations the process knows, None when it is down
    capability, \* the grant whose capability is installed
    installed,  \* the grants whose capability has been installed
    call,       \* call[k]: the tool call that k stands for
    begun,      \* the calls so far
    sent,       \* history: the grant and the operation of each submission
    passed,     \* history: the steps answered awaiting_approval or denied
    claimed,    \* history: the operations reported succeeded
    refused,    \* history: the steps whose submission was refused, with the status
                \* that their job had
    clobbered   \* history: a process has written a journal that lacked an operation

vars == <<apiVars, operation, journal, memory, capability, installed, call, begun, sent,
          passed, claimed, refused, clobbered>>

files   == <<operation, journal, memory, capability, installed, clobbered>>
history == <<sent, passed, claimed, refused>>
outside == <<files, call, begun, history>>

Statuses == {"succeeded", "failed", "denied", "awaiting_approval", "expired", "cancelled", "running"}

Progress == Statuses \cup {"todo", "waiting", "error"}

Operation == [session : Grants, plan : Plans]

Call == [proc : Procs, grant : Grants, op : Ops, steps : Seq(Progress)]

\* The absent value is not an operation, a journal or a call.
ASSUME AbsentAssumption ==
    None \notin Operation /\ None \notin Call /\ \A known \in SUBSET Ops : known # None

\* The status of a job, "none" where there is no job.
StatusOf(j) == IF j = None THEN "none" ELSE j.status

TypeOK ==
    /\ ApiTypeOK
    /\ operation \in [Ops -> Operation \cup {None}]
    /\ journal \subseteq Ops
    /\ memory \in [Procs -> (SUBSET Ops) \cup {None}]
    /\ capability \in installed /\ installed \subseteq Grants
    /\ call \in [Calls -> Call \cup {None}]
    /\ begun \in 0..MaxCalls
    /\ sent \subseteq Grants \X Ops
    /\ claimed \subseteq Ops
    /\ passed \subseteq Requests
    /\ refused \subseteq Requests \X ({"none", "staged", "pending"} \cup Terminal)
    /\ clobbered \in BOOLEAN
    \* every operation a process or the file knows was journaled with a plan
    /\ \A o \in Ops : operation[o] = None =>
         o \notin journal /\ \A p \in Procs : memory[p] # None => o \notin memory[p]

Init ==
    /\ ApiInit
    /\ operation = [o \in Ops |-> None]
    /\ journal = {}
    /\ memory = [p \in Procs |-> None]
    /\ capability = First /\ installed = {First}
    /\ call = [k \in Calls |-> None]
    /\ begun = 0
    /\ sent = {} /\ passed = {} /\ claimed = {} /\ refused = {}
    /\ clobbered = FALSE

-----------------------------------------------------------------------------
(* Processes and the capability file *)

\* OpenFileJournal: the process reads the journal once, when it starts.
OpenFileJournal(p) ==
    /\ memory[p] = None
    /\ memory' = [memory EXCEPT ![p] = journal]
    /\ UNCHANGED <<apiVars, operation, journal, capability, installed, call, begun, history, clobbered>>

Crash(p) ==
    /\ memory[p] # None
    /\ Fault
    /\ memory' = [memory EXCEPT ![p] = None]
    /\ call' = [k \in Calls |-> IF call[k] # None /\ call[k].proc = p THEN None ELSE call[k]]
    /\ UNCHANGED <<jobs, approval, live, wire, masked, operation, journal, capability,
                   installed, begun, history, clobbered>>

Calm == faults + Cardinality(installed) - 1 + Cardinality({g \in Grants : ~live[g]}) < MaxDisturbances

\* The operator installs the capability of a new grant.
Install(g) ==
    /\ Calm
    /\ g \notin installed
    /\ capability' = g
    /\ installed' = installed \cup {g}
    /\ UNCHANGED <<apiVars, operation, journal, memory, call, begun, history, clobbered>>

\* The client goes away: the call's context is cancelled.
Interrupt(k) ==
    /\ call[k] # None
    /\ Fault
    /\ call' = [call EXCEPT ![k] = None]
    /\ UNCHANGED <<jobs, approval, live, wire, masked, files, begun, history>>

-----------------------------------------------------------------------------
(* The journal *)

Used == {r \in Requests : operation[r[1]] # None /\ r[2] <= Len(operation[r[1]].plan.commands)}

Fresh(o, plan) ==
    /\ operation[o] = None /\ \A q \in 1..(o - 1) : operation[q] # None
    /\ Cardinality(Used) + Len(plan.commands) <= MaxRequests

\* Create writes the file from this process's memory; a failed write is taken
\* back in memory.
Create(p, o, plan) ==
    LET known == memory[p] \cup {o} IN
    /\ Fresh(o, plan)
    /\ operation' = [operation EXCEPT ![o] = [session |-> capability, plan |-> plan]]
    /\ memory' = [memory EXCEPT ![p] = known]
    /\ journal' = known
    /\ clobbered' = (clobbered \/ ~(journal \subseteq known))
    /\ UNCHANGED <<capability, installed>>

FaultGetAnySession(p, o, g) == o \in memory[p]

\* Get looks in memory and insists on the session of the current capability.
Get(p, o, g) == o \in memory[p] /\ operation[o].session = g

-----------------------------------------------------------------------------
(* The start of a tool call *)

\* service(): the installed capability is read and introspected for every call.
Service(k, p) == call[k] = None /\ memory[p] # None /\ Introspect(capability)

NewCall(k, p, o, n) ==
    /\ begun < MaxCalls
    /\ begun' = begun + 1
    /\ call' = [call EXCEPT ![k] = [proc |-> p, grant |-> capability, op |-> o,
                                    steps |-> [i \in 1..n |-> "todo"]]]

\* validateStructuredStep
Structured(plan) == \A i \in DOMAIN plan.commands : plan.commands[i] \notin Carriers

FaultSubmitsUnjournaled(k, p, plan) ==
    /\ Service(k, p)
    /\ \E o \in Ops :
         /\ Fresh(o, plan)
         /\ operation' = [operation EXCEPT ![o] = [session |-> capability, plan |-> plan]]
         /\ memory' = [memory EXCEPT ![p] = @ \cup {o}]
         /\ NewCall(k, p, o, Len(plan.commands))
    /\ UNCHANGED <<apiVars, history, journal, capability, installed, clobbered>>

\* createOperation: the journal is written before anything is submitted.
CreateOperation(k, p, plan) ==
    /\ Service(k, p)
    /\ \E o \in Ops :
         /\ Create(p, o, plan)
         /\ NewCall(k, p, o, Len(plan.commands))
    /\ UNCHANGED <<apiVars, history>>

Exec(k, p, plan) == plan.kind = "exec" /\ Structured(plan) /\ CreateOperation(k, p, plan)

ExecBatch(k, p, plan) == plan.kind = "batch" /\ Structured(plan) /\ CreateOperation(k, p, plan)

Code(k, p, plan) ==
    /\ plan.kind = "code"
    /\ capability \in Shell
    /\ plan.commands[1] \in Carriers
    /\ CreateOperation(k, p, plan)

\* validateStoredOperation
StoredIsValid(o, g) ==
    LET plan == operation[o].plan IN
    IF plan.kind = "code" THEN g \in Shell /\ plan.commands[1] \in Carriers
    ELSE Structured(plan)

Check(k, p, o) ==
    /\ Service(k, p)
    /\ Get(p, o, capability)
    /\ StoredIsValid(o, capability)
    /\ NewCall(k, p, o, Len(operation[o].plan.commands))
    /\ UNCHANGED <<apiVars, files, history>>

-----------------------------------------------------------------------------
(* The steps of an operation *)

OpOf(k) == operation[call[k].op]

Answered(status) == status \notin {"todo", "waiting"}

FaultEveryTurn(k, i) == call[k].steps[i] = "todo"

\* The step's turn: at once in a parallel batch, after the steps before it in a
\* sequential one.  An answer without a result (awaiting_approval, denied) does
\* not stop the batch.
Turn(k, i) ==
    /\ call[k].steps[i] = "todo"
    /\ ~OpOf(k).plan.parallel =>
         \A j \in 1..(i - 1) : Answered(call[k].steps[j]) /\ call[k].steps[j] # "error"

SetStep(k, i, status) == call' = [call EXCEPT ![k].steps[i] = status]

\* runStep: every failure of the submission is the same error to the caller.
RunStep(k, i) ==
    LET r == <<call[k].op, i>> IN
    /\ Turn(k, i)
    /\ sent' = sent \cup {<<call[k].grant, call[k].op>>}
    /\ \E reply \in {"accepted", "approval_required", "deny", "401", "403", "lost"} :
         /\ Submit(call[k].grant, r, OpOf(k).plan.commands[i], reply)
         /\ SetStep(k, i, CASE reply = "accepted" -> "waiting"
                           [] reply = "approval_required" -> "awaiting_approval"
                           [] reply = "deny" -> "denied"
                           [] OTHER -> "error")
         /\ passed' = IF reply \in {"approval_required", "deny"} THEN passed \cup {r} ELSE passed
         /\ refused' = IF reply = "403" THEN refused \cup {<<r, StatusOf(jobs[call[k].grant][r])>>}
                       ELSE refused
    /\ UNCHANGED <<files, begun, claimed>>

FaultJobStatus(status) == status

\* modelStatus
ModelStatus(status) ==
    CASE status = "canceled" -> "cancelled"
      [] status \in {"staged", "pending"} -> "running"
      [] OTHER -> status

FaultWaitsForSuccess(k, i) ==
    LET status == jobs[call[k].grant][<<call[k].op, i>>].status IN
    /\ call[k].steps[i] = "waiting"
    /\ \E reply \in {"job", "401", "404", "lost"} :
         /\ Lookup(call[k].grant, <<call[k].op, i>>, reply)
         /\ IF reply # "job" THEN SetStep(k, i, "error")
            ELSE IF status = "succeeded" THEN SetStep(k, i, ModelStatus(status))
            ELSE UNCHANGED call
    /\ UNCHANGED <<files, begun, history>>

\* waitForJob polls until the job is terminal or cannot be read.
WaitForJob(k, i) ==
    LET status == jobs[call[k].grant][<<call[k].op, i>>].status IN
    /\ call[k].steps[i] = "waiting"
    /\ \E reply \in {"job", "401", "404", "lost"} :
         /\ Lookup(call[k].grant, <<call[k].op, i>>, reply)
         /\ IF reply # "job" THEN SetStep(k, i, "error")
            ELSE IF status \in Terminal THEN SetStep(k, i, ModelStatus(status))
            ELSE UNCHANGED call
    /\ UNCHANGED <<files, begun, history>>

FaultLastStatus(steps) == steps[Len(steps)]

\* aggregateStatus: the first step that neither succeeded nor runs decides.
AggregateStatus(steps) ==
    LET bad == {i \in DOMAIN steps : steps[i] \notin {"succeeded", "running"}} IN
    IF bad # {} THEN steps[CHOOSE i \in bad : \A j \in bad : i <= j]
    ELSE IF \E i \in DOMAIN steps : steps[i] = "running" THEN "running" ELSE "succeeded"

\* runOperation returns: a sequential batch at the first error, a parallel one
\* when all its steps are answered.  One error hides every other result.
RunOperation(k) ==
    LET steps  == call[k].steps
        failed == \E i \in DOMAIN steps : steps[i] = "error"
    IN
    /\ \/ \A i \in DOMAIN steps : Answered(steps[i])
       \/ failed /\ ~OpOf(k).plan.parallel
    /\ claimed' = IF ~failed /\ AggregateStatus(steps) = "succeeded"
                  THEN claimed \cup {call[k].op} ELSE claimed
    /\ call' = [call EXCEPT ![k] = None]
    /\ UNCHANGED <<apiVars, files, begun, sent, passed, refused>>

\* Output only reads: the status and the output of one step, whatever it is.
Output(k, p, o, i) ==
    /\ Service(k, p)
    /\ Get(p, o, capability)
    /\ StoredIsValid(o, capability)
    /\ i \in DOMAIN operation[o].plan.commands
    /\ \E reply \in {"job", "401", "404", "lost"} : Lookup(capability, <<o, i>>, reply)
    /\ UNCHANGED outside

-----------------------------------------------------------------------------
Work(k) ==
    /\ call[k] # None
    /\ \/ \E i \in DOMAIN call[k].steps : RunStep(k, i) \/ WaitForJob(k, i)
       \/ RunOperation(k)

Begin(k, p) ==
    \/ \E plan \in Plans : Exec(k, p, plan) \/ ExecBatch(k, p, plan) \/ Code(k, p, plan)
    \/ \E o \in Ops : Check(k, p, o)
    \/ \E r \in Requests : Output(k, p, r[1], r[2])

Next ==
    \/ \E k \in Calls : Work(k) \/ Interrupt(k) \/ \E p \in Procs : Begin(k, p)
    \/ \E p \in Procs : OpenFileJournal(p) \/ Crash(p)
    \/ \E g \in Grants : Install(g)
    \/ (ApiNext \/ \E g \in Grants : Calm /\ EndGrant(g)) /\ UNCHANGED outside

Spec == Init /\ [][Next]_vars

\* Calls run on, and a job ends by its worker or its deadline.
FairSpec == /\ Spec
            /\ WF_vars(\E k \in Calls : Work(k))
            /\ WF_vars(\E g \in Grants, r \in Requests :
                         EndJob(g, r) /\ UNCHANGED outside)

-----------------------------------------------------------------------------
(* Properties *)

JobOf(r) == jobs[operation[r[1]].session][r]

\* An operation that has reached Sentinel is in the journal file, so that any
\* process started later can recover it; unless another process, which had read
\* the file before, has written its own copy over it.
SubmittedIsJournaled == \A s \in sent : s[2] \in journal \/ clobbered

\* A step is submitted, and has a job, under the one grant that its operation was
\* created under, however often the capability is replaced and the operation
\* checked.
OneSessionPerOperation ==
    /\ \A s \in sent : operation[s[2]].session = s[1]
    /\ \A r \in Requests, g \in Grants : jobs[g][r] # None => operation[r[1]].session = g

\* What the journal owes to a process that starts later: the two properties above,
\* over well-typed states.
RecoverableOperations ==
    /\ TypeOK
    /\ SubmittedIsJournaled
    /\ OneSessionPerOperation

\* In a sequential batch a step has a job only when the step before it has ended,
\* or was answered without a result; over all calls, processes and crashes.
SequentialOrder ==
    \A o \in Ops : operation[o] # None /\ ~operation[o].plan.parallel =>
        \A i \in 2..Len(operation[o].plan.commands) : JobOf(<<o, i>>) # None =>
            \/ JobOf(<<o, i - 1>>) # None /\ JobOf(<<o, i - 1>>).status \in Terminal
            \/ <<o, i - 1>> \in passed

\* What a call has found stays true: a final status is the status of the step's
\* job, whatever other calls do, and an operation that was reported succeeded has
\* succeeded in every step.
ReportsStayTrue ==
    /\ \A k \in Calls : call[k] # None => \A i \in DOMAIN call[k].steps :
         call[k].steps[i] \in {"succeeded", "failed", "expired", "cancelled"} =>
             ModelStatus(JobOf(<<call[k].op, i>>).status) = call[k].steps[i]
    /\ \A o \in claimed : \A i \in DOMAIN operation[o].plan.commands :
         JobOf(<<o, i>>) # None /\ JobOf(<<o, i>>).status = "succeeded"

\* A step is refused only for a cause that stays: its job ended without running, or
\* was staged and lost its approval, or the grant of its operation does not permit
\* the command, and then it never gets a job; as long as no failure was answered
\* with the status of a refusal.  A step that runs or has a result can always be
\* checked again.
RefusedForCause ==
    "403" \notin masked =>
        \A x \in refused :
            \/ x[2] \in {"staged", "expired", "canceled"}
               /\ JobOf(x[1]) # None /\ JobOf(x[1]).status \in {"expired", "canceled"}
            \/ /\ x[2] = "none" /\ JobOf(x[1]) = None
               /\ operation[x[1][1]].plan.commands[x[1][2]] \notin Permitted[operation[x[1][1]].session]

\* Again and again no tool call is at work: each returns, and none waits for an
\* operator.
CallsReturn == []<>(\A k \in Calls : call[k] = None)

=============================================================================

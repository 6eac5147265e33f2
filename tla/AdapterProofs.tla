---------------------------- MODULE AdapterProofs ----------------------------
(***************************************************************************)
(* Proofs about the MCP adapter for every value of its constants: what was  *)
(* submitted is journaled and stays with its session, a sequential batch    *)
(* keeps its order, reports stay true and a refusal has its cause; over any *)
(* number of processes, calls, capabilities, faults and crashes.        *)
(***************************************************************************)
EXTENDS Adapter, ApiProofs, WellFoundedInduction

\* Submission of command c as step r[2] of operation r[1] under grant g follows the
\* journaled plan.
Planned(g, r, c) ==
    /\ operation[r[1]] # None
    /\ operation[r[1]].session = g
    /\ r[2] \in DOMAIN operation[r[1]].plan.commands
    /\ operation[r[1]].plan.commands[r[2]] = c

\* The step has ended, or was answered without a result.
Settled(r) == r \in passed \/ (JobOf(r) # None /\ JobOf(r).status \in Terminal)

\* The step before r in a sequential operation is settled.
Follows(r) == ~operation[r[1]].plan.parallel /\ r[2] > 1 => Settled(<<r[1], r[2] - 1>>)

\* Every job and every submission still on the wire is a planned one, in order, and
\* a job is one that its grant permits.
ServedInv ==
    /\ \A m \in wire : Planned(m[1], m[2], m[3]) /\ Follows(m[2])
    /\ \A g \in Grants, r \in Requests, c \in Commands :
         jobs[g][r] # None /\ jobs[g][r].command = c => Planned(g, r, c) /\ Follows(r) /\ c \in Permitted[g]

\* A call runs a journaled operation under the session of that operation.
CallInv ==
    \A k \in Calls : call[k] # None =>
        /\ operation[call[k].op] # None
        /\ operation[call[k].op].session = call[k].grant
        /\ DOMAIN call[k].steps = DOMAIN operation[call[k].op].plan.commands

\* What the progress of a step says about its job.
Known(r, status) ==
    /\ status = "waiting" => JobOf(r) # None
    /\ status \in {"awaiting_approval", "denied"} => r \in passed
    /\ status \in {"succeeded", "failed", "expired", "cancelled"} =>
         JobOf(r) # None /\ JobOf(r).status \in Terminal /\ ModelStatus(JobOf(r).status) = status
    /\ status # "running"

StepInv ==
    \A k \in Calls, r \in Requests, status \in Progress :
        call[k] # None /\ call[k].op = r[1] /\ r[2] \in DOMAIN call[k].steps /\ call[k].steps[r[2]] = status
            => Known(r, status)

\* An operation is in the file unless a stale copy of the journal was written.
JournalInv == \A o \in Ops : operation[o] # None => o \in journal \/ clobbered

SentInv == \A s \in sent : operation[s[2]] # None /\ operation[s[2]].session = s[1]

\* An operation reported succeeded has succeeded in every step.
ClaimInv ==
    \A o \in claimed : /\ operation[o] # None
                       /\ \A i \in DOMAIN operation[o].plan.commands :
                            JobOf(<<o, i>>) # None /\ JobOf(<<o, i>>).status = "succeeded"

\* The cause of a refusal.
Cause(x) ==
    \/ x[2] \in {"staged", "expired", "canceled"}
       /\ JobOf(x[1]) # None /\ JobOf(x[1]).status \in {"expired", "canceled"}
    \/ /\ x[2] = "none" /\ JobOf(x[1]) = None
       /\ operation[x[1][1]].plan.commands[x[1][2]] \notin Permitted[operation[x[1][1]].session]

\* A step that was refused is one of a journaled operation, for a cause.
RefusalInv ==
    /\ \A x \in refused : operation[x[1][1]] # None
    /\ "403" \notin masked => \A x \in refused : Cause(x)

AdapterInv ==
    TypeOK /\ ServedInv /\ CallInv /\ StepInv /\ JournalInv /\ SentInv /\ ClaimInv /\ RefusalInv

-----------------------------------------------------------------------------
(* Typed records *)

\* A journaled operation has a plan with a step or more.
LEMMA PlanTyped ==
    ASSUME TypeOK, NEW o \in Ops, operation[o] # None
    PROVE  /\ operation[o].session \in Grants /\ operation[o].plan \in Plans
           /\ operation[o].plan.commands \in Seq(Commands)
           /\ Len(operation[o].plan.commands) \in 1..MaxSteps
           /\ DOMAIN operation[o].plan.commands = 1..Len(operation[o].plan.commands)
<1>1. operation[o] \in Operation
  BY DEF TypeOK
<1>2. operation[o].session \in Grants /\ operation[o].plan \in Plans
  BY <1>1 DEF Operation
<1>3. operation[o].plan \in Plan /\ Len(operation[o].plan.commands) \in 1..MaxSteps
  BY <1>2, AdapterAssumption
<1> QED
  BY <1>2, <1>3 DEF Plan

\* A call at work has its fields.
LEMMA CallTyped ==
    ASSUME TypeOK, NEW k \in Calls, call[k] # None
    PROVE  /\ call[k] \in Call /\ call[k].proc \in Procs /\ call[k].grant \in Grants
           /\ call[k].op \in Ops /\ call[k].steps \in Seq(Progress)
  BY DEF TypeOK, Call

\* A step of a call is a step of its operation.
LEMMA StepTyped ==
    ASSUME TypeOK, CallInv, NEW k \in Calls, call[k] # None, NEW i \in DOMAIN call[k].steps
    PROVE  /\ <<call[k].op, i>> \in Requests /\ call[k].steps[i] \in Progress
           /\ OpOf(k).plan.commands[i] \in Commands
           /\ i \in Nat
           /\ Planned(call[k].grant, <<call[k].op, i>>, OpOf(k).plan.commands[i])
<1>1. call[k].op \in Ops /\ call[k].steps \in Seq(Progress)
  BY CallTyped
<1>2. /\ operation[call[k].op] # None /\ operation[call[k].op].session = call[k].grant
      /\ i \in DOMAIN operation[call[k].op].plan.commands
  BY DEF CallInv
<1>3. /\ operation[call[k].op].plan.commands \in Seq(Commands)
      /\ Len(operation[call[k].op].plan.commands) \in 1..MaxSteps
      /\ i \in 1..Len(operation[call[k].op].plan.commands)
  BY <1>1, <1>2, PlanTyped
<1>4. i \in 1..MaxSteps
  <2>1. PICK n \in 1..MaxSteps : i \in 1..n
    BY <1>3
  <2> QED
    BY <2>1, AdapterAssumption
<1> QED
  BY <1>1, <1>2, <1>3, <1>4, AdapterAssumption DEF OpOf, Planned

\* One step of one call advances.
LEMMA StepSet ==
    ASSUME TypeOK, NEW k \in Calls, call[k] # None, NEW i \in DOMAIN call[k].steps,
           NEW status \in Progress, SetStep(k, i, status)
    PROVE  /\ call' \in [Calls -> Call \cup {None}]
           /\ call'[k] # None /\ call'[k].op = call[k].op /\ call'[k].grant = call[k].grant
           /\ DOMAIN call'[k].steps = DOMAIN call[k].steps
           /\ call'[k].steps[i] = status
           /\ \A j \in DOMAIN call[k].steps : j # i => call'[k].steps[j] = call[k].steps[j]
           /\ \A l \in Calls : l # k => call'[l] = call[l]
<1>1. /\ call[k] \in Call /\ call[k].steps \in Seq(Progress) /\ call \in [Calls -> Call \cup {None}]
  BY CallTyped DEF TypeOK
<1>2. PICK steps \in Seq(Progress) : steps = [call[k].steps EXCEPT ![i] = status]
  <2>1. call[k].steps \in [1..Len(call[k].steps) -> Progress] /\ Len(call[k].steps) \in Nat
    BY <1>1
  <2>2. [call[k].steps EXCEPT ![i] = status] \in [1..Len(call[k].steps) -> Progress]
    BY <2>1
  <2>3. \A n \in Nat : [1..n -> Progress] \subseteq Seq(Progress)
    OBVIOUS
  <2> QED
    BY <2>1, <2>2, <2>3
<1>3. PICK next \in Call : next = [call[k] EXCEPT !.steps = steps]
  BY <1>1 DEF Call
<1>4. call' = [call EXCEPT ![k] = next]
  BY <1>2, <1>3 DEF SetStep
<1>5. /\ next.op = call[k].op /\ next.grant = call[k].grant /\ next.steps = steps
  BY <1>1, <1>3 DEF Call
<1>6. /\ DOMAIN steps = DOMAIN call[k].steps /\ steps[i] = status
      /\ \A j \in DOMAIN call[k].steps : j # i => steps[j] = call[k].steps[j]
  BY <1>1, <1>2
<1>7. call' \in [Calls -> Call \cup {None}] /\ call'[k] = next /\ \A l \in Calls : l # k => call'[l] = call[l]
  BY <1>1, <1>4
<1>8. next # None
  BY AbsentAssumption
<1> QED
  BY <1>5, <1>6, <1>7, <1>8

-----------------------------------------------------------------------------
(* What stays *)

\* Jobs are created as planned and in order, and then keep their command; one that
\* has ended does not change any more.
JobsMove ==
    \A g \in Grants, r \in Requests :
        \/ jobs'[g][r] = jobs[g][r]
        \/ /\ jobs[g][r] # None /\ jobs[g][r].status \notin Terminal
           /\ jobs'[g][r] # None /\ jobs'[g][r].command = jobs[g][r].command
        \/ /\ jobs[g][r] = None /\ jobs'[g][r] # None
           /\ Planned(g, r, jobs'[g][r].command) /\ Follows(r) /\ jobs'[g][r].command \in Permitted[g]

\* Operations are never rewritten, and what is settled stays so.
Grows ==
    /\ \A o \in Ops : operation[o] # None => operation'[o] = operation[o]
    /\ passed \subseteq passed'
    /\ JobsMove

\* What a growing state keeps, for the steps of journaled operations.
LEMMA Stays ==
    ASSUME TypeOK, Grows, NEW r \in Requests, operation[r[1]] # None
    PROVE  /\ operation'[r[1]] = operation[r[1]]
           /\ \A g, c : Planned(g, r, c) => Planned(g, r, c)'
           /\ Settled(r) => Settled(r)'
           /\ Follows(r) => Follows(r)'
           /\ \A status : Known(r, status) => Known(r, status)'
<1>1. r[1] \in Ops /\ r[2] \in 1..MaxSteps /\ r = <<r[1], r[2]>>
  BY AdapterAssumption
<1>2. operation'[r[1]] = operation[r[1]] /\ operation[r[1]].session \in Grants
  BY <1>1, PlanTyped DEF Grows
<1>3. \A g, c : Planned(g, r, c) => Planned(g, r, c)'
  BY <1>2 DEF Planned
<1>4. ASSUME NEW q \in Requests, q[1] = r[1]
      PROVE  /\ q \in passed => q \in passed'
             /\ JobOf(q) # None => /\ JobOf(q)' # None
                                   /\ JobOf(q).status \in Terminal => JobOf(q)' = JobOf(q)
  BY <1>2, <1>4 DEF JobOf, Grows, JobsMove
<1>5. Settled(r) => Settled(r)'
  BY <1>4 DEF Settled
<1>6. Follows(r) => Follows(r)'
  <2> SUFFICES ASSUME Follows(r), ~operation[r[1]].plan.parallel, r[2] > 1
               PROVE  Settled(<<r[1], r[2] - 1>>)'
    BY <1>2 DEF Follows
  <2>1. <<r[1], r[2] - 1>> \in Requests
    BY <1>1, AdapterAssumption
  <2>2. PICK q \in Requests : q = <<r[1], r[2] - 1>> /\ q[1] = r[1]
    BY <2>1
  <2>3. Settled(q)
    BY <2>2 DEF Follows
  <2>4. Settled(q)'
    BY <1>4, <2>2, <2>3 DEF Settled
  <2> QED
    BY <2>2, <2>4
<1>7. \A status : Known(r, status) => Known(r, status)'
  BY <1>4 DEF Known
<1> QED
  BY <1>2, <1>3, <1>5, <1>6, <1>7

\* New messages on the wire are planned ones in order.
WireMove == \A m \in wire' : m \in wire \/ (Planned(m[1], m[2], m[3]) /\ Follows(m[2]))

\* The jobs and the wire stay as planned.
LEMMA ServedKept ==
    ASSUME TypeOK, TypeOK', ServedInv, Grows, WireMove
    PROVE  ServedInv'
<1>1. ASSUME NEW m \in wire' PROVE Planned(m[1], m[2], m[3])' /\ Follows(m[2])'
  <2>1. m[1] \in Grants /\ m[2] \in Requests /\ m[3] \in Commands
    BY DEF TypeOK, ApiTypeOK
  <2>2. Planned(m[1], m[2], m[3]) /\ Follows(m[2])
    BY DEF ServedInv, WireMove
  <2>3. PICK q \in Requests : q = m[2]
    BY <2>1
  <2>4. operation[q[1]] # None /\ Planned(m[1], q, m[3]) /\ Follows(q)
    BY <2>2, <2>3 DEF Planned
  <2>5. Planned(m[1], q, m[3])' /\ Follows(q)'
    BY <2>4, Stays
  <2> QED
    BY <2>3, <2>5
<1>2. ASSUME NEW g \in Grants, NEW r \in Requests, NEW c \in Commands,
             jobs'[g][r] # None, jobs'[g][r].command = c
      PROVE  Planned(g, r, c)' /\ Follows(r)' /\ c \in Permitted[g]
  <2>2. Planned(g, r, c) /\ Follows(r) /\ c \in Permitted[g]
    BY <1>2 DEF Grows, JobsMove, ServedInv
  <2>3. operation[r[1]] # None
    BY <2>2 DEF Planned
  <2>4. Planned(g, r, c)' /\ Follows(r)'
    BY <2>2, <2>3, Stays
  <2> QED
    BY <2>2, <2>4
<1> QED
  BY <1>1, <1>2, Zenon DEF ServedInv

\* A call starts with every step to do.
Opened(k) ==
    /\ call'[k] # None /\ operation'[call'[k].op] # None
    /\ operation'[call'[k].op].session = call'[k].grant
    /\ DOMAIN call'[k].steps = DOMAIN operation'[call'[k].op].plan.commands
    /\ \A i \in DOMAIN call'[k].steps : call'[k].steps[i] = "todo"

\* A call advances with what is known of its steps.
Advanced(k) ==
    /\ call[k] # None /\ call'[k] # None
    /\ call'[k].op = call[k].op /\ call'[k].grant = call[k].grant
    /\ DOMAIN call'[k].steps = DOMAIN call[k].steps
    /\ \A r \in Requests, status \in Progress :
         call[k].op = r[1] /\ r[2] \in DOMAIN call[k].steps /\ call'[k].steps[r[2]] = status
            => call[k].steps[r[2]] = status \/ Known(r, status)'

CallsMove == \A k \in Calls : call'[k] = call[k] \/ call'[k] = None \/ Opened(k) \/ Advanced(k)

\* What the calls know stays true.
LEMMA CallsKept ==
    ASSUME TypeOK, TypeOK', CallInv, StepInv, Grows, CallsMove
    PROVE  CallInv' /\ StepInv'
<1>1. ASSUME NEW k \in Calls, call'[k] # None
      PROVE  /\ operation'[call'[k].op] # None
             /\ operation'[call'[k].op].session = call'[k].grant
             /\ DOMAIN call'[k].steps = DOMAIN operation'[call'[k].op].plan.commands
  <2>1. CASE Opened(k)
    BY <2>1 DEF Opened
  <2>2. CASE call'[k] = call[k] \/ Advanced(k)
    <3>1. /\ call[k] # None /\ call'[k].op = call[k].op /\ call'[k].grant = call[k].grant
          /\ DOMAIN call'[k].steps = DOMAIN call[k].steps
      BY <1>1, <2>2 DEF Advanced
    <3>2. call[k].op \in Ops
      BY <3>1, CallTyped
    <3>3. operation'[call[k].op] = operation[call[k].op]
      BY <3>1, <3>2 DEF CallInv, Grows
    <3> QED
      BY <3>1, <3>3 DEF CallInv
  <2> QED
    BY <1>1, <2>1, <2>2 DEF CallsMove
<1>2. ASSUME NEW k \in Calls, NEW r \in Requests, NEW status \in Progress,
             call'[k] # None, call'[k].op = r[1], r[2] \in DOMAIN call'[k].steps,
             call'[k].steps[r[2]] = status
      PROVE  Known(r, status)'
  <2>1. CASE Opened(k)
    <3>1. status = "todo"
      BY <1>2, <2>1 DEF Opened
    <3> QED
      BY <3>1 DEF Known
  <2>2. CASE call'[k] = call[k] \/ Advanced(k)
    <3>1. /\ call[k] # None /\ call[k].op = r[1] /\ r[2] \in DOMAIN call[k].steps
          /\ call[k].steps[r[2]] = status \/ Known(r, status)'
      BY <1>2, <2>2 DEF Advanced
    <3>2. CASE call[k].steps[r[2]] = status
      <4>1. Known(r, status) /\ operation[r[1]] # None
        BY <3>1, <3>2 DEF StepInv, CallInv
      <4> QED
        BY <4>1, Stays
    <3> QED
      BY <3>1, <3>2
  <2> QED
    BY <1>2, <2>1, <2>2 DEF CallsMove
<1>3. CallInv'
  BY <1>1 DEF CallInv
<1>4. StepInv'
  BY <1>2 DEF StepInv
<1> QED
  BY <1>3, <1>4

\* What was reported succeeded stays so.
LEMMA ClaimKept ==
    ASSUME TypeOK, ClaimInv, Grows, NEW o \in claimed, o \in Ops
    PROVE  /\ operation'[o] # None
           /\ \A i \in DOMAIN operation'[o].plan.commands :
                JobOf(<<o, i>>)' # None /\ JobOf(<<o, i>>)'.status = "succeeded"
<1>1. operation[o] # None /\ operation'[o] = operation[o]
  BY DEF ClaimInv, Grows
<1>2. ASSUME NEW i \in DOMAIN operation[o].plan.commands
      PROVE  JobOf(<<o, i>>)' # None /\ JobOf(<<o, i>>)'.status = "succeeded"
  <2>1. JobOf(<<o, i>>) # None /\ JobOf(<<o, i>>).status = "succeeded"
    BY DEF ClaimInv
  <2>2. i \in 1..Len(operation[o].plan.commands) /\ Len(operation[o].plan.commands) \in 1..MaxSteps
    BY <1>1, PlanTyped
  <2>3. i \in 1..MaxSteps
    <3>1. PICK n \in 1..MaxSteps : i \in 1..n
      BY <2>2
    <3> QED
      BY <3>1, AdapterAssumption
  <2>4. <<o, i>> \in Requests /\ operation[o].session \in Grants
    BY <1>1, <2>3, AdapterAssumption, PlanTyped
  <2>5. jobs[operation[o].session][<<o, i>>] # None /\ jobs[operation[o].session][<<o, i>>].status = "succeeded"
    BY <2>1 DEF JobOf
  <2>6. jobs'[operation[o].session][<<o, i>>] = jobs[operation[o].session][<<o, i>>]
    BY <2>4, <2>5 DEF Grows, JobsMove, Terminal
  <2> QED
    BY <1>1, <2>5, <2>6 DEF JobOf
<1> QED
  BY <1>1, <1>2

\* The file keeps what it has while nothing is written to it, and the steps that
\* were sent stay with their session.
LEMMA HistoryKept ==
    ASSUME TypeOK, TypeOK', JournalInv, SentInv, ClaimInv, Grows,
           operation' = operation /\ journal' = journal /\ clobbered' = clobbered,
           sent' = sent, claimed' = claimed
    PROVE  JournalInv' /\ SentInv' /\ ClaimInv'
<1>1. JournalInv' /\ SentInv'
  BY DEF JournalInv, SentInv
<1>2. claimed \subseteq Ops
  BY DEF TypeOK
<1>3. ClaimInv'
  BY <1>2, ClaimKept DEF ClaimInv
<1> QED
  BY <1>1, <1>3

\* The cause of a refusal stays.
LEMMA CauseStays ==
    ASSUME TypeOK, ServedInv, Grows, NEW x \in refused, operation[x[1][1]] # None, Cause(x)
    PROVE  Cause(x)'
<1>1. PICK r \in Requests : r = x[1] /\ r[1] \in Ops
  BY AdapterAssumption DEF TypeOK
<1>2. PICK g \in Grants : g = operation[r[1]].session
  BY <1>1, PlanTyped
<1>3. operation'[r[1]] = operation[r[1]] /\ JobOf(r) = jobs[g][r] /\ JobOf(r)' = jobs'[g][r]
  BY <1>1, <1>2 DEF Grows, JobOf
<1>4. CASE jobs[g][r] # None /\ jobs[g][r].status \in {"expired", "canceled"}
  <2>1. jobs'[g][r] = jobs[g][r]
    BY <1>4 DEF Grows, JobsMove, Terminal
  <2>2. x[2] \in {"staged", "expired", "canceled"}
    BY <1>1, <1>3, <1>4 DEF Cause
  <2> QED
    BY <1>1, <1>3, <1>4, <2>1, <2>2 DEF Cause
<1>5. CASE /\ x[2] = "none" /\ jobs[g][r] = None
           /\ operation[r[1]].plan.commands[r[2]] \notin Permitted[g]
  <2>1. jobs'[g][r] = None
    BY <1>5 DEF Grows, JobsMove, Planned
  <2> QED
    BY <1>1, <1>2, <1>3, <1>5, <2>1 DEF Cause
<1> QED
  BY <1>1, <1>2, <1>3, <1>4, <1>5 DEF Cause

\* The refusals keep their cause while none is added.
LEMMA RefusalsKept ==
    ASSUME TypeOK, ServedInv, RefusalInv, Grows, refused' = refused, masked \subseteq masked'
    PROVE  RefusalInv'
<1>1. ASSUME NEW x \in refused PROVE operation[x[1][1]] # None /\ operation'[x[1][1]] # None
  <2>1. x[1] \in Requests
    BY DEF TypeOK
  <2>2. x[1][1] \in Ops
    BY <2>1, AdapterAssumption
  <2> QED
    BY <2>2 DEF RefusalInv, Grows
<1>2. "403" \notin masked' => "403" \notin masked
  OBVIOUS
<1>3. "403" \notin masked' => \A x \in refused : Cause(x)'
  BY <1>1, <1>2, CauseStays DEF RefusalInv
<1> QED
  BY <1>1, <1>3 DEF RefusalInv

-----------------------------------------------------------------------------
(* The actions *)

\* A planned submission in order, served in any way, moves the jobs as allowed.
LEMMA PutsMove ==
    ASSUME TypeOK, NEW g \in Grants, NEW r \in Requests, NEW c \in Commands,
           Puts(g, r, c), Planned(g, r, c), Follows(r)
    PROVE  JobsMove
<1>1. CASE jobs' = jobs
  BY <1>1 DEF JobsMove
<1>2. CASE jobs' # jobs
  <2>1. /\ \/ jobs[g][r] = None /\ c \in Permitted[g]
           \/ jobs[g][r] # None /\ jobs[g][r].status = "staged" /\ jobs[g][r].command = c
        /\ jobs'[g][r] # None /\ jobs'[g][r].command = c
        /\ \A h \in Grants, q \in Requests : <<h, q>> # <<g, r>> => jobs'[h][q] = jobs[h][q]
    BY <1>2 DEF Puts
  <2>2. \/ jobs[g][r] # None /\ jobs[g][r].status \notin Terminal /\ jobs'[g][r].command = jobs[g][r].command
        \/ jobs[g][r] = None /\ Planned(g, r, jobs'[g][r].command) /\ jobs'[g][r].command \in Permitted[g]
    BY <2>1 DEF Terminal
  <2> QED
    BY <2>1, <2>2 DEF JobsMove
<1> QED
  BY <1>1, <1>2

\* The Agent API moves on by itself.
LEMMA ApiKept ==
    ASSUME AdapterInv, ApiNext \/ (\E g \in Grants : EndGrant(g)), UNCHANGED outside
    PROVE  AdapterInv'
<1>0. /\ TypeOK /\ ServedInv /\ CallInv /\ StepInv /\ JournalInv /\ SentInv /\ ClaimInv
      /\ RefusalInv /\ ApiTypeOK
  BY DEF AdapterInv, TypeOK
<1>1. UNCHANGED <<operation, journal, memory, capability, installed, clobbered, call, begun, sent, passed,
                  claimed, refused>>
  BY DEF outside, files, history
<1>2. ApiTypeOK' /\ masked' = masked /\ JobsMove /\ wire' \subseteq wire
  <2>1. CASE Deliver
    <3>1. /\ ApiTypeOK' /\ wire' \subseteq wire /\ masked' = masked
          /\ \E m \in wire : Puts(m[1], m[2], m[3])
      BY <1>0, <2>1, DeliverServes
    <3>2. PICK m \in wire : Puts(m[1], m[2], m[3])
      BY <3>1
    <3>3. m[1] \in Grants /\ m[2] \in Requests /\ m[3] \in Commands
      BY <1>0 DEF ApiTypeOK
    <3>4. Planned(m[1], m[2], m[3]) /\ Follows(m[2])
      BY <1>0 DEF ServedInv
    <3> QED
      BY <1>0, <3>1, <3>2, <3>3, <3>4, PutsMove
  <2>2. ASSUME NEW g \in Grants, NEW c \in Commands, Decide(g, c)
        PROVE  ApiTypeOK' /\ masked' = masked /\ JobsMove /\ wire' \subseteq wire
    BY <1>0, <2>2, DecideTyped DEF JobsMove
  <2>3. ASSUME NEW g \in Grants, NEW r \in Requests, EndJob(g, r)
        PROVE  ApiTypeOK' /\ masked' = masked /\ JobsMove /\ wire' \subseteq wire
    <3>1. ApiTypeOK' /\ Ends(g, r) /\ masked' = masked /\ wire' = wire
      BY <1>0, <2>3, EndJobEnds DEF EndJob
    <3> QED
      BY <3>1 DEF Ends, JobsMove, Terminal
  <2>4. ASSUME NEW g \in Grants, EndGrant(g)
        PROVE  ApiTypeOK' /\ masked' = masked /\ JobsMove /\ wire' \subseteq wire
    BY <1>0, <2>4, EndGrantTyped DEF JobsMove
  <2> QED
    BY <2>1, <2>2, <2>3, <2>4 DEF ApiNext
<1>3. TypeOK'
  BY <1>0, <1>1, <1>2 DEF TypeOK
<1>4. Grows /\ WireMove /\ CallsMove
  BY <1>1, <1>2 DEF Grows, WireMove, CallsMove
<1>5. RefusalInv'
  BY <1>0, <1>1, <1>2, <1>4, RefusalsKept
<1>6. ServedInv' /\ CallInv' /\ StepInv'
  BY <1>0, <1>3, <1>4, ServedKept, CallsKept
<1>7. JournalInv' /\ SentInv' /\ ClaimInv'
  BY <1>0, <1>1, <1>3, <1>4, HistoryKept
<1> QED
  BY <1>3, <1>5, <1>6, <1>7 DEF AdapterInv

\* A step that leaves jobs, wire, operations and histories alone keeps them; its
\* calls are the same, over, or know more.
LEMMA QuietKept ==
    ASSUME AdapterInv, TypeOK', UNCHANGED <<jobs, wire, operation, journal, clobbered, sent, passed, claimed,
           refused>>, masked \subseteq masked', CallsMove
    PROVE  AdapterInv'
<1>0. /\ TypeOK /\ ServedInv /\ CallInv /\ StepInv /\ JournalInv /\ SentInv /\ ClaimInv
      /\ RefusalInv
  BY DEF AdapterInv
<1>1. Grows /\ WireMove
  BY DEF Grows, JobsMove, WireMove
<1>2. ServedInv' /\ CallInv' /\ StepInv'
  BY <1>0, <1>1, ServedKept, CallsKept
<1>3. JournalInv' /\ SentInv' /\ ClaimInv'
  BY <1>0, <1>1, HistoryKept
<1>4. RefusalInv'
  BY <1>0, <1>1, RefusalsKept
<1> QED
  BY <1>2, <1>3, <1>4 DEF AdapterInv

\* Processes start and crash, capabilities are replaced, clients go away.
LEMMA ProcessKept ==
    ASSUME AdapterInv,
           \/ \E p \in Procs : OpenFileJournal(p) \/ Crash(p)
           \/ \E g \in Grants : Install(g)
           \/ \E k \in Calls : Interrupt(k)
    PROVE  AdapterInv'
<1>0. TypeOK /\ ApiTypeOK
  BY DEF AdapterInv, TypeOK
<1>1. ASSUME NEW p \in Procs, OpenFileJournal(p) PROVE AdapterInv'
  <2>1. memory' = [memory EXCEPT ![p] = journal] /\ call' = call
        /\ UNCHANGED <<apiVars, operation, journal, capability, installed, begun, history, clobbered>>
    BY <1>1 DEF OpenFileJournal
  <2>2. TypeOK'
    <3>1. ApiTypeOK'
      BY <1>0, <2>1 DEF apiVars, ApiTypeOK
    <3>2. memory' \in [Procs -> (SUBSET Ops) \cup {None}]
      BY <1>0, <2>1 DEF TypeOK
    <3>3. \A o \in Ops : operation'[o] = None =>
            o \notin journal' /\ \A q \in Procs : memory'[q] # None => o \notin memory'[q]
      BY <1>0, <2>1 DEF TypeOK
    <3> QED
      BY <1>0, <2>1, <3>1, <3>2, <3>3 DEF TypeOK, history
  <2> QED
    BY <2>1, <2>2, QuietKept DEF apiVars, history, CallsMove
<1>2. ASSUME NEW p \in Procs, Crash(p) PROVE AdapterInv'
  <2>1. /\ memory' = [memory EXCEPT ![p] = None] /\ Fault
        /\ call' = [k \in Calls |-> IF call[k] # None /\ call[k].proc = p THEN None ELSE call[k]]
        /\ UNCHANGED <<jobs, approval, live, wire, masked, operation, journal, capability,
                       installed, begun, history, clobbered>>
    BY <1>2 DEF Crash
  <2>2. TypeOK'
    <3>1. ApiTypeOK'
      BY <1>0, <2>1, ApiAssumption DEF ApiTypeOK, Fault
    <3>2. memory' \in [Procs -> (SUBSET Ops) \cup {None}] /\ call' \in [Calls -> Call \cup {None}]
      BY <1>0, <2>1 DEF TypeOK
    <3>3. \A o \in Ops : operation'[o] = None =>
            o \notin journal' /\ \A q \in Procs : memory'[q] # None => o \notin memory'[q]
      BY <1>0, <2>1 DEF TypeOK
    <3> QED
      BY <1>0, <2>1, <3>1, <3>2, <3>3 DEF TypeOK, history
  <2> QED
    BY <2>1, <2>2, QuietKept DEF history, CallsMove
<1>3. ASSUME NEW g \in Grants, Install(g) PROVE AdapterInv'
  <2>1. TypeOK'
    BY <1>0, <1>3 DEF Install, TypeOK, ApiTypeOK, apiVars, history
  <2> QED
    BY <1>3, <2>1, QuietKept DEF Install, apiVars, history, CallsMove
<1>4. ASSUME NEW k \in Calls, Interrupt(k) PROVE AdapterInv'
  <2>1. /\ Fault /\ call' = [call EXCEPT ![k] = None]
        /\ UNCHANGED <<jobs, approval, live, wire, masked, files, begun, history>>
    BY <1>4 DEF Interrupt
  <2>2. ApiTypeOK'
    BY <1>0, <2>1, ApiAssumption DEF ApiTypeOK, Fault
  <2>3. call' \in [Calls -> Call \cup {None}] /\ CallsMove
    BY <1>0, <2>1 DEF TypeOK, CallsMove
  <2>4. TypeOK'
    BY <1>0, <2>1, <2>2, <2>3 DEF TypeOK, files, history
  <2> QED
    BY <2>1, <2>3, <2>4, QuietKept DEF files, history
<1> QED
  BY <1>1, <1>2, <1>3, <1>4

\* A new call, of an operation that is journaled by now.
LEMMA CallOpens ==
    ASSUME TypeOK, NEW k \in Calls, NEW p \in Procs, NEW o \in Ops, NEW n \in Nat, NewCall(k, p, o, n)
    PROVE  /\ begun' \in 0..MaxCalls /\ call' \in [Calls -> Call \cup {None}]
           /\ \A l \in Calls : l # k => call'[l] = call[l]
           /\ call'[k] # None /\ call'[k].op = o /\ call'[k].grant = capability
           /\ DOMAIN call'[k].steps = 1..n /\ \A i \in 1..n : call'[k].steps[i] = "todo"
<1>1. PICK steps \in Seq(Progress) : steps = [i \in 1..n |-> "todo"]
  <2>1. [i \in 1..n |-> "todo"] \in [1..n -> Progress]
    BY DEF Progress
  <2>2. [1..n -> Progress] \subseteq Seq(Progress)
    OBVIOUS
  <2> QED
    BY <2>1, <2>2
<1>2. capability \in Grants /\ call \in [Calls -> Call \cup {None}]
  BY DEF TypeOK
<1>3. PICK next \in Call : next = [proc |-> p, grant |-> capability, op |-> o, steps |-> steps]
  BY <1>2 DEF Call
<1>4. call' = [call EXCEPT ![k] = next]
  BY <1>1, <1>3 DEF NewCall
<1>5. next # None /\ next.op = o /\ next.grant = capability /\ next.steps = steps
  BY <1>3, AbsentAssumption
<1>6. begun' \in 0..MaxCalls
  BY AdapterAssumption DEF NewCall, TypeOK
<1> QED
  BY <1>1, <1>2, <1>4, <1>5, <1>6

\* sentinel_check and sentinel_output.
LEMMA ReadKept ==
    ASSUME AdapterInv, NEW k \in Calls, NEW p \in Procs,
           \/ \E o \in Ops : Check(k, p, o)
           \/ \E r \in Requests : Output(k, p, r[1], r[2])
    PROVE  AdapterInv'
<1>0. TypeOK /\ ApiTypeOK
  BY DEF AdapterInv, TypeOK
<1>1. ASSUME NEW o \in Ops, Check(k, p, o) PROVE AdapterInv'
  <2>1. /\ memory[p] # None /\ o \in memory[p] /\ operation[o].session = capability
        /\ NewCall(k, p, o, Len(operation[o].plan.commands))
        /\ UNCHANGED <<apiVars, files, history>>
    BY <1>1 DEF Check, Get, Service
  <2>2. operation[o] # None
    BY <1>0, <2>1 DEF TypeOK
  <2>3. /\ Len(operation[o].plan.commands) \in Nat
        /\ DOMAIN operation[o].plan.commands = 1..Len(operation[o].plan.commands)
    BY <1>0, <2>2, PlanTyped
  <2>4. /\ begun' \in 0..MaxCalls /\ call' \in [Calls -> Call \cup {None}]
        /\ \A l \in Calls : l # k => call'[l] = call[l]
        /\ call'[k] # None /\ call'[k].op = o /\ call'[k].grant = capability
        /\ DOMAIN call'[k].steps = DOMAIN operation[o].plan.commands
        /\ \A i \in DOMAIN operation[o].plan.commands : call'[k].steps[i] = "todo"
    BY <1>0, <2>1, <2>3, CallOpens
  <2>5. operation' = operation
    BY <2>1 DEF files
  <2>6. CallsMove
    BY <2>1, <2>2, <2>4, <2>5 DEF CallsMove, Opened
  <2>7. ApiTypeOK'
    BY <1>0, <2>1 DEF ApiTypeOK, apiVars
  <2>8. TypeOK'
    BY <1>0, <2>1, <2>4, <2>7 DEF TypeOK, files, history
  <2> QED
    BY <2>1, <2>6, <2>8, QuietKept DEF apiVars, files, history
<1>2. ASSUME NEW r \in Requests, Output(k, p, r[1], r[2]) PROVE AdapterInv'
  <2>1. PICK reply : Lookup(capability, r, reply)
    <3>1. r = <<r[1], r[2]>>
      BY AdapterAssumption
    <3> QED
      BY <1>2, <3>1 DEF Output
  <2>2. capability \in Grants
    BY <1>0 DEF TypeOK
  <2>3. /\ ApiTypeOK' /\ masked \subseteq masked' /\ UNCHANGED <<jobs, approval, live, wire>>
    BY <1>0, <2>1, <2>2, LookupReads
  <2>4. UNCHANGED <<operation, journal, memory, capability, installed, clobbered, call, begun, sent, passed,
                    claimed, refused>>
    BY <1>2 DEF Output, outside, files, history
  <2>5. TypeOK'
    BY <1>0, <2>3, <2>4 DEF TypeOK
  <2> QED
    BY <2>3, <2>4, <2>5, QuietKept DEF CallsMove
<1> QED
  BY <1>1, <1>2

\* The tools that start work: the operation is journaled and its call begins.
LEMMA CreateKept ==
    ASSUME AdapterInv, NEW k \in Calls, NEW p \in Procs, NEW plan \in Plans, CreateOperation(k, p, plan)
    PROVE  AdapterInv'
<1>0. /\ TypeOK /\ ApiTypeOK /\ ServedInv /\ CallInv /\ StepInv /\ JournalInv /\ SentInv /\ ClaimInv
      /\ RefusalInv
  BY DEF AdapterInv, TypeOK
<1>1. PICK o \in Ops : Create(p, o, plan) /\ NewCall(k, p, o, Len(plan.commands))
  BY DEF CreateOperation
<1>2. memory[p] # None /\ UNCHANGED <<apiVars, history>>
  BY DEF CreateOperation, Service
<1>3. memory[p] \subseteq Ops /\ capability \in Grants /\ operation \in [Ops -> Operation \cup {None}]
  BY <1>0, <1>2 DEF TypeOK
<1>4. PICK new \in Operation : new = [session |-> capability, plan |-> plan]
  BY <1>3 DEF Operation
<1>5. /\ operation[o] = None /\ operation' = [operation EXCEPT ![o] = new]
      /\ memory' = [memory EXCEPT ![p] = memory[p] \cup {o}]
      /\ journal' = memory[p] \cup {o}
      /\ clobbered' = (clobbered \/ ~(journal \subseteq memory[p] \cup {o}))
      /\ UNCHANGED <<capability, installed>>
  BY <1>1, <1>4 DEF Create, Fresh
<1>6. new # None /\ new.session = capability /\ new.plan = plan
  BY <1>4, AbsentAssumption
<1>7. /\ operation' \in [Ops -> Operation \cup {None}] /\ operation'[o] = new
      /\ \A q \in Ops : q # o => operation'[q] = operation[q]
  BY <1>3, <1>5
<1>8. plan.commands \in Seq(Commands) /\ Len(plan.commands) \in Nat
      /\ DOMAIN plan.commands = 1..Len(plan.commands)
  BY AdapterAssumption DEF Plan
<1>9. /\ begun' \in 0..MaxCalls /\ call' \in [Calls -> Call \cup {None}]
      /\ \A l \in Calls : l # k => call'[l] = call[l]
      /\ call'[k] # None /\ call'[k].op = o /\ call'[k].grant = capability
      /\ DOMAIN call'[k].steps = DOMAIN plan.commands
      /\ \A i \in DOMAIN plan.commands : call'[k].steps[i] = "todo"
  BY <1>0, <1>1, <1>8, CallOpens
<1>10. TypeOK'
  <2>1. ApiTypeOK'
    BY <1>0, <1>2 DEF ApiTypeOK, apiVars
  <2>2. memory' \in [Procs -> (SUBSET Ops) \cup {None}] /\ journal' \subseteq Ops
    BY <1>0, <1>3, <1>5 DEF TypeOK
  <2>3. clobbered' \in BOOLEAN
    BY <1>5
  <2>4. \A q \in Ops : operation'[q] = None =>
            q \notin journal' /\ \A s \in Procs : memory'[s] # None => q \notin memory'[s]
    <3> SUFFICES ASSUME NEW q \in Ops, operation'[q] = None
                 PROVE  q \notin journal' /\ \A s \in Procs : memory'[s] # None => q \notin memory'[s]
      OBVIOUS
    <3>1. q # o /\ operation[q] = None
      BY <1>6, <1>7
    <3>2. \A s \in Procs : memory[s] # None => q \notin memory[s]
      BY <1>0, <3>1 DEF TypeOK
    <3>3. \A s \in Procs : s # p => memory'[s] = memory[s]
      BY <1>0, <1>5 DEF TypeOK
    <3>4. memory'[p] = memory[p] \cup {o}
      BY <1>0, <1>5 DEF TypeOK
    <3> QED
      BY <1>2, <1>5, <3>1, <3>2, <3>3, <3>4
  <2> QED
    BY <1>0, <1>2, <1>5, <1>7, <1>9, <2>1, <2>2, <2>3, <2>4 DEF TypeOK, history
<1>11. UNCHANGED <<jobs, wire, masked, sent, passed, claimed, refused>>
  BY <1>2 DEF apiVars, history
<1>12. Grows /\ WireMove
  BY <1>5, <1>7, <1>11 DEF Grows, JobsMove, WireMove
<1>13. CallsMove
  BY <1>6, <1>7, <1>9 DEF CallsMove, Opened
<1>14. ServedInv' /\ CallInv' /\ StepInv'
  BY <1>0, <1>10, <1>12, <1>13, ServedKept, CallsKept
<1>15. JournalInv'
  <2> SUFFICES ASSUME NEW q \in Ops, operation'[q] # None, ~clobbered' PROVE q \in journal'
    BY DEF JournalInv
  <2>1. journal \subseteq journal' /\ o \in journal' /\ ~clobbered
    BY <1>5
  <2> QED
    BY <1>0, <1>7, <2>1 DEF JournalInv
<1>16. SentInv'
  BY <1>0, <1>7, <1>5, <1>11 DEF SentInv, TypeOK
<1>17. ClaimInv'
  <2>1. claimed \subseteq Ops
    BY <1>0 DEF TypeOK
  <2> QED
    BY <1>0, <1>11, <1>12, <2>1, ClaimKept DEF ClaimInv
<1>18. RefusalInv'
  BY <1>0, <1>11, <1>12, RefusalsKept
<1> QED
  BY <1>10, <1>14, <1>15, <1>16, <1>17, <1>18 DEF AdapterInv

\* The turn of a step comes when the step before it is settled.
LEMMA TurnFollows ==
    ASSUME AdapterInv, NEW k \in Calls, call[k] # None, NEW i \in DOMAIN call[k].steps, Turn(k, i)
    PROVE  Follows(<<call[k].op, i>>)
<1>0. TypeOK /\ CallInv /\ StepInv
  BY DEF AdapterInv
<1>1. <<call[k].op, i>> \in Requests /\ i \in Nat
  BY <1>0, StepTyped
<1> SUFFICES ASSUME ~operation[call[k].op].plan.parallel, i > 1
             PROVE  Settled(<<call[k].op, i - 1>>)
  BY DEF Follows
<1>2. i - 1 \in DOMAIN call[k].steps /\ i - 1 \in 1..(i - 1)
  <2>1. call[k].steps \in Seq(Progress)
    BY <1>0, CallTyped
  <2> QED
    BY <1>1, <2>1
<1>3. PICK r \in Requests : r = <<call[k].op, i - 1>> /\ r[1] = call[k].op /\ r[2] = i - 1
  BY <1>0, <1>2, StepTyped
<1>4. PICK status \in Progress : status = call[k].steps[r[2]]
  BY <1>0, <1>2, <1>3, StepTyped
<1>5. Answered(status) /\ status # "error"
  BY <1>2, <1>3, <1>4 DEF Turn, OpOf
<1>6. Known(r, status)
  BY <1>0, <1>2, <1>3, <1>4 DEF StepInv
<1> QED
  BY <1>3, <1>5, <1>6 DEF Known, Answered, Progress, Statuses, Settled

\* runStep: the submission of one step and its answer.
LEMMA RunStepKept ==
    ASSUME AdapterInv, NEW k \in Calls, call[k] # None, NEW i \in DOMAIN call[k].steps, RunStep(k, i)
    PROVE  AdapterInv'
<1>0. /\ TypeOK /\ ApiTypeOK /\ ServedInv /\ CallInv /\ StepInv /\ JournalInv /\ SentInv /\ ClaimInv
      /\ RefusalInv
  BY DEF AdapterInv, TypeOK
<1>1. PICK r \in Requests : r = <<call[k].op, i>> /\ r[1] = call[k].op /\ r[2] = i
  BY <1>0, StepTyped
<1>2. PICK c \in Commands : c = OpOf(k).plan.commands[i]
  BY <1>0, StepTyped
<1>3. PICK g \in Grants : g = call[k].grant
  BY <1>0, CallTyped
<1>4. PICK reply \in {"accepted", "approval_required", "deny", "401", "403", "lost"} :
        /\ Submit(g, r, c, reply)
        /\ SetStep(k, i, CASE reply = "accepted" -> "waiting"
                          [] reply = "approval_required" -> "awaiting_approval"
                          [] reply = "deny" -> "denied"
                          [] OTHER -> "error")
        /\ passed' = IF reply \in {"approval_required", "deny"} THEN passed \cup {r} ELSE passed
        /\ refused' = IF reply = "403" THEN refused \cup {<<r, StatusOf(jobs[g][r])>>} ELSE refused
  BY <1>1, <1>2, <1>3 DEF RunStep
<1>5. /\ Turn(k, i) /\ sent' = sent \cup {<<g, call[k].op>>}
      /\ UNCHANGED <<operation, journal, memory, capability, installed, clobbered, begun, claimed>>
  BY <1>3 DEF RunStep, files
<1>6. Planned(g, r, c) /\ Follows(r)
  BY <1>0, <1>1, <1>2, <1>3, <1>5, StepTyped, TurnFollows
<1>7. PICK status \in Progress :
        /\ status = CASE reply = "accepted" -> "waiting"
                      [] reply = "approval_required" -> "awaiting_approval"
                      [] reply = "deny" -> "denied"
                      [] OTHER -> "error"
        /\ SetStep(k, i, status)
  BY <1>4 DEF Progress, Statuses
<1>8. /\ call' \in [Calls -> Call \cup {None}]
      /\ call'[k] # None /\ call'[k].op = call[k].op /\ call'[k].grant = call[k].grant
      /\ DOMAIN call'[k].steps = DOMAIN call[k].steps
      /\ call'[k].steps[i] = status
      /\ \A j \in DOMAIN call[k].steps : j # i => call'[k].steps[j] = call[k].steps[j]
      /\ \A l \in Calls : l # k => call'[l] = call[l]
  BY <1>0, <1>7, StepSet
<1>9. /\ ApiTypeOK' /\ masked \subseteq masked'
      /\ Puts(g, r, c)
      /\ wire' = wire \/ wire' = wire \cup {<<g, r, c>>}
      /\ reply = "accepted" => jobs'[g][r] # None
      /\ reply = "403" => \/ "403" \in masked'
                          \/ c \notin Permitted[g]
                          \/ jobs[g][r] # None /\ jobs[g][r].command # c
                          \/ /\ jobs[g][r] # None /\ jobs'[g][r] # None
                             /\ jobs[g][r].status \in {"staged", "canceled", "expired"}
                             /\ jobs'[g][r].status \in {"canceled", "expired"}
  BY <1>0, <1>4, SubmitServes
<1>10. jobs[g][r] # None => jobs[g][r].command = c /\ c \in Permitted[g]
  <2>1. jobs[g][r] # None => jobs[g][r].command \in Commands
    BY <1>0 DEF ApiTypeOK, Job
  <2> QED
    BY <1>0, <1>6, <2>1 DEF ServedInv, Planned
<1>11. TypeOK'
  <2>1. passed' \subseteq Requests
    BY <1>0, <1>4 DEF TypeOK
  <2>2. StatusOf(jobs[g][r]) \in {"none", "staged", "pending"} \cup Terminal
    BY <1>0 DEF StatusOf, ApiTypeOK, Job
  <2>3. refused' \subseteq Requests \X ({"none", "staged", "pending"} \cup Terminal)
    BY <1>0, <1>4, <2>2 DEF TypeOK
  <2>4. call[k].op \in Ops
    BY <1>0, CallTyped
  <2>5. sent' \subseteq Grants \X Ops
    BY <1>0, <1>5, <2>4 DEF TypeOK
  <2> QED
    BY <1>0, <1>5, <1>8, <1>9, <2>1, <2>3, <2>5 DEF TypeOK
<1>12. JobsMove
  BY <1>0, <1>6, <1>9, PutsMove
<1>13. Grows /\ WireMove
  <2>1. passed \subseteq passed'
    BY <1>4
  <2>2. WireMove
    BY <1>6, <1>9 DEF WireMove
  <2> QED
    BY <1>5, <1>12, <2>1, <2>2 DEF Grows
<1>14. Known(r, status)'
  <2>1. operation' = operation /\ operation[r[1]].session = g
    BY <1>5, <1>6 DEF Planned
  <2>2. reply = "accepted" => JobOf(r)' # None
    BY <1>9, <2>1 DEF JobOf
  <2>3. reply \in {"approval_required", "deny"} => r \in passed'
    BY <1>4
  <2> QED
    BY <1>7, <2>2, <2>3 DEF Known
<1>15. CallsMove
  <2>1. Advanced(k)
    <3>1. ASSUME NEW q \in Requests, NEW s \in Progress, call[k].op = q[1], q[2] \in DOMAIN call[k].steps,
                 call'[k].steps[q[2]] = s
          PROVE  call[k].steps[q[2]] = s \/ Known(q, s)'
      <4>1. CASE q[2] # i
        BY <1>8, <3>1, <4>1
      <4>2. CASE q[2] = i
        <5>1. q = r /\ s = status
          BY <1>1, <1>8, <3>1, <4>2, AdapterAssumption
        <5> QED
          BY <1>14, <5>1
      <4> QED
        BY <4>1, <4>2
    <3> QED
      BY <1>8, <3>1, Zenon DEF Advanced
  <2> QED
    BY <1>8, <2>1 DEF CallsMove
<1>16. ServedInv' /\ CallInv' /\ StepInv'
  BY <1>0, <1>11, <1>13, <1>15, ServedKept, CallsKept
<1>17. JournalInv'
  BY <1>0, <1>5 DEF JournalInv
<1>18. SentInv'
  BY <1>0, <1>1, <1>5, <1>6 DEF SentInv, Planned
<1>19. ClaimInv'
  <2>1. claimed \subseteq Ops /\ claimed' = claimed
    BY <1>0, <1>5 DEF TypeOK
  <2> QED
    BY <1>0, <1>13, <2>1, ClaimKept DEF ClaimInv
<1>20. RefusalInv'
  <2>1. operation' = operation /\ operation[r[1]] # None /\ operation[r[1]].session = g
        /\ operation[r[1]].plan.commands[r[2]] = c
    BY <1>5, <1>6 DEF Planned
  <2>2. ASSUME reply = "403", "403" \notin masked', NEW x, x = <<r, StatusOf(jobs[g][r])>> PROVE Cause(x)'
    <3>1. JobOf(r)' = jobs'[g][r] /\ x[1] = r /\ x[2] = StatusOf(jobs[g][r])
      BY <2>1, <2>2 DEF JobOf
    <3>2. CASE c \notin Permitted[g]
      <4>1. jobs[g][r] = None /\ x[2] = "none"
        BY <1>10, <3>1, <3>2 DEF StatusOf
      <4>2. jobs'[g][r] = None
        BY <1>12, <2>1, <3>2, <4>1 DEF JobsMove, Planned
      <4> QED
        BY <2>1, <3>1, <3>2, <4>1, <4>2 DEF Cause
    <3>3. CASE c \in Permitted[g]
      <4>1. /\ jobs[g][r] # None /\ jobs'[g][r] # None
            /\ jobs[g][r].status \in {"staged", "canceled", "expired"}
            /\ jobs'[g][r].status \in {"canceled", "expired"}
        BY <1>9, <1>10, <2>2, <3>3
      <4> QED
        BY <3>1, <4>1 DEF Cause, StatusOf
    <3> QED
      BY <3>2, <3>3
  <2>3. \A x \in refused : operation[x[1][1]] # None
    BY <1>0 DEF RefusalInv
  <2>4. \A x \in refused' : x \in refused \/ (x = <<r, StatusOf(jobs[g][r])>> /\ reply = "403")
    BY <1>4
  <2>5. \A x \in refused' : operation'[x[1][1]] # None
    BY <2>1, <2>3, <2>4
  <2>6. ASSUME "403" \notin masked', NEW x \in refused' PROVE Cause(x)'
    <3>1. CASE x \in refused
      <4>1. Cause(x)
        BY <1>0, <1>9, <2>6, <3>1 DEF RefusalInv
      <4> QED
        BY <1>0, <1>13, <2>3, <3>1, <4>1, CauseStays
    <3>2. CASE x = <<r, StatusOf(jobs[g][r])>> /\ reply = "403"
      BY <2>2, <2>6, <3>2
    <3> QED
      BY <2>4, <2>6, <3>1, <3>2
  <2> QED
    BY <2>5, <2>6 DEF RefusalInv
<1> QED
  BY <1>11, <1>16, <1>17, <1>18, <1>19, <1>20 DEF AdapterInv

\* waitForJob: the status of a job that has ended is what the step reports.
LEMMA WaitForJobKept ==
    ASSUME AdapterInv, NEW k \in Calls, call[k] # None, NEW i \in DOMAIN call[k].steps, WaitForJob(k, i)
    PROVE  AdapterInv'
<1>0. TypeOK /\ ApiTypeOK /\ CallInv
  BY DEF AdapterInv, TypeOK
<1>1. PICK r \in Requests : r = <<call[k].op, i>> /\ r[1] = call[k].op /\ r[2] = i
  BY <1>0, StepTyped
<1>2. PICK g \in Grants : g = call[k].grant /\ operation[r[1]].session = g
  BY <1>0, <1>1, CallTyped DEF CallInv
<1>3. PICK reply : /\ Lookup(g, r, reply)
                   /\ IF reply # "job" THEN SetStep(k, i, "error")
                      ELSE IF jobs[g][r].status \in Terminal
                      THEN SetStep(k, i, ModelStatus(jobs[g][r].status))
                      ELSE UNCHANGED call
  BY <1>1, <1>2 DEF WaitForJob
<1>4. UNCHANGED <<operation, journal, memory, capability, installed, clobbered, begun, sent, passed, claimed,
                  refused>>
  BY DEF WaitForJob, files, history
<1>5. /\ ApiTypeOK' /\ masked \subseteq masked' /\ UNCHANGED <<jobs, wire>>
      /\ reply = "job" => jobs[g][r] # None
  BY <1>0, <1>3, LookupReads
<1>6. JobOf(r) = jobs[g][r] /\ JobOf(r)' = JobOf(r)
  BY <1>2, <1>4, <1>5 DEF JobOf
<1>7. ASSUME NEW status \in Progress, SetStep(k, i, status), Known(r, status)'
      PROVE  AdapterInv'
  <2>1. /\ call' \in [Calls -> Call \cup {None}]
        /\ call'[k] # None /\ call'[k].op = call[k].op /\ call'[k].grant = call[k].grant
        /\ DOMAIN call'[k].steps = DOMAIN call[k].steps
        /\ call'[k].steps[i] = status
        /\ \A j \in DOMAIN call[k].steps : j # i => call'[k].steps[j] = call[k].steps[j]
        /\ \A l \in Calls : l # k => call'[l] = call[l]
    BY <1>0, <1>7, StepSet
  <2>2. Advanced(k)
    <3>1. ASSUME NEW q \in Requests, NEW s \in Progress, call[k].op = q[1], q[2] \in DOMAIN call[k].steps,
                 call'[k].steps[q[2]] = s
          PROVE  call[k].steps[q[2]] = s \/ Known(q, s)'
      <4>1. CASE q[2] # i
        BY <2>1, <3>1, <4>1
      <4>2. CASE q[2] = i
        <5>1. q = r /\ s = status
          BY <1>1, <2>1, <3>1, <4>2, AdapterAssumption
        <5> QED
          BY <1>7, <5>1
      <4> QED
        BY <4>1, <4>2
    <3> QED
      BY <2>1, <3>1, Zenon DEF Advanced
  <2>3. CallsMove
    BY <2>1, <2>2 DEF CallsMove
  <2>4. TypeOK'
    BY <1>0, <1>4, <1>5, <2>1 DEF TypeOK
  <2> QED
    BY <1>4, <1>5, <2>3, <2>4, QuietKept
<1>8. CASE reply # "job"
  <2>1. "error" \in Progress /\ Known(r, "error")'
    BY DEF Progress, Known
  <2> QED
    BY <1>3, <1>7, <1>8, <2>1
<1>9. CASE reply = "job" /\ jobs[g][r].status \in Terminal
  <2>1. PICK status \in Progress : /\ status = ModelStatus(jobs[g][r].status)
                                   /\ status \in {"succeeded", "failed", "expired", "cancelled"}
    BY <1>9 DEF Progress, Statuses, ModelStatus, Terminal
  <2>2. Known(r, status)'
    BY <1>5, <1>6, <1>9, <2>1 DEF Known
  <2> QED
    BY <1>3, <1>7, <1>9, <2>1, <2>2
<1>10. CASE reply = "job" /\ jobs[g][r].status \notin Terminal
  <2>1. call' = call
    BY <1>3, <1>10
  <2>2. TypeOK'
    BY <1>0, <1>4, <1>5, <2>1 DEF TypeOK
  <2> QED
    BY <1>4, <1>5, <2>1, <2>2, QuietKept DEF CallsMove
<1> QED
  BY <1>8, <1>9, <1>10

\* A nonempty set of naturals has a least element.
LEMMA LeastOf ==
    ASSUME NEW S \in SUBSET Nat, S # {}
    PROVE  \E i \in S : \A j \in S : i <= j
<1> DEFINE R == {x \in Nat \X Nat : x[1] < x[2]}
<1>1. IsWellFoundedOn(R, Nat)
  BY NatLessThanWellFounded DEF OpToRel
<1> HIDE DEF R
<1>2. PICK i \in S : \A j \in S : ~(<<j, i>> \in R)
  BY <1>1, WFMin
<1>3. \A j \in S : ~(j < i)
  BY <1>2 DEF R
<1> QED
  BY <1>3

\* aggregateStatus answers succeeded only when every step has.
LEMMA AllSucceeded ==
    ASSUME NEW steps \in Seq(Progress), AggregateStatus(steps) = "succeeded"
    PROVE  \A i \in DOMAIN steps : steps[i] = "succeeded"
<1> DEFINE bad == {i \in DOMAIN steps : steps[i] \notin {"succeeded", "running"}}
<1>1. bad = {}
  <2> SUFFICES ASSUME bad # {} PROVE FALSE
    OBVIOUS
  <2>1. bad \in SUBSET Nat
    OBVIOUS
  <2>2. \E i \in bad : \A j \in bad : i <= j
    BY <2>1, LeastOf
  <2>3. (CHOOSE i \in bad : \A j \in bad : i <= j) \in bad
    BY <2>2
  <2>4. AggregateStatus(steps) = steps[CHOOSE i \in bad : \A j \in bad : i <= j]
    BY DEF AggregateStatus
  <2> QED
    BY <2>3, <2>4
<1>2. ~\E i \in DOMAIN steps : steps[i] = "running"
  BY <1>1 DEF AggregateStatus
<1> QED
  BY <1>1, <1>2

\* runOperation returns what its steps have found.
LEMMA RunOperationKept ==
    ASSUME AdapterInv, NEW k \in Calls, call[k] # None, RunOperation(k)
    PROVE  AdapterInv'
<1>0. /\ TypeOK /\ ApiTypeOK /\ ServedInv /\ CallInv /\ StepInv /\ JournalInv /\ SentInv /\ ClaimInv
      /\ RefusalInv
  BY DEF AdapterInv, TypeOK
<1>1. PICK o \in Ops : o = call[k].op /\ call[k].steps \in Seq(Progress)
  BY <1>0, CallTyped
<1>2. /\ \/ claimed' = claimed
         \/ claimed' = claimed \cup {o} /\ AggregateStatus(call[k].steps) = "succeeded"
      /\ call' = [call EXCEPT ![k] = None]
      /\ UNCHANGED <<apiVars, files, begun, sent, passed, refused>>
  BY <1>1 DEF RunOperation
<1>3. UNCHANGED <<jobs, approval, live, wire, masked, faults, operation, journal, memory, capability,
                  installed, clobbered>>
  BY <1>2 DEF apiVars, files
<1>4. TypeOK'
  <2>1. ApiTypeOK'
    BY <1>0, <1>3 DEF ApiTypeOK
  <2>2. claimed' \subseteq Ops
    BY <1>0, <1>1, <1>2 DEF TypeOK
  <2> QED
    BY <1>0, <1>2, <1>3, <2>1, <2>2 DEF TypeOK
<1>5. Grows /\ WireMove
  BY <1>2, <1>3 DEF Grows, JobsMove, WireMove
<1>6. CallsMove
  BY <1>0, <1>2 DEF CallsMove, TypeOK
<1>7. ServedInv' /\ CallInv' /\ StepInv'
  BY <1>0, <1>4, <1>5, <1>6, ServedKept, CallsKept
<1>8. JournalInv' /\ SentInv' /\ RefusalInv'
  BY <1>0, <1>2, <1>3, <1>5, RefusalsKept DEF JournalInv, SentInv
<1>9. ASSUME AggregateStatus(call[k].steps) = "succeeded", NEW i \in DOMAIN operation[o].plan.commands
      PROVE  JobOf(<<o, i>>) # None /\ JobOf(<<o, i>>).status = "succeeded"
  <2>1. i \in DOMAIN call[k].steps
    BY <1>0, <1>1, <1>9 DEF CallInv
  <2>2. call[k].steps[i] = "succeeded"
    BY <1>1, <1>9, <2>1, AllSucceeded
  <2>3. PICK r \in Requests : r = <<o, i>> /\ r[1] = o /\ r[2] = i
    BY <1>0, <1>1, <2>1, StepTyped
  <2>4. Known(r, "succeeded")
    BY <1>0, <1>1, <2>1, <2>2, <2>3 DEF StepInv, Progress, Statuses
  <2> QED
    BY <2>3, <2>4 DEF Known, ModelStatus, Terminal
<1>10. operation[o] # None
  BY <1>0, <1>1 DEF CallInv
<1>11. ClaimInv'
  BY <1>0, <1>2, <1>3, <1>9, <1>10 DEF ClaimInv, JobOf
<1> QED
  BY <1>4, <1>7, <1>8, <1>11 DEF AdapterInv

\* The adapter starts without operations, calls and jobs.
LEMMA AdapterStarts == Init => AdapterInv
<1> SUFFICES ASSUME Init PROVE AdapterInv
  OBVIOUS
<1>1. ApiTypeOK
  BY ApiAssumption DEF Init, ApiInit, ApiTypeOK
<1>2. TypeOK
  <2>1. begun \in 0..MaxCalls
    BY AdapterAssumption DEF Init
  <2>2. capability \in installed /\ installed \subseteq Grants
    BY AdapterAssumption DEF Init
  <2> QED
    BY <1>1, <2>1, <2>2 DEF Init, TypeOK
<1>3. \A g \in Grants, r \in Requests : jobs[g][r] = None
  BY DEF Init, ApiInit
<1>4. wire = {}
  BY DEF Init, ApiInit
<1>5. ServedInv
  BY <1>3, <1>4 DEF ServedInv
<1>6. CallInv /\ StepInv /\ JournalInv /\ SentInv /\ ClaimInv /\ RefusalInv
  BY DEF Init, CallInv, StepInv, JournalInv, SentInv, ClaimInv, RefusalInv
<1> QED
  BY <1>2, <1>5, <1>6 DEF AdapterInv

\* Every step keeps the invariant.
LEMMA AdapterKept == AdapterInv /\ [Next]_vars => AdapterInv'
<1> SUFFICES ASSUME AdapterInv, [Next]_vars PROVE AdapterInv'
  OBVIOUS
<1>1. ASSUME NEW k \in Calls, Work(k) PROVE AdapterInv'
  BY <1>1, RunStepKept, WaitForJobKept, RunOperationKept DEF Work
<1>2. ASSUME NEW k \in Calls, NEW p \in Procs, Begin(k, p) PROVE AdapterInv'
  BY <1>2, CreateKept, ReadKept DEF Begin, Exec, ExecBatch, Code
<1>3. CASE \/ \E p \in Procs : OpenFileJournal(p) \/ Crash(p)
           \/ \E g \in Grants : Install(g)
           \/ \E k \in Calls : Interrupt(k)
  BY <1>3, ProcessKept
<1>4. CASE (ApiNext \/ \E g \in Grants : Calm /\ EndGrant(g)) /\ UNCHANGED outside
  BY <1>4, ApiKept
<1>5. CASE UNCHANGED vars
  <2>1. UNCHANGED <<apiVars, operation, journal, memory, capability, installed, clobbered, call, begun, sent,
                    passed, claimed, refused>>
    BY <1>5 DEF vars
  <2>2. TypeOK
    BY DEF AdapterInv
  <2>3. TypeOK'
    BY <2>1, <2>2 DEF TypeOK, ApiTypeOK, apiVars
  <2> QED
    BY <2>1, <2>3, QuietKept DEF apiVars, CallsMove
<1> QED
  BY <1>1, <1>2, <1>3, <1>4, <1>5 DEF Next

-----------------------------------------------------------------------------
(* The theorems *)

\* The journal and the sessions: every operation that has reached Sentinel is in the
\* journal file unless a stale copy was written over it, and is submitted and served
\* under the grant it was created under alone.
THEOREM OperationsRecoverable == Spec => []RecoverableOperations
<1>1. AdapterInv => RecoverableOperations
  <2> SUFFICES ASSUME AdapterInv PROVE RecoverableOperations
    OBVIOUS
  <2>0. TypeOK /\ ServedInv /\ JournalInv /\ SentInv
    BY DEF AdapterInv
  <2>1. SubmittedIsJournaled
    BY <2>0 DEF SubmittedIsJournaled, JournalInv, SentInv, TypeOK
  <2>2. ASSUME NEW r \in Requests, NEW g \in Grants, jobs[g][r] # None
        PROVE  operation[r[1]].session = g
    <3>1. PICK c \in Commands : jobs[g][r].command = c
      BY <2>0, <2>2 DEF TypeOK, ApiTypeOK, Job
    <3> QED
      BY <2>0, <2>2, <3>1 DEF ServedInv, Planned
  <2>3. OneSessionPerOperation
    BY <2>0, <2>2 DEF OneSessionPerOperation, SentInv
  <2> QED
    BY <2>0, <2>1, <2>3 DEF RecoverableOperations
<1> QED
  BY <1>1, AdapterStarts, AdapterKept, PTL DEF Spec

\* A step of a sequential batch has a job only when the step before it has ended or
\* was answered without a result, however many calls and processes run it.
THEOREM BatchesKeepTheirOrder == Spec => []SequentialOrder
<1>1. AdapterInv => SequentialOrder
  <2> SUFFICES ASSUME AdapterInv, NEW o \in Ops, operation[o] # None, ~operation[o].plan.parallel,
                      NEW i \in 2..Len(operation[o].plan.commands), JobOf(<<o, i>>) # None
               PROVE  \/ JobOf(<<o, i - 1>>) # None /\ JobOf(<<o, i - 1>>).status \in Terminal
                      \/ <<o, i - 1>> \in passed
    BY DEF SequentialOrder
  <2>0. TypeOK /\ ServedInv
    BY DEF AdapterInv
  <2>1. Len(operation[o].plan.commands) \in 1..MaxSteps /\ operation[o].session \in Grants
    BY <2>0, PlanTyped
  <2>2. i \in 1..MaxSteps /\ i > 1
    <3>1. PICK n \in 1..MaxSteps : i \in 2..n
      BY <2>1
    <3> QED
      BY <3>1, AdapterAssumption
  <2>3. PICK r \in Requests : r = <<o, i>> /\ r[1] = o /\ r[2] = i
    BY <2>2, AdapterAssumption
  <2>4. PICK g \in Grants : g = operation[o].session /\ jobs[g][r] # None
    BY <2>1, <2>3 DEF JobOf
  <2>5. PICK c \in Commands : jobs[g][r].command = c
    BY <2>0, <2>4 DEF TypeOK, ApiTypeOK, Job
  <2>6. Follows(r)
    BY <2>0, <2>4, <2>5 DEF ServedInv
  <2> QED
    BY <2>2, <2>3, <2>6 DEF Follows, Settled
<1> QED
  BY <1>1, AdapterStarts, AdapterKept, PTL DEF Spec

\* A final status that a call has found stays the status of its job, and an
\* operation reported succeeded has succeeded in every step.
THEOREM ReportsAreTrue == Spec => []ReportsStayTrue
<1>1. AdapterInv => ReportsStayTrue
  <2> SUFFICES ASSUME AdapterInv PROVE ReportsStayTrue
    OBVIOUS
  <2>0. TypeOK /\ CallInv /\ StepInv /\ ClaimInv
    BY DEF AdapterInv
  <2>1. ASSUME NEW k \in Calls, call[k] # None, NEW i \in DOMAIN call[k].steps,
               call[k].steps[i] \in {"succeeded", "failed", "expired", "cancelled"}
        PROVE  ModelStatus(JobOf(<<call[k].op, i>>).status) = call[k].steps[i]
    <3>1. PICK r \in Requests : r = <<call[k].op, i>> /\ r[1] = call[k].op /\ r[2] = i
      BY <2>0, <2>1, StepTyped
    <3>2. PICK s \in Progress : s = call[k].steps[i]
      BY <2>0, <2>1, StepTyped
    <3>3. Known(r, s)
      BY <2>0, <2>1, <3>1, <3>2 DEF StepInv
    <3> QED
      BY <2>1, <3>1, <3>2, <3>3 DEF Known
  <2> QED
    BY <2>0, <2>1 DEF ReportsStayTrue, ClaimInv
<1> QED
  BY <1>1, AdapterStarts, AdapterKept, PTL DEF Spec

\* A submission is refused only for a cause that stays: a job that ended without
\* running, or a command that the grant of its operation does not permit and that
\* never gets a job; unless a failure was answered as a refusal.
THEOREM RefusalsHaveCause == Spec => []RefusedForCause
<1>1. AdapterInv => RefusedForCause
  BY Zenon DEF AdapterInv, RefusalInv, RefusedForCause, Cause
<1> QED
  BY <1>1, AdapterStarts, AdapterKept, PTL DEF Spec

=============================================================================

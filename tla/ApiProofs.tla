------------------------------ MODULE ApiProofs ------------------------------
(***************************************************************************)
(* What the calls of the Agent API change, for every value of the           *)
(* constants: the lemmas that the proofs about its clients share.           *)
(***************************************************************************)
EXTENDS AgentApi, TLAPS

JobTable == [Grants -> [Requests -> Job \cup {None}]]

ApprovalTable == [Grants -> [Commands -> {"none", "pending", "allowed", "denied"}]]

\* What a step does to the job of request r under grant g, if anything, when it
\* serves a submission of c: the job of a permitted command is created, or a staged
\* one is published or cancelled.
Puts(g, r, c) ==
    \/ jobs' = jobs
    \/ /\ \/ jobs[g][r] = None /\ c \in Permitted[g] /\ jobs'[g][r].status # "canceled"
          \/ jobs[g][r] # None /\ jobs[g][r].status = "staged" /\ jobs[g][r].command = c
       /\ jobs'[g][r] # None /\ jobs'[g][r].command = c
       /\ jobs'[g][r].status \in {"staged", "pending", "canceled"}
       /\ \A h \in Grants, q \in Requests : <<h, q>> # <<g, r>> => jobs'[h][q] = jobs[h][q]

JobPut(g, r, job) == jobs' = [jobs EXCEPT ![g][r] = job]

\* One job is written.
LEMMA PutJob ==
    ASSUME NEW g \in Grants, NEW r \in Requests, NEW job \in Job, jobs \in JobTable,
           JobPut(g, r, job)
    PROVE  /\ jobs' \in JobTable /\ jobs'[g][r] = job
           /\ \A h \in Grants, q \in Requests : <<h, q>> # <<g, r>> => jobs'[h][q] = jobs[h][q]
  BY DEF JobTable, JobPut

\* A submission that is served keeps the types and touches one job at most.
LEMMA CommitPuts ==
    ASSUME ApiTypeOK, NEW g \in Grants, NEW r \in Requests, NEW c \in Commands,
           Commit(g, r, c) \/ StageOnly(g, r, c)
    PROVE  /\ jobs' \in JobTable
           /\ approval' \in ApprovalTable
           /\ Puts(g, r, c)
<1>1. jobs \in JobTable
      /\ approval \in ApprovalTable
  BY DEF ApiTypeOK, JobTable, ApprovalTable
<1>2. approval' \in ApprovalTable
  BY <1>1 DEF Commit, StageOnly, ApprovalTable
<1>3. \/ jobs' = jobs
      \/ \E status \in {"staged", "pending", "canceled"} :
           /\ IF status = "canceled" THEN Rejects(g, r, c) ELSE Publishes(g, r, c)
           /\ jobs' = [jobs EXCEPT ![g][r] = [command |-> c, status |-> status]]
  BY DEF Commit, StageOnly
<1>4. ASSUME NEW status \in {"staged", "pending", "canceled"},
             IF status = "canceled" THEN Rejects(g, r, c) ELSE Publishes(g, r, c),
             jobs' = [jobs EXCEPT ![g][r] = [command |-> c, status |-> status]]
      PROVE  jobs' \in JobTable /\ Puts(g, r, c)
  <2>1. PICK job \in Job : job = [command |-> c, status |-> status]
    BY DEF Job, Terminal
  <2>2. JobPut(g, r, job)
    BY <1>4, <2>1 DEF JobPut
  <2>3. /\ jobs' \in JobTable
        /\ jobs'[g][r] = job
        /\ \A h \in Grants, q \in Requests : <<h, q>> # <<g, r>> => jobs'[h][q] = jobs[h][q]
    BY <1>1, <2>2, PutJob
  <2>4. \/ jobs[g][r] = None /\ c \in Permitted[g] /\ status # "canceled"
        \/ jobs[g][r] # None /\ jobs[g][r].status = "staged" /\ jobs[g][r].command = c
    BY <1>4 DEF Publishes, Decision, Rejects
  <2> QED
    BY <2>1, <2>3, <2>4, JobAssumption DEF Puts, Job
<1> QED
  BY <1>1, <1>2, <1>3, <1>4 DEF Puts

\* A job ends: only a pending one does, and it keeps its command.
Ends(g, r) ==
    /\ jobs[g][r] # None /\ jobs[g][r].status = "pending"
    /\ jobs'[g][r] # None /\ jobs'[g][r].command = jobs[g][r].command /\ jobs'[g][r].status \in Terminal
    /\ \A h \in Grants, q \in Requests : <<h, q>> # <<g, r>> => jobs'[h][q] = jobs[h][q]

\* The end of a job is such a step.
LEMMA EndJobEnds ==
    ASSUME ApiTypeOK, NEW g \in Grants, NEW r \in Requests, EndJob(g, r)
    PROVE  ApiTypeOK' /\ Ends(g, r)
<1>1. PICK s \in Outcomes : jobs' = [jobs EXCEPT ![g][r].status = s]
  BY DEF EndJob
<1>2. jobs \in JobTable /\ jobs[g][r] \in Job /\ jobs[g][r] # None /\ s \in Terminal
  BY ApiAssumption DEF EndJob, ApiTypeOK, JobTable
<1>3. PICK job \in Job : job = [jobs[g][r] EXCEPT !.status = s]
  BY <1>2 DEF Job
<1>4. JobPut(g, r, job)
  BY <1>1, <1>3 DEF JobPut
<1>5. /\ jobs' \in JobTable /\ jobs'[g][r] = job
      /\ \A h \in Grants, q \in Requests : <<h, q>> # <<g, r>> => jobs'[h][q] = jobs[h][q]
  BY <1>2, <1>4, PutJob
<1>6. job.command = jobs[g][r].command /\ job.status = s
  BY <1>2, <1>3 DEF Job
<1> QED
  BY <1>2, <1>5, <1>6, JobAssumption DEF Ends, EndJob, ApiTypeOK, JobTable

\* A failure is counted and its answer remembered.
LEMMA FaultTyped ==
    ASSUME ApiTypeOK, NEW reply,
           NoFault \/ Masked("401", reply) \/ Masked("403", reply) \/ Masked("404", reply) \/ Lost(reply)
    PROVE  /\ faults' \in 0..MaxFaults /\ masked' \subseteq {"401", "403", "404"}
           /\ masked \subseteq masked'
<1>1. \/ faults' = faults
      \/ faults < MaxFaults /\ faults' = faults + 1
  BY DEF NoFault, Masked, Lost, Fault
<1>2. masked' = masked \/ \E status \in {"401", "403", "404"} : masked' = masked \cup {status}
  BY DEF NoFault, Masked, Lost
<1>3. faults' \in 0..MaxFaults
  BY <1>1, ApiAssumption DEF ApiTypeOK
<1>4. masked' \subseteq {"401", "403", "404"} /\ masked \subseteq masked'
  BY <1>2 DEF ApiTypeOK
<1> QED
  BY <1>3, <1>4

\* POST submit: the submission is served at once, or is answered by a failure and
\* may stay on the wire; it is refused by a failure, for a command that the grant does
\* not permit, or for its job, which has ended without running or does so now.
LEMMA SubmitServes ==
    ASSUME ApiTypeOK, NEW g \in Grants, NEW r \in Requests, NEW c \in Commands, NEW reply,
           Submit(g, r, c, reply)
    PROVE  /\ ApiTypeOK' /\ masked \subseteq masked' /\ live' = live
           /\ Puts(g, r, c)
           /\ wire' = wire \/ wire' = wire \cup {<<g, r, c>>}
           /\ reply = "accepted" => jobs'[g][r] # None /\ jobs'[g][r].command = c
           /\ reply = "403" => \/ "403" \in masked'
                               \/ c \notin Permitted[g]
                               \/ jobs[g][r] # None /\ jobs[g][r].command # c
                               \/ /\ jobs[g][r] # None /\ jobs'[g][r] # None
                                  /\ jobs[g][r].status \in {"staged", "canceled", "expired"}
                                  /\ jobs'[g][r].status \in {"canceled", "expired"}
<1>1. CASE reply = Decision(g, r, c) /\ Commit(g, r, c) /\ NoFault /\ UNCHANGED <<live, wire>>
  <2>1. jobs' \in JobTable /\ approval' \in ApprovalTable /\ Puts(g, r, c)
    BY <1>1, CommitPuts
  <2>2. faults' \in 0..MaxFaults /\ masked' \subseteq {"401", "403", "404"} /\ masked \subseteq masked'
    BY <1>1, FaultTyped
  <2>3. ApiTypeOK'
    BY <1>1, <2>1, <2>2 DEF ApiTypeOK, JobTable, ApprovalTable
  <2>4. reply = "accepted" => jobs'[g][r] # None /\ jobs'[g][r].command = c
    <3>1. CASE Publishes(g, r, c)
      <4>1. PICK job \in Job : job = [command |-> c, status |-> "pending"]
        BY DEF Job
      <4>2. JobPut(g, r, job) /\ jobs \in JobTable
        BY <1>1, <3>1, <4>1 DEF Commit, ApiTypeOK, JobTable, JobPut
      <4> QED
        BY <4>1, <4>2, PutJob, JobAssumption
    <3>2. CASE ~Publishes(g, r, c)
      BY <1>1, <3>2 DEF Publishes, Commit, Decision, Rejects
    <3> QED
      BY <3>1, <3>2
  <2>5. ASSUME reply = "403", c \in Permitted[g], jobs[g][r].command = c
        PROVE  /\ jobs[g][r] # None /\ jobs'[g][r] # None
               /\ jobs[g][r].status \in {"staged", "canceled", "expired"}
               /\ jobs'[g][r].status \in {"canceled", "expired"}
    <3>1. /\ jobs[g][r] # None /\ ~Publishes(g, r, c) /\ Introspect(g)
          /\ \/ jobs[g][r].status \in {"canceled", "expired"}
             \/ jobs[g][r].status = "staged" /\ ~Approved(g, c)
      BY <1>1, <2>5 DEF Decision, Publishes
    <3>2. CASE jobs[g][r].status \in {"canceled", "expired"}
      <4>1. jobs' = jobs
        BY <1>1, <3>1, <3>2 DEF Commit, Rejects
      <4> QED
        BY <3>1, <3>2, <4>1
    <3>3. CASE jobs[g][r].status = "staged" /\ ~Approved(g, c)
      <4>1. PICK job \in Job : job = [command |-> c, status |-> "canceled"]
        BY DEF Job, Terminal
      <4>2. JobPut(g, r, job) /\ jobs \in JobTable
        BY <1>1, <2>5, <3>1, <3>3, <4>1 DEF Commit, Rejects, ApiTypeOK, JobTable, JobPut
      <4> QED
        BY <3>1, <3>3, <4>1, <4>2, PutJob, JobAssumption
    <3> QED
      BY <3>1, <3>2, <3>3
  <2>6. reply = "403" => \/ c \notin Permitted[g]
                         \/ jobs[g][r] # None
    BY <1>1 DEF Decision
  <2> QED
    BY <1>1, <2>1, <2>2, <2>3, <2>4, <2>5, <2>6
<1>2. CASE Masked("401", reply) /\ UNCHANGED <<jobs, approval, live, wire>>
  BY <1>2, FaultTyped DEF ApiTypeOK, Masked, Puts
<1>3. CASE /\ Masked("403", reply) \/ Lost(reply)
           /\ wire' = wire \cup {<<g, r, c>>} /\ UNCHANGED <<jobs, approval, live>>
  <2>1. faults' \in 0..MaxFaults /\ masked' \subseteq {"401", "403", "404"} /\ masked \subseteq masked'
    BY <1>3, FaultTyped
  <2>2. wire' \subseteq Grants \X Requests \X Commands
    BY <1>3 DEF ApiTypeOK
  <2>3. ApiTypeOK'
    BY <1>3, <2>1, <2>2 DEF ApiTypeOK
  <2>4. reply \in {"403", "lost"} /\ (reply = "403" => "403" \in masked')
    BY <1>3 DEF Masked, Lost
  <2> QED
    BY <1>3, <2>1, <2>3, <2>4 DEF Puts
<1> QED
  BY <1>1, <1>2, <1>3 DEF Submit

\* A lookup or a bootstrap changes nothing that is served; a job that is found is
\* there.
LEMMA LookupReads ==
    ASSUME ApiTypeOK, NEW g \in Grants, NEW r \in Requests, NEW reply, Lookup(g, r, reply)
    PROVE  /\ ApiTypeOK' /\ masked \subseteq masked' /\ UNCHANGED <<jobs, approval, live, wire>>
           /\ reply = "job" => jobs[g][r] # None
  BY FaultTyped DEF Lookup, ApiTypeOK, JobView, Masked, Lost

\* A late submission reaches the Control Plane.
LEMMA DeliverServes ==
    ASSUME ApiTypeOK, Deliver
    PROVE  /\ ApiTypeOK' /\ wire' \subseteq wire /\ masked' = masked /\ live' = live
           /\ \E m \in wire : Puts(m[1], m[2], m[3])
<1>1. PICK m \in wire : /\ Commit(m[1], m[2], m[3]) \/ StageOnly(m[1], m[2], m[3])
                        /\ wire' \subseteq wire /\ UNCHANGED <<live, masked, faults>>
  BY DEF Deliver
<1>2. m[1] \in Grants /\ m[2] \in Requests /\ m[3] \in Commands
  BY DEF ApiTypeOK
<1>3. jobs' \in JobTable /\ approval' \in ApprovalTable /\ Puts(m[1], m[2], m[3])
  BY <1>1, <1>2, CommitPuts
<1> QED
  BY <1>1, <1>3 DEF ApiTypeOK, JobTable, ApprovalTable

\* An operator's decision.
LEMMA DecideTyped ==
    ASSUME ApiTypeOK, NEW g \in Grants, NEW c \in Commands, Decide(g, c)
    PROVE  ApiTypeOK' /\ UNCHANGED <<jobs, live, wire, masked>>
  BY DEF Decide, ApiTypeOK

\* The end of a grant.
LEMMA EndGrantTyped ==
    ASSUME ApiTypeOK, NEW g \in Grants, EndGrant(g)
    PROVE  ApiTypeOK' /\ UNCHANGED <<jobs, approval, wire, masked>>
  BY DEF EndGrant, ApiTypeOK

=============================================================================

-------------------------------- MODULE Relay --------------------------------
(***************************************************************************)
(* The GitHub relay: requests signed with a session secret are read from    *)
(* the comments of one private issue, submitted through the Agent API under *)
(* the session's capability, and answered by signed comments.               *)
(*                                                                         *)
(* Three processes share the session file and no lock: the runner (serve),  *)
(* authorize and close.  Each loads the file, changes its copy and renames  *)
(* a new file into place.  One action is one call that leaves the process   *)
(* (GitHub, the Agent API, the session file) with the code up to the next.  *)
(* A write that fails, and a crash before it, leave the file as it was.     *)
(***************************************************************************)
EXTENDS AgentApi, Sequences, FiniteSetsExt

CONSTANTS
    Grant,              \* the grant the session is bound to
    Scope,              \* commands inside the session's target and exact argv
    MaxCommands,        \* commands of the session
    MaximumFailedAuth,  \* bad comments that close the session
    SessionTTL,         \* ExpiresAt, in ticks
    Bodies,             \* bodies of comments that others may write
    PageSize,           \* comments of one page: more than that many are never read
    Earlier,            \* comments on the issue from before the session
    \* bounds of the checked instance
    MaxComments,
    MaxDisturbances     \* ticks, edits, a close, the end of the grant and of the binding

\* What a comment is to this session: a request signed with its secret, one with
\* a wrong MAC, one that does not parse, one for another session, one that
\* contains the secret, and any that is skipped (another author, no marker).
Kinds == {"request", "forged", "malformed", "foreign", "secret", "chat"}

Body == [kind : Kinds, seq : Nat, request : Requests, command : Commands]

ASSUME RelayAssumption ==
    /\ Grant \in Grants
    /\ Scope \subseteq Commands
    /\ {MaxCommands, MaximumFailedAuth, SessionTTL} \subseteq Nat \ {0}
    /\ {PageSize, Earlier, MaxComments, MaxDisturbances} \subseteq Nat
    /\ Bodies \subseteq Body

VARIABLES
    disk,      \* the session file
    copy,      \* the runner's copy of the session
    pc,        \* where the runner is
    response,  \* the response it is about to post
    listing,   \* the comments and the ETag of the last GET
    issue,     \* the comments of the issue
    version,   \* counts the changes of the issue: its ETag
    bound,     \* the repository and the issue are still eligible
    answers,   \* the signed responses attributed to the relay's bot
    clock,
    auth,      \* where authorize is
    closing,   \* the copy of a running close command
    closedOk,  \* history: a close command has reported success
    behind,    \* history: another process wrote the file after the runner read it
    raced,     \* history: the runner wrote a copy that was behind
    sent       \* history: the requests submitted to Sentinel

vars == <<apiVars, disk, copy, pc, response, listing, issue, version, bound, answers,
          clock, auth, closing, closedOk, behind, raced, sent>>

session   == <<disk, behind, raced>>
runner    == <<copy, pc, response, listing>>
service   == <<jobs, approval, live, wire, masked>>
mailbox   == <<issue, version, bound, answers>>
operators == <<auth, closing, closedOk>>

Inflight == [at : 1..MaxComments, seq : 1..MaxCommands, request : Requests,
             command : Commands, job : BOOLEAN]

\* CommandsComplete and NextSequence are only ever advanced together, from 0 and 1.
Session == [closed : BOOLEAN, next : 1..(MaxCommands + 1), seen : SUBSET (1..MaxComments),
            failed : 0..MaximumFailedAuth, etag : Nat, inflight : Inflight \cup {None},
            bot : BOOLEAN]

Comment == [body : Bodies, edited : BOOLEAN]

Answer == [seq : 1..MaxCommands, request : Requests, command : Commands,
           status : {"sentinel_denied", "expired", "completed"},
           job : Terminal \cup {None}]

\* The absent value is not a session, a request in flight or a response.
ASSUME SessionAssumption == None \notin Session \cup Inflight \cup Answer

TypeOK ==
    /\ ApiTypeOK
    /\ disk \in Session \cup {None}
    /\ copy \in Session \cup {None}
    /\ pc \in {"idle", "loaded", "scan", "bootstrap", "recover", "submit",
              "accepted", "recovered", "await", "running", "refused", "finish"}
    /\ response \in Answer \cup {None}
    /\ listing \in [comments : Seq(Comment), etag : Nat]
    /\ issue \in Seq(Comment) /\ Len(issue) <= MaxComments
    /\ version \in Nat /\ bound \in BOOLEAN
    /\ answers \subseteq Answer
    /\ clock \in 0..MaxDisturbances
    /\ auth \in {"start", "saved", "posted", "done", "failed"}
    /\ closing \in Session \cup {None}
    /\ {closedOk, behind, raced} \subseteq BOOLEAN
    /\ sent \subseteq [seq : 1..MaxCommands, request : Requests, command : Commands]

Nothing == [comments |-> <<>>, etag |-> 0]

NewSession == [closed |-> FALSE, next |-> 1, seen |-> {}, failed |-> 0, etag |-> 0,
               inflight |-> None, bot |-> FALSE]

Init ==
    /\ ApiInit
    /\ disk = None /\ copy = None /\ closing = None
    /\ pc = "idle" /\ response = None /\ listing = Nothing
    /\ issue = <<>> /\ version = 1 /\ bound = TRUE /\ answers = {}
    /\ clock = 0 /\ auth = "start"
    /\ closedOk = FALSE /\ behind = FALSE /\ raced = FALSE /\ sent = {}

-----------------------------------------------------------------------------
(* The session file *)

Expired == clock >= SessionTTL

Close(s) == [s EXCEPT !.closed = TRUE]

\* The runner writes its copy s.
Write(s) ==
    /\ disk' = s
    /\ raced' = (raced \/ behind)
    /\ UNCHANGED behind

Save(s) == Write(s) /\ UNCHANGED faults

SaveFails == Fault /\ UNCHANGED session

\* The runner gives up the session until its next poll.
Return == pc' = "idle" /\ copy' = None /\ response' = None /\ listing' = Nothing

\* The outcome of the write decides nothing more.
SaveAndReturn(s) == (Save(s) \/ SaveFails) /\ Return

-----------------------------------------------------------------------------
(* serve: one poll of the session *)

\* RunOnce loads the file; a closed session is left alone.
Load ==
    /\ pc = "idle"
    /\ disk # None
    /\ ~disk.closed
    /\ copy' = disk
    /\ behind' = FALSE
    /\ pc' = "loaded"
    /\ UNCHANGED <<apiVars, disk, response, listing, mailbox, clock, operators, raced, sent>>

\* An expired session is closed, with or without a request in flight.
CloseSpent ==
    /\ pc = "loaded"
    /\ Expired \/ copy.next > MaxCommands
    /\ SaveAndReturn(Close(copy))
    /\ UNCHANGED <<service, mailbox, clock, operators, sent>>

Resume ==
    /\ pc = "loaded"
    /\ ~Expired /\ copy.next <= MaxCommands
    /\ copy.inflight # None
    /\ pc' = "bootstrap"
    /\ UNCHANGED <<apiVars, session, copy, response, listing, mailbox, clock, operators, sent>>

\* Comments of the issue: every change of it is a new comment or an edit.
Comments == Earlier + version - 1 - Cardinality({k \in DOMAIN issue : issue[k].edited})

Overfull == Comments > PageSize

\* GET of the comments with If-None-Match: 304, 200 or an error; always an error
\* once they do not fit on one page any more.
ListComments ==
    /\ pc = "loaded"
    /\ ~Expired /\ copy.next <= MaxCommands
    /\ copy.inflight = None
    /\ \/ /\ version # copy.etag /\ ~Overfull
          /\ listing' = [comments |-> issue, etag |-> version]
          /\ pc' = "scan"
          /\ UNCHANGED <<faults, copy, response>>
       \/ Return /\ (IF version = copy.etag \/ Overfull THEN UNCHANGED faults ELSE Fault)
    /\ UNCHANGED <<service, session, mailbox, clock, operators, sent>>

-----------------------------------------------------------------------------
(* The loop over the comments *)

\* Comments that the loop passes over; those of other sessions it marks seen.
Passed(i) == LET c == listing.comments[i] IN
    /\ c.body.kind # "secret"
    /\ IF i \in copy.seen THEN ~c.edited
       ELSE c.body.kind = "chat" \/ (c.body.kind = "foreign" /\ ~c.edited)

Stops == {i \in DOMAIN listing.comments : ~Passed(i)}

\* The loop has come to comment i.
At(i) == pc = "scan" /\ i \in Stops /\ \A k \in Stops : i <= k

\* copy with the foreign comments among the first n marked seen.
Foreign(n) == {k \in DOMAIN listing.comments : k <= n /\ listing.comments[k].body.kind = "foreign"}

Marked(n) == [copy EXCEPT !.seen = @ \cup Foreign(n)]

FaultSeenWithEtag(i) ==
    [copy EXCEPT !.seen = @ \cup Foreign(i) \cup {i}, !.etag = listing.etag]

Seen(i) == [copy EXCEPT !.seen = @ \cup Foreign(i) \cup {i}]

\* A comment that contains the secret, or that was edited, closes the session.
ScanClose(i) ==
    /\ At(i)
    /\ LET c == listing.comments[i] IN c.body.kind = "secret" \/ c.edited
    /\ SaveAndReturn(Close(Marked(i)))
    /\ UNCHANGED <<service, mailbox, clock, operators, sent>>

\* One more failed authentication closes the session at the limit.
CountFailure(s) ==
    LET n == s.failed + 1 IN [s EXCEPT !.failed = n, !.closed = n >= MaximumFailedAuth]

ScanMalformed(i) ==
    /\ At(i)
    /\ LET c == listing.comments[i] IN c.body.kind = "malformed" /\ ~c.edited
    /\ SaveAndReturn(CountFailure(Seen(i)))
    /\ UNCHANGED <<service, mailbox, clock, operators, sent>>

FaultOldSequence(b) == b.seq <= copy.next /\ b.command \in Scope

\* ValidateRequest for a request whose MAC is right.
ValidateRequest(b) == b.seq = copy.next /\ b.command \in Scope

\* A refused request is answered relay_denied first and remembered afterwards:
\* if the answer cannot be posted nothing is saved.  An answer that GitHub attributes
\* to another identity than the recorded one closes the session.
ScanDeny(i) ==
    /\ At(i)
    /\ LET c      == listing.comments[i]
           denied == IF c.body.kind = "forged" THEN CountFailure(Seen(i)) ELSE Seen(i)
       IN
       /\ c.body.kind \in {"forged", "request"} /\ ~c.edited
       /\ c.body.kind = "request" => ~ValidateRequest(c.body)
       /\ \/ version' = version + 1 /\ SaveAndReturn(denied)
          \/ /\ copy.bot /\ Fault /\ version' = version + 1
             /\ Write(Close(denied)) \/ UNCHANGED session
             /\ Return
          \/ Fault /\ Return /\ UNCHANGED <<version, session>>
    /\ UNCHANGED <<service, issue, bound, answers, clock, operators, sent>>

FaultNextComment(i) == LET b == listing.comments[i].body IN
    [Seen(i) EXCEPT !.inflight =
        [at |-> i + 1, seq |-> b.seq, request |-> b.request, command |-> b.command, job |-> FALSE]]

Accept(i) == LET b == listing.comments[i].body IN
    [Seen(i) EXCEPT !.inflight =
        [at |-> i, seq |-> b.seq, request |-> b.request, command |-> b.command, job |-> FALSE]]

FaultUnsavedAccept(i) ==
    /\ At(i)
    /\ LET c == listing.comments[i] IN
       c.body.kind = "request" /\ ~c.edited /\ ValidateRequest(c.body)
    /\ bound
    /\ copy' = Accept(i) /\ pc' = "bootstrap"
    /\ UNCHANGED <<faults, session, response, listing, service, mailbox, clock, operators, sent>>

\* A valid request: the repository and the issue are checked again, then the
\* request is made durable, and only then does the runner turn to Sentinel.
ScanAccept(i) ==
    /\ At(i)
    /\ LET c == listing.comments[i] IN
       /\ c.body.kind = "request" /\ ~c.edited
       /\ ValidateRequest(c.body)
    /\ \/ ~bound /\ SaveAndReturn(Close(Marked(i)))
       \/ /\ bound
          /\ Save(Accept(i))
          /\ copy' = Accept(i) /\ pc' = "bootstrap"
          /\ UNCHANGED <<response, listing>>
       \/ bound /\ SaveFails /\ Return
    /\ UNCHANGED <<service, mailbox, clock, operators, sent>>

\* The ETag is kept only once every comment it covers was dealt with.
ScanEnd ==
    /\ pc = "scan"
    /\ Stops = {}
    /\ SaveAndReturn([Marked(Len(listing.comments)) EXCEPT !.etag = listing.etag])
    /\ UNCHANGED <<service, mailbox, clock, operators, sent>>

-----------------------------------------------------------------------------
(* resumeInflight: the request in flight, through the Agent API *)

Req == copy.inflight

outside == <<session, mailbox, clock, operators>>

AgentBootstrap ==
    /\ pc = "bootstrap"
    /\ \E reply \in {"ok", "401", "lost"} :
         /\ Bootstrap(Grant, reply)
         /\ CASE reply = "ok"   -> pc' = "recover" /\ UNCHANGED <<copy, response, listing>>
              [] reply = "401"  -> pc' = "refused" /\ UNCHANGED <<copy, response, listing>>
              [] reply = "lost" -> Return
    /\ UNCHANGED <<outside, sent>>

\* A 401 from bootstrap or submit closes the session.
CloseRefused ==
    /\ pc = "refused"
    /\ SaveAndReturn(Close(copy))
    /\ UNCHANGED <<service, mailbox, clock, operators, sent>>

Envelope(status, job) == [seq |-> Req.seq, request |-> Req.request, command |-> Req.command,
                          status |-> status, job |-> job]

Respond(status, job) ==
    /\ response' = Envelope(status, job)
    /\ pc' = "finish"
    /\ UNCHANGED <<copy, listing>>

\* The response to a job that was read, or another turn of finishJob's loop.
FollowJob(status) ==
    IF status \in Terminal THEN Respond("completed", status)
    ELSE pc' = "running" /\ UNCHANGED <<copy, response, listing>>

FaultResubmits ==
    /\ pc = "recover"
    /\ pc' = "submit"
    /\ UNCHANGED <<apiVars, copy, response, listing, outside, sent>>

\* recoverRequest: a request that already has a job is not submitted again.  The
\* job must be of the same command; it is looked up by its request_id.
Recover ==
    /\ pc = "recover"
    /\ \E reply \in {"job", "401", "404", "lost"} :
         /\ Lookup(Grant, Req.request, reply)
         /\ \/ reply = "404" /\ pc' = "submit" /\ UNCHANGED <<copy, response, listing>>
            \/ reply \in {"401", "lost"} /\ Return
            \/ /\ reply = "job"
               /\ LET j == jobs[Grant][Req.request] IN
                  IF j.command # Req.command THEN Return
                  ELSE IF Req.job THEN FollowJob(j.status)
                  ELSE pc' = "recovered" /\ UNCHANGED <<copy, response, listing>>
    /\ UNCHANGED <<outside, sent>>

FaultLostIsDenial ==
    /\ pc = "submit"
    /\ ~Expired
    /\ sent' = sent \cup {[seq |-> Req.seq, request |-> Req.request, command |-> Req.command]}
    /\ \E reply \in {"accepted", "approval_required", "deny", "401", "403", "lost"} :
         /\ Submit(Grant, Req.request, Req.command, reply)
         /\ \/ reply = "accepted" /\ pc' = "accepted" /\ UNCHANGED <<copy, response, listing>>
            \/ reply = "approval_required" /\ UNCHANGED runner
            \/ reply \in {"deny", "401", "403", "lost"} /\ Respond("sentinel_denied", None)
    /\ UNCHANGED outside

\* The submission, repeated while it waits for an approval.  Any 403 is taken
\* for a denial.
SubmitRequest ==
    /\ pc = "submit"
    /\ ~Expired
    /\ sent' = sent \cup {[seq |-> Req.seq, request |-> Req.request, command |-> Req.command]}
    /\ \E reply \in {"accepted", "approval_required", "deny", "401", "403", "lost"} :
         /\ Submit(Grant, Req.request, Req.command, reply)
         /\ \/ reply = "accepted" /\ pc' = "accepted" /\ UNCHANGED <<copy, response, listing>>
            \/ reply = "approval_required" /\ UNCHANGED runner
            \/ reply \in {"deny", "403"} /\ Respond("sentinel_denied", None)
            \/ reply = "401" /\ pc' = "refused" /\ UNCHANGED <<copy, response, listing>>
            \/ reply = "lost" /\ Return
    /\ UNCHANGED outside

\* The job's ID is made durable.  A recovered job is then known; an accepted
\* one has yet to be read.
SaveJob ==
    /\ pc \in {"accepted", "recovered"}
    /\ LET s     == [copy EXCEPT !.inflight.job = TRUE]
           known == jobs[Grant][Req.request].status
           done  == pc = "recovered" /\ known \in Terminal
       IN \/ /\ Save(s)
             /\ copy' = s
             /\ pc' = IF pc = "accepted" THEN "await" ELSE IF done THEN "finish" ELSE "running"
             /\ response' = IF done THEN Envelope("completed", known) ELSE None
             /\ UNCHANGED listing
          \/ SaveFails /\ Return
    /\ UNCHANGED <<service, mailbox, clock, operators, sent>>

\* finishJob polls the job until it is terminal.
AwaitJob ==
    /\ pc = "await" \/ (pc = "running" /\ ~Expired)
    /\ \E reply \in {"job", "401", "404", "lost"} :
         /\ Lookup(Grant, Req.request, reply)
         /\ \/ reply = "job" /\ FollowJob(jobs[Grant][Req.request].status)
            \/ reply \in {"401", "404", "lost"} /\ Return
    /\ UNCHANGED <<outside, sent>>

\* The session expires while the request waits for an approval or a job.
ExpireInflight ==
    /\ pc \in {"submit", "running"}
    /\ Expired
    /\ Respond("expired", None)
    /\ UNCHANGED <<apiVars, outside, sent>>

Advance ==
    LET s == [copy EXCEPT !.next = @ + 1, !.inflight = None] IN
    IF response.status = "expired" \/ s.next > MaxCommands THEN Close(s) ELSE s

FaultAdvancesUnanswered ==
    /\ pc = "finish"
    /\ \/ version' = version + 1 /\ answers' = answers \cup {response} /\ Save(Advance)
       \/ Fault /\ disk' = Advance /\ UNCHANGED <<version, answers, behind, raced>>
    /\ Return
    /\ UNCHANGED <<service, issue, bound, clock, operators, sent>>

\* After the answer the loop over the comments goes on, if the request came from it.
GoOn ==
    IF Advance.closed \/ listing = Nothing THEN Return
    ELSE copy' = Advance /\ pc' = "scan" /\ response' = None /\ UNCHANGED listing

\* finishWithResponse: post, then advance and save.  A response that GitHub
\* attributes to another identity closes the session, if the identity was ever
\* recorded, and is as good as any otherwise.
FinishWithResponse ==
    /\ pc = "finish"
    /\ \/ /\ version' = version + 1 /\ answers' = answers \cup {response}
          /\ (Save(Advance) /\ GoOn) \/ (SaveFails /\ Return)
       \/ /\ Fault /\ version' = version + 1 /\ UNCHANGED answers
          /\ \/ copy.bot /\ Write(Close(copy)) /\ Return
             \/ ~copy.bot /\ Write(Advance) /\ GoOn
             \/ UNCHANGED session /\ Return
       \/ Fault /\ Return /\ UNCHANGED <<version, answers, session>>
    /\ UNCHANGED <<service, issue, bound, clock, operators, sent>>

\* The process is killed, or its context cancelled, between two calls.
Crash ==
    /\ pc # "idle"
    /\ Fault
    /\ Return
    /\ UNCHANGED <<service, outside, sent>>

-----------------------------------------------------------------------------
(* authorize and close: other processes that write the session file *)

\* Another process renames its copy into place.
OverwriteWith(s) == disk' = s /\ behind' = (pc # "idle") /\ UNCHANGED raced

inside == <<runner, clock, sent>>

One(p) == IF p THEN 1 ELSE 0

Calm == Cardinality({k \in DOMAIN issue : issue[k].edited}) + One(~bound)
        + One(closedOk \/ closing # None) + One(~live[Grant]) + clock < MaxDisturbances

\* The grant must be live, the repository private and the issue open.  The
\* session is saved before its marker is posted, without a bot identity.
AuthorizeSave ==
    /\ auth = "start"
    /\ Introspect(Grant) /\ bound
    /\ OverwriteWith(NewSession)
    /\ auth' = "saved"
    /\ UNCHANGED <<apiVars, inside, mailbox, closing, closedOk>>

\* A marker that cannot be posted, or is not a bot's, closes the session, if the
\* file can be written.
AuthorizeMarker ==
    /\ auth = "saved"
    /\ \/ version' = version + 1 /\ auth' = "posted" /\ UNCHANGED <<session, faults>>
       \/ /\ Fault /\ auth' = "failed"
          /\ version' \in {version, version + 1}
          /\ OverwriteWith(Close(NewSession)) \/ UNCHANGED session
    /\ UNCHANGED <<service, inside, issue, bound, answers, closing, closedOk>>

\* The identity of the bot is saved; only then is the secret printed.
AuthorizeDone ==
    /\ auth = "posted"
    /\ \/ OverwriteWith([NewSession EXCEPT !.bot = TRUE]) /\ auth' = "done" /\ UNCHANGED faults
       \/ Fault /\ auth' = "failed" /\ UNCHANGED session
    /\ UNCHANGED <<service, inside, mailbox, closing, closedOk>>

\* close takes the session ID, which authorize prints when it is done.
CloseLoad ==
    /\ Calm
    /\ auth = "done" /\ closing = None /\ ~closedOk
    /\ closing' = disk
    /\ UNCHANGED <<apiVars, session, inside, mailbox, auth, closedOk>>

FaultCloseUnsaved ==
    /\ closing # None
    /\ closing' = None
    /\ closedOk' = TRUE
    /\ UNCHANGED <<apiVars, session, inside, mailbox, auth>>

CloseSave ==
    /\ closing # None
    /\ OverwriteWith(Close(closing))
    /\ closing' = None
    /\ closedOk' = TRUE
    /\ UNCHANGED <<apiVars, inside, mailbox, auth>>

-----------------------------------------------------------------------------
(* GitHub and time *)

\* Only the holder of the secret signs a request or leaks it.
Writable(b) == b.kind \in {"request", "secret"} => auth = "done"

PostComment(b) ==
    /\ Len(issue) < MaxComments
    /\ Writable(b)
    /\ issue' = Append(issue, [body |-> b, edited |-> FALSE])
    /\ version' = version + 1
    /\ UNCHANGED <<apiVars, session, inside, operators, bound, answers>>

EditComment(i, b) ==
    /\ Calm
    /\ ~issue[i].edited
    /\ b # issue[i].body /\ Writable(b)
    /\ issue' = [issue EXCEPT ![i] = [body |-> b, edited |-> TRUE]]
    /\ version' = version + 1
    /\ UNCHANGED <<apiVars, session, inside, operators, bound, answers>>

\* The repository is archived or made public, or the issue is closed.
Unbind ==
    /\ Calm
    /\ bound
    /\ bound' = FALSE
    /\ UNCHANGED <<apiVars, session, inside, operators, issue, version, answers>>

Tick ==
    /\ Calm
    /\ clock' = clock + 1
    /\ UNCHANGED <<apiVars, session, runner, mailbox, operators, sent>>

Poll ==
    \/ Load \/ CloseSpent \/ Resume \/ ListComments
    \/ \E i \in DOMAIN listing.comments :
         ScanClose(i) \/ ScanMalformed(i) \/ ScanDeny(i) \/ ScanAccept(i)
    \/ ScanEnd
    \/ AgentBootstrap \/ CloseRefused \/ Recover \/ SubmitRequest \/ SaveJob
    \/ AwaitJob \/ ExpireInflight \/ FinishWithResponse

Others ==
    \/ AuthorizeSave \/ AuthorizeMarker \/ AuthorizeDone \/ CloseLoad \/ CloseSave
    \/ \E b \in Bodies : PostComment(b) \/ \E i \in DOMAIN issue : EditComment(i, b)
    \/ Unbind \/ Tick

Next ==
    \/ Poll \/ Crash \/ Others
    \/ (ApiNext \/ (Calm /\ EndGrant(Grant))) /\ UNCHANGED <<outside, runner, sent>>

Spec == Init /\ [][Next]_vars

\* The runner polls every few seconds for as long as it runs and jobs end.
FairSpec == /\ Spec
            /\ WF_vars(Poll)
            /\ WF_vars(\E g \in Grants, r \in Requests :
                         EndJob(g, r) /\ UNCHANGED <<outside, runner, sent>>)

-----------------------------------------------------------------------------
(* Properties *)

\* A request reaches Sentinel only after the session file records it: until the
\* file says it was answered it is in flight there, or the session is closed, so
\* a restart resumes it and never takes it for a new one.
SubmittedIsDurable ==
    \A e \in sent :
        \/ disk.closed \/ e.seq < disk.next
        \/ disk.inflight # None /\ disk.inflight.seq = e.seq /\ disk.inflight.request = e.request

\* One sequence number carries one request to Sentinel, however often the runner
\* crashes, fails to save or polls again.
OneRequestPerSequence == \A d, e \in sent : d.seq = e.seq => d = e

\* The sequence advances past a request only when a response to it was posted
\* under the relay's identity, unless a lost update dropped that identity.
AnsweredBeforeAdvance ==
    \/ raced \/ disk = None
    \/ \A n \in 1..(disk.next - 1) : \E a \in answers : a.seq = n

\* What the session file owes to a crash: the three properties above, over
\* well-typed states.  RunOnce keeps them through every failed call and write.
DurableSession ==
    /\ TypeOK
    /\ SubmittedIsDurable
    /\ OneRequestPerSequence
    /\ AnsweredBeforeAdvance

\* A completed response is final: no other response to its sequence number is
\* ever posted, however often the runner posts, fails to save and resumes; as
\* long as no failure of the Gateway was answered with the status of a refusal
\* or of a missing job.
CompletedIsFinal ==
    [][masked' \cap {"403", "404"} = {} =>
        \A a \in answers, b \in answers' \ answers : a.status = "completed" => a.seq # b.seq]_vars

\* The denials: those posted, and the one that is about to be.
Denials == {a \in answers \cup {response} : a # None /\ a.status = "sentinel_denied"}

\* The request that a answers has a job that is to run or has run.
Runs(a) == LET j == jobs[Grant][a.request] IN
    j # None /\ j.command = a.command /\ j.status \in {"pending", "succeeded", "failed"}

\* A denial holds: a request that is answered sentinel_denied has no job that runs,
\* whatever copies of its submission arrive later and however often the runner
\* resumes it; with the same exception.
DenialHolds ==
    masked \cap {"403", "404"} = {} => \A a \in Denials : ~Runs(a)

\* What authorize and close report as done stays in the session file: the bot's
\* identity, and that the session is closed; unless the runner has written a
\* copy that it had read before.
OperatorWritesStick ==
    raced \/ /\ closedOk => disk.closed
             /\ auth = "done" => disk.bot \/ disk.closed

\* "close: locally disable a relay session": once close has reported success the
\* session is closed.
CloseDisables == closedOk => disk.closed

\* Nothing that the runner waits for will come: an approval that nobody decides,
\* a job that was staged and never authorized, another command under the same
\* request_id.
Blocked == LET r == disk.inflight IN
    /\ r # None
    /\ \/ approval[Grant][r.command] = "pending"
       \/ /\ jobs[Grant][r.request] # None
          /\ \/ jobs[Grant][r.request].status = "staged"
             \/ jobs[Grant][r.request].command # r.command

Attended(i) == i \in disk.seen \/ issue[i].body.kind = "chat"

\* Again and again the mailbox is drained: no request in flight and no comment
\* with a marker unseen, unless the session is closed or blocked.  A poll that
\* fails half-way leaves nothing behind that the ETag would hide.  Once the issue
\* has more comments than one page nothing is read any more, but the request in
\* flight is still answered.
MailboxDrains ==
    []<>(\/ disk = None \/ disk.closed \/ Blocked
         \/ disk.inflight = None /\ (Overfull \/ \A i \in DOMAIN issue : Attended(i)))

=============================================================================

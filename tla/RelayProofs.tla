----------------------------- MODULE RelayProofs -----------------------------
(***************************************************************************)
(* Proofs about the GitHub relay for every value of its constants: the      *)
(* session file is durable, what authorize and close wrote sticks unless    *)
(* the runner raced them, a completed response is final and a denial holds; *)
(* over any number of comments, commands, faults, crashes and late          *)
(* deliveries.                                                              *)
(***************************************************************************)
EXTENDS Relay, ApiProofs, FiniteSetTheorems

\* Places of the runner with a request in flight.
Working == {"bootstrap", "recover", "submit", "accepted", "recovered", "await", "running", "refused", "finish"}

\* A session that is not closed may count one more failure, and a request in flight
\* carries the next sequence number.
Sound(s) ==
    /\ s.closed \/ s.failed < MaximumFailedAuth
    /\ s.inflight # None => s.inflight.seq = s.next

\* The runner: what it holds at each of its places.
PlaceInv ==
    /\ pc = "idle" <=> copy = None
    /\ copy # None => disk # None /\ ~copy.closed
    /\ pc \notin {"idle", "loaded"} => copy.next <= MaxCommands
    /\ pc = "scan" => copy.inflight = None
    /\ pc \in Working => copy.inflight # None
    /\ pc = "finish" => /\ response # None /\ response.seq = copy.inflight.seq
                        /\ response.request = copy.inflight.request
                        /\ response.command = copy.inflight.command
    /\ Len(listing.comments) <= MaxComments
    /\ \A s \in {disk, copy, closing} : s # None => Sound(s)

\* Nothing is signed before authorize has printed the secret, so nothing is taken
\* into the session before.
Blank(s) == s # None => s.next = 1 /\ s.inflight = None

Unsigned(comments) == \A i \in DOMAIN comments : comments[i].body.kind # "request"

EarlyInv ==
    /\ auth = "start" => disk = None
    /\ auth # "start" => disk # None
    /\ auth # "done" => /\ Blank(disk) /\ Blank(copy) /\ closing = None /\ ~closedOk
                        /\ Unsigned(issue) /\ Unsigned(listing.comments)
                        /\ sent = {} /\ answers = {}

\* The file is closed, or has the request that the runner works on.
Agree(s, t) ==
    /\ s.next = t.next
    /\ s.inflight = None <=> t.inflight = None
    /\ s.inflight # None => /\ s.inflight.seq = t.inflight.seq /\ s.inflight.request = t.inflight.request
                            /\ s.inflight.command = t.inflight.command

AgreeInv == copy # None => disk.closed \/ Agree(disk, copy)

\* Session s has answered request e, or has it in flight.
Holds(s, e) ==
    \/ e.seq < s.next
    \/ /\ s.inflight # None /\ s.inflight.seq = e.seq /\ s.inflight.request = e.request
       /\ s.inflight.command = e.command

\* What was sent or answered is in the file, and in the runner's copy.
HeldInv ==
    \A e \in sent \cup answers : /\ disk.closed \/ Holds(disk, e)
                                 /\ copy # None => Holds(copy, e)

\* The sequence numbers below n are answered.
AnsweredBelow(n) == \A m \in 1..(n - 1) : \E a \in answers : a.seq = m

AnsweredInv == raced \/ \A s \in {disk, copy, closing} : s # None => AnsweredBelow(s.next)

\* The runner's copy has the bot's identity, or is behind the file that has it.
IdentityInv ==
    raced \/ (auth = "done" => /\ disk.bot \/ disk.closed
                               /\ copy # None => copy.bot \/ (behind /\ copy.inflight = None))

\* A close that was reported is in the file, and a runner at work is behind it.
ClosedInv == raced \/ (closedOk => disk.closed /\ (copy # None => behind))

RelayInv ==
    /\ TypeOK /\ PlaceInv /\ EarlyInv /\ AgreeInv /\ HeldInv /\ OneRequestPerSequence
    /\ AnsweredInv /\ IdentityInv /\ ClosedInv

\* A completed response tells the status of a job that has ended.
Completed(a) ==
    a.status = "completed" =>
        /\ jobs[Grant][a.request] # None
        /\ jobs[Grant][a.request].status \in Terminal
        /\ jobs[Grant][a.request].status = a.job

\* No completed response to the request in flight has been posted.
Unanswered == \A a \in answers : a.status = "completed" => a.seq # copy.inflight.seq

FinalInv ==
    /\ \A a \in answers : Completed(a)
    /\ pc = "finish" => Completed(response)
    /\ pc = "recovered" => jobs[Grant][copy.inflight.request] # None
    /\ "404" \in masked \/ /\ pc \in {"submit", "accepted", "await", "running"} => Unanswered
                           /\ pc = "finish" /\ response.status # "completed" => Unanswered

-----------------------------------------------------------------------------
(* Updates of a session *)

\* What an update that neither takes nor answers a request leaves alone.
SameWork(s, t) == s.next = t.next /\ s.inflight = t.inflight /\ s.bot = t.bot

\* A closed session is a session, with the same work.
LEMMA ClosedTyped ==
    ASSUME NEW s \in Session, Sound(s)
    PROVE  Close(s) \in Session /\ Close(s).closed /\ SameWork(Close(s), s) /\ Sound(Close(s))
  BY DEF Close, Session, SameWork, Sound

\* The comments of the listing have places among those that a session remembers.
LEMMA ListedPlaces ==
    ASSUME TypeOK, PlaceInv
    PROVE  DOMAIN listing.comments \subseteq 1..MaxComments
<1>1. listing.comments \in Seq(Comment) /\ Len(listing.comments) <= MaxComments /\ MaxComments \in Nat
  BY RelayAssumption DEF TypeOK, PlaceInv
<1> QED
  BY <1>1

\* Comments are marked seen in the copy: nothing else changes.
LEMMA SeenTyped ==
    ASSUME TypeOK, PlaceInv, copy # None, NEW S \in SUBSET (1..MaxComments)
    PROVE  LET s == [copy EXCEPT !.seen = @ \cup S] IN
           /\ s \in Session /\ SameWork(s, copy) /\ s.failed = copy.failed /\ ~s.closed /\ Sound(s)
<1>1. copy \in Session /\ ~copy.closed /\ Sound(copy)
  BY DEF TypeOK, PlaceInv
<1> QED
  BY <1>1 DEF Session, SameWork, Sound

\* The two ways in which the loop over the comments marks them.
LEMMA MarksTyped ==
    ASSUME TypeOK, PlaceInv, copy # None, NEW i \in Nat
    PROVE  /\ Marked(i) \in Session /\ SameWork(Marked(i), copy) /\ ~Marked(i).closed /\ Sound(Marked(i))
           /\ i \in DOMAIN listing.comments =>
                /\ Seen(i) \in Session /\ SameWork(Seen(i), copy) /\ ~Seen(i).closed
                /\ Seen(i).failed < MaximumFailedAuth /\ Sound(Seen(i))
<1>1. Foreign(i) \in SUBSET (1..MaxComments)
  BY ListedPlaces DEF Foreign
<1>2. /\ Marked(i) \in Session /\ SameWork(Marked(i), copy)
      /\ ~Marked(i).closed /\ Sound(Marked(i))
  BY <1>1, SeenTyped DEF Marked
<1>3. ASSUME i \in DOMAIN listing.comments
      PROVE  /\ Seen(i) \in Session /\ SameWork(Seen(i), copy) /\ ~Seen(i).closed
             /\ Seen(i).failed < MaximumFailedAuth /\ Sound(Seen(i))
  <2>1. PICK S \in SUBSET (1..MaxComments) : S = Foreign(i) \cup {i}
    BY <1>1, <1>3, ListedPlaces
  <2>2. copy.seen \cup Foreign(i) \cup {i} = copy.seen \cup S
    BY <2>1
  <2>3. Seen(i) = [copy EXCEPT !.seen = @ \cup S]
    BY <2>2 DEF Seen
  <2>4. /\ Seen(i) \in Session /\ SameWork(Seen(i), copy)
        /\ ~Seen(i).closed /\ Sound(Seen(i))
    BY <2>3, SeenTyped
  <2> QED
    BY <2>4 DEF Sound
<1> QED
  BY <1>2, <1>3

\* One more failed authentication, of a session that may count it.
LEMMA FailureTyped ==
    ASSUME NEW s \in Session, Sound(s), s.failed < MaximumFailedAuth
    PROVE  CountFailure(s) \in Session /\ SameWork(CountFailure(s), s) /\ Sound(CountFailure(s))
<1>1. s.failed \in Nat /\ MaximumFailedAuth \in Nat
  BY RelayAssumption DEF Session
<1>2. PICK n \in 0..MaximumFailedAuth : n = s.failed + 1
  BY <1>1
<1>3. PICK b \in BOOLEAN : b <=> n >= MaximumFailedAuth
  OBVIOUS
<1>4. b = (n >= MaximumFailedAuth)
  BY <1>1, <1>2, <1>3
<1>5. CountFailure(s) = [s EXCEPT !.failed = n, !.closed = b]
  BY <1>2, <1>4 DEF CountFailure
<1>6. CountFailure(s) \in Session /\ SameWork(CountFailure(s), s)
      /\ CountFailure(s).failed = n /\ CountFailure(s).closed = b
  BY <1>5 DEF Session, SameWork
<1>7. b \/ n < MaximumFailedAuth
  BY <1>1, <1>2, <1>3
<1> QED
  BY <1>6, <1>7 DEF SameWork, Sound

\* The sequence advances by one and nothing is in flight.
LEMMA AdvanceTyped ==
    ASSUME TypeOK, PlaceInv, pc = "finish"
    PROVE  /\ Advance \in Session /\ Sound(Advance) /\ Advance.next = copy.next + 1
           /\ Advance.inflight = None /\ Advance.bot = copy.bot
           /\ ~Advance.closed => Advance.next <= MaxCommands
<1>1. /\ copy \in Session /\ Sound(copy) /\ copy.next <= MaxCommands
      /\ MaxCommands \in Nat /\ copy.next \in Nat
  BY RelayAssumption DEF TypeOK, PlaceInv, Session
<1>2. PICK n \in 1..(MaxCommands + 1) : n = copy.next + 1
  BY <1>1 DEF Session
<1> DEFINE s == [copy EXCEPT !.next = @ + 1, !.inflight = None]
<1>3. /\ s \in Session /\ s.next = copy.next + 1 /\ s.inflight = None /\ s.bot = copy.bot
      /\ s.failed = copy.failed /\ s.closed = copy.closed
  <2>1. s = [copy EXCEPT !.next = n, !.inflight = None]
    BY <1>2
  <2> QED
    BY <1>1, <1>2, <2>1 DEF Session
<1>4. Advance = IF response.status = "expired" \/ s.next > MaxCommands THEN Close(s) ELSE s
  BY DEF Advance
<1> HIDE DEF s
<1>5. Sound(s)
  BY <1>1, <1>3 DEF Sound
<1>6. /\ Close(s) \in Session /\ Close(s).closed
      /\ SameWork(Close(s), s) /\ Sound(Close(s))
  BY <1>3, <1>5, ClosedTyped
<1> QED
  BY <1>1, <1>3, <1>4, <1>5, <1>6 DEF SameWork

-----------------------------------------------------------------------------
(* What a step of the runner does to the session *)

\* The request in flight, as it is recorded when it is submitted.
Sending == [seq |-> Req.seq, request |-> Req.request, command |-> Req.command]

\* The request in flight may be submitted.
Sends == sent' = sent \/ (copy.inflight # None /\ sent' = sent \cup {Sending})

\* Response a answers the request in flight.
Answers(a) ==
    /\ a \in Answer /\ a.seq = copy.inflight.seq
    /\ a.request = copy.inflight.request /\ a.command = copy.inflight.command

\* The runner goes on with its copy and writes nothing.
Works ==
    /\ copy # None /\ copy.next <= MaxCommands
    /\ UNCHANGED <<disk, behind, raced, copy, answers>> /\ Sends
    /\ \/ /\ pc' = "scan" /\ copy.inflight = None
          /\ listing' = [comments |-> issue, etag |-> version] /\ response' = response
       \/ /\ pc' \in Working /\ copy.inflight # None /\ listing' = listing
          /\ Answers(response') \/ (pc' # "finish" /\ response' = response)

\* The runner gives up the session, and may have posted the response.
Quits ==
    /\ copy # None /\ Return /\ UNCHANGED <<disk, behind, raced>> /\ Sends
    /\ answers' = answers \/ (pc = "finish" /\ answers' = answers \cup {response})

\* The runner writes the session with the same work and gives it up.
Writes ==
    /\ copy # None /\ Return /\ UNCHANGED <<behind, answers, sent>> /\ raced' = (raced \/ behind)
    /\ disk' \in Session /\ Sound(disk') /\ SameWork(disk', copy)

\* The runner writes a session with a request in flight and goes on with it: one
\* that it has just read, or the one it had.
Records ==
    /\ copy # None /\ UNCHANGED <<behind, answers, sent, listing>> /\ raced' = (raced \/ behind)
    /\ copy' = disk' /\ disk' \in Session /\ Sound(disk') /\ ~disk'.closed
    /\ disk'.next = copy.next /\ copy.next <= MaxCommands /\ disk'.bot = copy.bot
    /\ disk'.inflight # None
    /\ \/ copy.inflight = None /\ ~Unsigned(listing.comments) /\ pc' = "bootstrap" /\ response' = response
       \/ /\ copy.inflight # None /\ Agree(disk', copy)
          /\ pc' \in {"await", "running", "finish"}
          /\ Answers(response') \/ (pc' # "finish" /\ response' = None)

\* The response is posted and the sequence advances.
Posts ==
    /\ pc = "finish" /\ disk' = Advance /\ raced' = (raced \/ behind) /\ UNCHANGED <<behind, sent>>
    /\ answers' = answers \cup {response}
    /\ \/ Return
       \/ ~Advance.closed /\ copy' = Advance /\ pc' = "scan" /\ response' = None /\ UNCHANGED listing

\* The response is posted under another identity, and none was recorded.
Misplaces ==
    /\ pc = "finish" /\ ~copy.bot /\ disk' = Advance /\ raced' = (raced \/ behind)
    /\ UNCHANGED <<behind, answers, sent>>
    /\ \/ Return
       \/ ~Advance.closed /\ copy' = Advance /\ pc' = "scan" /\ response' = None /\ UNCHANGED listing

RunnerMoves == Works \/ Quits \/ Writes \/ Records \/ Posts \/ Misplaces \/ Load

\* A write of the runner's copy that is its last act, or that fails.
LEMMA SaveMoves ==
    ASSUME copy # None, NEW s \in Session, Sound(s), SameWork(s, copy), SaveAndReturn(s),
           UNCHANGED <<answers, sent>>
    PROVE  Writes \/ Quits
  BY DEF SaveAndReturn, Save, Write, SaveFails, session, Writes, Quits, Sends

\* The runner at a place other than idle has a copy.
LEMMA HasCopy ==
    ASSUME TypeOK, PlaceInv, pc # "idle"
    PROVE  copy # None /\ copy \in Session /\ Sound(copy) /\ ~copy.closed /\ disk # None
  BY DEF TypeOK, PlaceInv

\* The steps before and in the loop over the comments.
LEMMA ScanMoves ==
    ASSUME TypeOK, PlaceInv, NEW i \in DOMAIN listing.comments,
           ScanClose(i) \/ ScanMalformed(i) \/ ScanDeny(i) \/ ScanAccept(i)
    PROVE  Works \/ Quits \/ Writes \/ Records
<1>1. pc = "scan" /\ i \in Nat /\ UNCHANGED <<answers, sent>>
  BY ListedPlaces, RelayAssumption DEF ScanClose, ScanMalformed, ScanDeny, ScanAccept, At, mailbox
<1>2. copy # None /\ copy \in Session /\ Sound(copy)
  BY <1>1, HasCopy
<1>3. /\ Marked(i) \in Session /\ SameWork(Marked(i), copy) /\ Sound(Marked(i))
      /\ Seen(i) \in Session /\ SameWork(Seen(i), copy) /\ Sound(Seen(i)) /\ Seen(i).failed < MaximumFailedAuth
      /\ ~Seen(i).closed
  BY <1>1, <1>2, MarksTyped
<1>4. /\ Close(Marked(i)) \in Session /\ SameWork(Close(Marked(i)), copy) /\ Sound(Close(Marked(i)))
      /\ CountFailure(Seen(i)) \in Session /\ SameWork(CountFailure(Seen(i)), copy) /\ Sound(CountFailure(Seen(i)))
  BY <1>3, ClosedTyped, FailureTyped DEF SameWork
<1>5. CASE ScanClose(i)
  BY <1>1, <1>2, <1>4, <1>5, SaveMoves DEF ScanClose
<1>6. CASE ScanMalformed(i)
  BY <1>1, <1>2, <1>4, <1>6, SaveMoves DEF ScanMalformed
<1>7. CASE ScanDeny(i)
  <2>0. PICK denied \in {CountFailure(Seen(i)), Seen(i)} :
          \/ SaveAndReturn(denied)
          \/ Write(Close(denied)) /\ Return
          \/ Return /\ UNCHANGED session
    BY <1>7, Zenon DEF ScanDeny
  <2>1. denied \in Session /\ SameWork(denied, copy) /\ Sound(denied)
    BY <1>3, <1>4
  <2>2. CASE Return /\ UNCHANGED session
    BY <1>1, <1>2, <2>2 DEF Quits, Sends, session
  <2>3. CASE Write(Close(denied)) /\ Return
    <3>1. Close(denied) \in Session /\ SameWork(Close(denied), copy) /\ Sound(Close(denied))
      BY <2>1, ClosedTyped DEF SameWork
    <3> QED
      BY <1>1, <1>2, <2>3, <3>1 DEF Writes, Write
  <2> QED
    BY <1>1, <1>2, <2>0, <2>1, <2>2, <2>3, SaveMoves
<1>8. CASE ScanAccept(i)
  <2>1. CASE SaveAndReturn(Close(Marked(i)))
    BY <1>1, <1>2, <1>4, <2>1, SaveMoves
  <2>2. CASE SaveFails /\ Return
    BY <1>1, <1>2, <2>2 DEF Quits, Sends, SaveFails, session
  <2>3. CASE /\ Save(Accept(i)) /\ copy' = Accept(i)
             /\ pc' = "bootstrap" /\ UNCHANGED <<response, listing>>
    <3>1. listing.comments[i] \in Comment /\ i \in 1..MaxComments
      BY ListedPlaces DEF TypeOK
    <3>2. PICK b \in Body : b = listing.comments[i].body /\ b.kind = "request" /\ b.seq = copy.next
      BY <1>8, <3>1, RelayAssumption DEF Comment, ScanAccept, ValidateRequest
    <3>3. copy.next \in 1..MaxCommands /\ copy.inflight = None
      BY <1>1, <1>2, RelayAssumption DEF PlaceInv, Session
    <3> DEFINE f == [at |-> i, seq |-> b.seq, request |-> b.request, command |-> b.command, job |-> FALSE]
    <3>4. f \in Inflight /\ f.seq = copy.next
      BY <3>1, <3>2, <3>3 DEF Inflight, Body
    <3>5. Accept(i) = [Seen(i) EXCEPT !.inflight = f]
      BY <3>2 DEF Accept
    <3> HIDE DEF f
    <3>6. /\ Accept(i) \in Session /\ Accept(i).next = copy.next /\ Accept(i).bot = copy.bot
          /\ Accept(i).inflight = f /\ ~Accept(i).closed /\ Accept(i).failed < MaximumFailedAuth
      BY <1>3, <3>4, <3>5 DEF Session, SameWork
    <3>7. f # None
      BY <3>4, SessionAssumption
    <3>8. ~Unsigned(listing.comments)
      BY <3>2 DEF Unsigned
    <3> QED
      BY <1>1, <1>2, <2>3, <3>3, <3>4, <3>6, <3>7, <3>8 DEF Records, Save, Write, Sound
  <2> QED
    BY <1>8, <2>1, <2>2, <2>3 DEF ScanAccept
<1> QED
  BY <1>5, <1>6, <1>7, <1>8

\* The steps of a poll around the loop.
LEMMA PollMoves ==
    ASSUME TypeOK, PlaceInv, CloseSpent \/ Resume \/ ListComments \/ ScanEnd \/ CloseRefused
    PROVE  Works \/ Quits \/ Writes
<1>1. pc # "idle" /\ UNCHANGED <<answers, sent>>
  BY DEF CloseSpent, Resume, ListComments, ScanEnd, CloseRefused, mailbox
<1>2. copy # None /\ copy \in Session /\ Sound(copy) /\ ~copy.closed
  BY <1>1, HasCopy
<1>3. Close(copy) \in Session /\ SameWork(Close(copy), copy) /\ Sound(Close(copy))
  BY <1>2, ClosedTyped
<1>4. CASE CloseSpent \/ CloseRefused
  BY <1>1, <1>2, <1>3, <1>4, SaveMoves DEF CloseSpent, CloseRefused
<1>5. CASE Resume
  BY <1>1, <1>2, <1>5 DEF Resume, Works, Sends, Working, session
<1>6. CASE ListComments
  <2>1. UNCHANGED <<disk, behind, raced>> /\ copy.next <= MaxCommands /\ copy.inflight = None
    BY <1>6 DEF ListComments, session
  <2>2. CASE Return
    BY <1>1, <1>2, <2>1, <2>2 DEF Quits, Sends
  <2>3. CASE listing' = [comments |-> issue, etag |-> version] /\ pc' = "scan" /\ UNCHANGED <<copy, response>>
    BY <1>1, <1>2, <2>1, <2>3 DEF Works, Sends
  <2> QED
    BY <1>6, <2>2, <2>3 DEF ListComments
<1>7. CASE ScanEnd
  <2>1. Len(listing.comments) \in Nat /\ listing.etag \in Nat
    BY DEF TypeOK
  <2> DEFINE s == Marked(Len(listing.comments))
  <2>2. s \in Session /\ SameWork(s, copy) /\ Sound(s)
    BY <1>2, <2>1, MarksTyped
  <2> HIDE DEF s
  <2>3. /\ [s EXCEPT !.etag = listing.etag] \in Session
        /\ SameWork([s EXCEPT !.etag = listing.etag], copy)
        /\ Sound([s EXCEPT !.etag = listing.etag])
    BY <2>1, <2>2 DEF Session, SameWork, Sound
  <2>4. SaveAndReturn([s EXCEPT !.etag = listing.etag])
    BY <1>7 DEF ScanEnd, s
  <2> QED
    BY <1>1, <1>2, <2>3, <2>4, SaveMoves
<1> QED
  BY <1>4, <1>5, <1>6, <1>7

\* A response to the request in flight.
LEMMA EnvelopeTyped ==
    ASSUME TypeOK, PlaceInv, copy # None, copy.inflight # None,
           NEW status \in {"sentinel_denied", "expired", "completed"}, NEW job \in Terminal \cup {None}
    PROVE  /\ Answers(Envelope(status, job))
           /\ Envelope(status, job).status = status /\ Envelope(status, job).job = job
<1>1. copy.inflight \in Inflight
  BY DEF TypeOK, Session
<1> QED
  BY <1>1 DEF Envelope, Req, Answers, Answer, Inflight

\* A response, or another turn of the loop.
LEMMA RespondMoves ==
    ASSUME TypeOK, PlaceInv, pc \in Working, UNCHANGED <<disk, behind, raced, answers>>, Sends,
           \/ Respond("sentinel_denied", None) \/ Respond("expired", None)
           \/ \E status \in Terminal \cup {"staged", "pending"} : FollowJob(status)
    PROVE  Works
<1>1. copy # None /\ copy.inflight # None /\ copy.next <= MaxCommands
  BY HasCopy DEF PlaceInv, Working
<1>2. \/ /\ pc' = "finish" /\ UNCHANGED <<copy, listing>>
         /\ \E status \in {"sentinel_denied", "expired", "completed"}, job \in Terminal \cup {None} :
               response' = Envelope(status, job)
      \/ pc' = "running" /\ UNCHANGED <<copy, response, listing>>
  BY DEF Respond, FollowJob, Terminal
<1>3. CASE /\ pc' = "finish" /\ UNCHANGED <<copy, listing>>
           /\ \E status \in {"sentinel_denied", "expired", "completed"}, job \in Terminal \cup {None} :
                 response' = Envelope(status, job)
  <2>1. Answers(response')
    BY <1>1, <1>3, EnvelopeTyped
  <2> QED
    BY <1>1, <1>3, <2>1 DEF Works, Working
<1>4. CASE pc' = "running" /\ UNCHANGED <<copy, response, listing>>
  BY <1>1, <1>4 DEF Works, Working
<1> QED
  BY <1>2, <1>3, <1>4

\* The calls of the Agent API.
LEMMA CallMoves ==
    ASSUME TypeOK, PlaceInv,
           AgentBootstrap \/ Recover \/ SubmitRequest \/ AwaitJob \/ ExpireInflight
    PROVE  Works \/ Quits
<1>1. pc \in Working /\ UNCHANGED <<disk, behind, raced, answers>>
  BY Zenon DEF AgentBootstrap, Recover, SubmitRequest, AwaitJob, ExpireInflight, Working, outside, session, mailbox
<1>2. copy # None /\ copy.inflight # None /\ copy.next <= MaxCommands /\ copy.inflight.request \in Requests
  <2>1. copy # None /\ copy.inflight # None /\ copy.next <= MaxCommands
    BY <1>1, HasCopy DEF PlaceInv, Working
  <2> QED
    BY <2>1 DEF TypeOK, Session, Inflight
<1>3. Sends
  BY <1>2 DEF Sends, Sending, AgentBootstrap, Recover, SubmitRequest, AwaitJob, ExpireInflight
<1>4. \/ Return
      \/ pc' \in Working \ {"finish"} /\ UNCHANGED <<copy, response, listing>>
      \/ Respond("sentinel_denied", None) \/ Respond("expired", None)
      \/ jobs[Grant][Req.request] # None /\ FollowJob(jobs[Grant][Req.request].status)
  <2>1. CASE AgentBootstrap
    BY <2>1 DEF AgentBootstrap, Working
  <2>2. CASE Recover
    <3>1. PICK reply : /\ Lookup(Grant, Req.request, reply)
                       /\ \/ Return
                          \/ pc' \in Working \ {"finish"} /\ UNCHANGED <<copy, response, listing>>
                          \/ reply = "job" /\ FollowJob(jobs[Grant][Req.request].status)
      BY <2>2 DEF Recover, Working
    <3>2. reply = "job" => jobs[Grant][Req.request] # None
      BY <1>2, <3>1, LookupReads, RelayAssumption DEF Req, TypeOK
    <3> QED
      BY <3>1, <3>2
  <2>3. CASE SubmitRequest
    BY <2>3 DEF SubmitRequest, Working, runner
  <2>4. CASE AwaitJob
    <3>1. PICK reply : /\ Lookup(Grant, Req.request, reply)
                       /\ Return \/ (reply = "job" /\ FollowJob(jobs[Grant][Req.request].status))
      BY <2>4 DEF AwaitJob
    <3>2. reply = "job" => jobs[Grant][Req.request] # None
      BY <1>2, <3>1, LookupReads, RelayAssumption DEF Req, TypeOK
    <3> QED
      BY <3>1, <3>2
  <2>5. CASE ExpireInflight
    BY <2>5 DEF ExpireInflight
  <2> QED
    BY <2>1, <2>2, <2>3, <2>4, <2>5
<1>5. CASE Return
  BY <1>1, <1>2, <1>3, <1>5 DEF Quits
<1>6. CASE pc' \in Working \ {"finish"} /\ UNCHANGED <<copy, response, listing>>
  BY <1>1, <1>2, <1>3, <1>6 DEF Works
<1>7. CASE Respond("sentinel_denied", None) \/ Respond("expired", None)
  BY <1>1, <1>3, <1>7, RespondMoves
<1>8. CASE jobs[Grant][Req.request] # None /\ FollowJob(jobs[Grant][Req.request].status)
  <2>1. jobs[Grant][Req.request] \in Job
    BY <1>2, <1>8, RelayAssumption DEF Req, TypeOK, ApiTypeOK
  <2>2. jobs[Grant][Req.request].status \in Terminal \cup {"staged", "pending"}
    BY <2>1 DEF Job
  <2> QED
    BY <1>1, <1>3, <1>8, <2>2, RespondMoves
<1> QED
  BY <1>4, <1>5, <1>6, <1>7, <1>8

\* The job's ID is made durable.
LEMMA SaveJobMoves ==
    ASSUME TypeOK, PlaceInv, SaveJob
    PROVE  Quits \/ Records
<1> DEFINE s == [copy EXCEPT !.inflight.job = TRUE]
           known == jobs[Grant][Req.request].status
           done == pc = "recovered" /\ known \in Terminal
<1>1. pc \in {"accepted", "recovered"} /\ UNCHANGED <<answers, sent>>
  BY DEF SaveJob, mailbox
<1>2. copy # None /\ copy \in Session /\ Sound(copy) /\ ~copy.closed /\ copy.inflight # None /\ copy.next <= MaxCommands
  BY <1>1, HasCopy DEF PlaceInv, Working
<1>3. copy.inflight \in Inflight
  BY <1>2 DEF Session
<1>4. CASE SaveFails /\ Return
  BY <1>1, <1>2, <1>4 DEF Quits, Sends, SaveFails, session
<1>5. CASE /\ Save(s) /\ copy' = s /\ UNCHANGED listing
           /\ pc' = IF pc = "accepted" THEN "await" ELSE IF done THEN "finish" ELSE "running"
           /\ response' = IF done THEN Envelope("completed", known) ELSE None
  <2> DEFINE f == [copy.inflight EXCEPT !.job = TRUE]
  <2>1. /\ f \in Inflight /\ f.seq = copy.inflight.seq /\ f.request = copy.inflight.request
        /\ f.command = copy.inflight.command
    BY <1>3 DEF Inflight
  <2>2. s = [copy EXCEPT !.inflight = f]
    OBVIOUS
  <2>3. f # None
    BY <2>1, SessionAssumption
  <2>4. /\ s \in Session /\ s.next = copy.next /\ s.inflight = f /\ s.bot = copy.bot
        /\ s.closed = copy.closed /\ s.failed = copy.failed
    <3> HIDE DEF f, s
    <3> QED
      BY <1>2, <2>1, <2>2 DEF Session
  <2>5. done => Answers(Envelope("completed", known))
    BY <1>2, EnvelopeTyped
  <2>6. Answers(response') \/ (pc' # "finish" /\ response' = None)
    BY <1>1, <1>5, <2>5
  <2>7. pc' \in {"await", "running", "finish"}
    BY <1>5
  <2>8. Sound(s) /\ Agree(s, copy)
    <3> HIDE DEF s, f
    <3> QED
      BY <1>2, <2>1, <2>3, <2>4 DEF Sound, Agree
  <2>9. disk' = s /\ copy' = s /\ raced' = (raced \/ behind) /\ behind' = behind /\ listing' = listing
    BY <1>5 DEF Save, Write
  <2> QED
    <3> HIDE DEF s, f, done
    <3> QED
      BY <1>1, <1>2, <2>3, <2>4, <2>6, <2>7, <2>8, <2>9 DEF Records
<1> QED
  BY <1>4, <1>5 DEF SaveJob

\* The response is posted.
LEMMA FinishMoves ==
    ASSUME TypeOK, PlaceInv, FinishWithResponse
    PROVE  Quits \/ Writes \/ Posts \/ Misplaces
<1>1. pc = "finish" /\ sent' = sent
  BY DEF FinishWithResponse
<1>2. copy # None /\ copy \in Session /\ Sound(copy)
  BY <1>1, HasCopy
<1>3. GoOn => \/ Return
              \/ ~Advance.closed /\ copy' = Advance /\ pc' = "scan" /\ response' = None /\ UNCHANGED listing
  BY Zenon DEF GoOn
<1>4. CASE answers' = answers \cup {response} /\ Save(Advance) /\ GoOn
  BY <1>1, <1>3, <1>4 DEF Posts, Save, Write
<1>5. CASE answers' = answers \cup {response} /\ SaveFails /\ Return
  BY <1>1, <1>2, <1>5 DEF Quits, Sends, SaveFails, session
<1>6. CASE Write(Close(copy)) /\ Return /\ UNCHANGED answers
  BY <1>1, <1>2, <1>6, ClosedTyped DEF Writes, Write
<1>7. CASE ~copy.bot /\ Write(Advance) /\ GoOn /\ UNCHANGED answers
  BY <1>1, <1>3, <1>7 DEF Misplaces, Write
<1>8. CASE Return /\ UNCHANGED <<answers, session>>
  BY <1>1, <1>2, <1>8 DEF Quits, Sends, session
<1> QED
  BY <1>4, <1>5, <1>6, <1>7, <1>8, Zenon DEF FinishWithResponse

\* Every step of the runner is one of the moves, and changes neither the issue nor
\* what the operators' commands keep.
LEMMA RunnerSteps ==
    ASSUME TypeOK, PlaceInv, Poll \/ Crash
    PROVE  RunnerMoves /\ UNCHANGED <<issue, bound, clock, auth, closing, closedOk>>
<1>1. ASSUME NEW i \in DOMAIN listing.comments,
             ScanClose(i) \/ ScanMalformed(i) \/ ScanDeny(i) \/ ScanAccept(i)
      PROVE  RunnerMoves /\ UNCHANGED <<issue, bound, clock, auth, closing, closedOk>>
  <2>1. RunnerMoves
    BY <1>1, ScanMoves DEF RunnerMoves
  <2>2. UNCHANGED <<issue, bound, clock, auth, closing, closedOk>>
    BY <1>1, Zenon DEF ScanClose, ScanMalformed, ScanDeny, ScanAccept, mailbox, operators
  <2> QED
    BY <2>1, <2>2
<1>2. CASE CloseSpent \/ Resume \/ ListComments \/ ScanEnd \/ CloseRefused
  <2>1. RunnerMoves
    BY <1>2, PollMoves DEF RunnerMoves
  <2>2. UNCHANGED <<issue, bound, clock, auth, closing, closedOk>>
    BY <1>2, Zenon DEF CloseSpent, Resume, ListComments, ScanEnd, CloseRefused, mailbox, operators
  <2> QED
    BY <2>1, <2>2
<1>3. CASE AgentBootstrap \/ Recover \/ SubmitRequest \/ AwaitJob \/ ExpireInflight
  <2>1. RunnerMoves
    BY <1>3, CallMoves DEF RunnerMoves
  <2>2. UNCHANGED <<issue, bound, clock, auth, closing, closedOk>>
    BY <1>3, Zenon DEF AgentBootstrap, Recover, SubmitRequest, AwaitJob, ExpireInflight, outside, mailbox, operators
  <2> QED
    BY <2>1, <2>2
<1>4. CASE Load \/ SaveJob \/ FinishWithResponse
  <2>1. RunnerMoves
    BY <1>4, SaveJobMoves, FinishMoves DEF RunnerMoves
  <2>2. UNCHANGED <<issue, bound, clock, auth, closing, closedOk>>
    BY <1>4, Zenon DEF Load, SaveJob, FinishWithResponse, mailbox, operators
  <2> QED
    BY <2>1, <2>2
<1>5. CASE Crash
  <2>1. UNCHANGED <<disk, behind, raced, answers, sent, issue, bound, clock, auth, closing, closedOk>> /\ Return
    BY <1>5 DEF Crash, outside, session, mailbox, operators
  <2>2. copy # None
    BY <1>5, HasCopy DEF Crash
  <2> QED
    BY <2>1, <2>2 DEF RunnerMoves, Quits, Sends
<1> QED
  BY <1>1, <1>2, <1>3, <1>4, <1>5 DEF Poll

-----------------------------------------------------------------------------
(* Sentinel, GitHub and time *)

\* A job that is there stays, and one that has ended stays as it is.
Kept ==
    \A r \in Requests : jobs[Grant][r] # None =>
        /\ jobs'[Grant][r] # None
        /\ jobs[Grant][r].status \in Terminal => jobs'[Grant][r] = jobs[Grant][r]

\* A submission that is served, or a job's end, keeps the jobs that have ended.
LEMMA PutsKeep ==
    ASSUME NEW g \in Grants, NEW r \in Requests, NEW c \in Commands, Puts(g, r, c) \/ Ends(g, r)
    PROVE  Kept
  BY RelayAssumption DEF Puts, Ends, Kept, Terminal

\* A step that calls nothing may fail.
Fails == UNCHANGED service /\ (Fault \/ UNCHANGED faults)

\* Such a step keeps the service as it is.
LEMMA FailsTyped ==
    ASSUME ApiTypeOK, Fails
    PROVE  ApiTypeOK' /\ masked \subseteq masked' /\ Kept
<1>1. UNCHANGED <<jobs, approval, live, wire, masked>>
  BY DEF Fails, service
<1>2. faults' \in 0..MaxFaults
  BY ApiAssumption DEF Fails, Fault, ApiTypeOK
<1> QED
  BY <1>1, <1>2 DEF ApiTypeOK, Kept

\* A step that calls nothing leaves the service alone, but for a failure.
LEMMA QuietSteps ==
    ASSUME Next
    PROVE  \/ Fails \/ AgentBootstrap \/ Recover \/ SubmitRequest \/ AwaitJob
           \/ ApiNext \/ EndGrant(Grant)
<1>1. ASSUME NEW i \in DOMAIN listing.comments,
             ScanClose(i) \/ ScanMalformed(i) \/ ScanDeny(i) \/ ScanAccept(i)
      PROVE  Fails
  BY <1>1 DEF ScanClose, ScanMalformed, ScanDeny, ScanAccept, SaveAndReturn, Save, SaveFails, Fails
<1>2. ASSUME Load \/ CloseSpent \/ Resume \/ ListComments \/ ScanEnd \/ CloseRefused \/ SaveJob
             \/ ExpireInflight \/ FinishWithResponse \/ Crash
      PROVE  Fails
  <2>1. CASE Load \/ Resume \/ ExpireInflight
    BY <2>1 DEF Load, Resume, ExpireInflight, Fails, apiVars, service
  <2>2. CASE CloseSpent \/ ListComments \/ ScanEnd \/ CloseRefused
    BY <2>2 DEF CloseSpent, ListComments, ScanEnd, CloseRefused, SaveAndReturn, Save, SaveFails, Fails
  <2>3. CASE SaveJob \/ FinishWithResponse \/ Crash
    BY <2>3, Zenon DEF SaveJob, FinishWithResponse, Crash, Save, SaveFails, Fails
  <2> QED
    BY <1>2, <2>1, <2>2, <2>3
<1>3. ASSUME NEW b \in Bodies, NEW i \in DOMAIN issue, PostComment(b) \/ EditComment(i, b)
      PROVE  Fails
  BY <1>3 DEF PostComment, EditComment, Fails, apiVars, service
<1>4. ASSUME NEW b \in Bodies, PostComment(b)
      PROVE  Fails
  BY <1>4 DEF PostComment, Fails, apiVars, service
<1>5. ASSUME AuthorizeSave \/ AuthorizeMarker \/ AuthorizeDone \/ CloseLoad \/ CloseSave \/ Unbind \/ Tick
      PROVE  Fails
  BY <1>5 DEF AuthorizeSave, AuthorizeMarker, AuthorizeDone, CloseLoad, CloseSave, Unbind, Tick, Fails,
              apiVars, service
<1>6. CASE Poll \/ Crash
  BY <1>1, <1>2, <1>6 DEF Poll
<1>7. CASE Others
  BY <1>3, <1>4, <1>5, <1>7 DEF Others
<1> QED
  BY <1>6, <1>7 DEF Next

\* Every step keeps the types of the Agent API and the jobs that have ended.
LEMMA NextServes ==
    ASSUME TypeOK, PlaceInv, Next
    PROVE  ApiTypeOK' /\ masked \subseteq masked' /\ Kept
<1>1. ApiTypeOK /\ Grant \in Grants
  BY RelayAssumption DEF TypeOK
<1>2. CASE Fails
  BY <1>1, <1>2, FailsTyped
<1>3. CASE AgentBootstrap \/ Recover \/ SubmitRequest \/ AwaitJob
  <2>1. pc \in Working
    BY <1>3 DEF AgentBootstrap, Recover, SubmitRequest, AwaitJob, Working
  <2>2. Req \in Inflight
    BY <2>1, HasCopy DEF PlaceInv, Working, Req, Session
  <2>3. Req.request \in Requests /\ Req.command \in Commands
    BY <2>2 DEF Inflight
  <2>4. CASE AgentBootstrap
    <3>1. PICK reply : Bootstrap(Grant, reply)
      BY <2>4 DEF AgentBootstrap
    <3>2. NoFault \/ Masked("401", reply) \/ Lost(reply)
      BY <3>1 DEF Bootstrap
    <3>3. faults' \in 0..MaxFaults /\ masked' \subseteq {"401", "403", "404"} /\ masked \subseteq masked'
      BY <1>1, <3>2, FaultTyped
    <3>4. UNCHANGED <<jobs, approval, live, wire>>
      BY <3>1 DEF Bootstrap
    <3> QED
      BY <1>1, <3>3, <3>4 DEF ApiTypeOK, Kept
  <2>5. CASE Recover \/ AwaitJob
    <3>1. PICK reply : Lookup(Grant, Req.request, reply)
      BY <2>5 DEF Recover, AwaitJob
    <3>2. ApiTypeOK' /\ masked \subseteq masked' /\ jobs' = jobs
      BY <1>1, <2>3, <3>1, LookupReads
    <3> QED
      BY <3>2 DEF Kept
  <2>6. CASE SubmitRequest
    <3>1. PICK reply : Submit(Grant, Req.request, Req.command, reply)
      BY <2>6 DEF SubmitRequest
    <3>2. ApiTypeOK' /\ masked \subseteq masked' /\ Puts(Grant, Req.request, Req.command)
      BY <1>1, <2>3, <3>1, SubmitServes
    <3> QED
      BY <1>1, <2>3, <3>2, PutsKeep
  <2> QED
    BY <1>3, <2>4, <2>5, <2>6
<1>4. CASE ApiNext
  <2>1. CASE Deliver
    <3>1. ApiTypeOK' /\ masked' = masked /\ \E m \in wire : Puts(m[1], m[2], m[3])
      BY <1>1, <2>1, DeliverServes
    <3>2. PICK m \in wire : Puts(m[1], m[2], m[3])
      BY <3>1
    <3>3. m[1] \in Grants /\ m[2] \in Requests /\ m[3] \in Commands
      BY <1>1 DEF ApiTypeOK
    <3> QED
      BY <3>1, <3>2, <3>3, PutsKeep
  <2>2. ASSUME NEW g \in Grants, NEW c \in Commands, Decide(g, c)
        PROVE  ApiTypeOK' /\ masked \subseteq masked' /\ Kept
    BY <1>1, <2>2, DecideTyped DEF Kept
  <2>3. ASSUME NEW g \in Grants, NEW r \in Requests, EndJob(g, r)
        PROVE  ApiTypeOK' /\ masked \subseteq masked' /\ Kept
    <3>1. ApiTypeOK' /\ Ends(g, r) /\ masked' = masked
      BY <1>1, <2>3, EndJobEnds DEF EndJob
    <3>2. Kept
      BY <3>1, RelayAssumption DEF Ends, Kept, Terminal
    <3> QED
      BY <3>1, <3>2
  <2> QED
    BY <1>4, <2>1, <2>2, <2>3 DEF ApiNext
<1>5. CASE EndGrant(Grant)
  BY <1>1, <1>5, EndGrantTyped DEF Kept
<1> QED
  BY <1>2, <1>3, <1>4, <1>5, QuietSteps

\* A disturbance leaves the clock below the bound.
LEMMA CalmClock ==
    ASSUME TypeOK, Calm
    PROVE  clock < MaxDisturbances
<1> DEFINE E == {k \in DOMAIN issue : issue[k].edited}
<1>1. E \in SUBSET (1..Len(issue)) /\ Len(issue) \in Nat
  BY DEF TypeOK
<1>2. Cardinality(E) \in Nat
  <2> HIDE DEF E
  <2>1. IsFiniteSet(1..Len(issue))
    BY <1>1, FS_Interval
  <2>2. IsFiniteSet(E)
    BY <1>1, <2>1, FS_Subset
  <2> QED
    BY <2>2, FS_CardinalityType
<1>3. Cardinality(E) + One(~bound) + One(closedOk \/ closing # None) + One(~live[Grant]) + clock < MaxDisturbances
  BY DEF Calm
<1> HIDE DEF E
<1>4. One(~bound) \in Nat /\ One(closedOk \/ closing # None) \in Nat /\ One(~live[Grant]) \in Nat
  BY DEF One
<1>5. clock \in Nat /\ MaxDisturbances \in Nat
  BY RelayAssumption DEF TypeOK
<1> QED
  BY <1>2, <1>3, <1>4, <1>5

\* The issue, the binding and the clock.
Outside ==
    /\ version \in Nat /\ bound \in BOOLEAN /\ clock \in 0..MaxDisturbances
    /\ issue \in Seq(Comment) /\ Len(issue) <= MaxComments

\* Every step keeps them, and only the holder of the secret signs.
LEMMA NextOutside ==
    ASSUME TypeOK, PlaceInv, Next
    PROVE  Outside' /\ (auth # "done" /\ Unsigned(issue) => Unsigned(issue'))
<1>1. Outside /\ MaxComments \in Nat /\ MaxDisturbances \in Nat
  BY RelayAssumption DEF TypeOK, Outside
<1>2. ASSUME NEW i \in DOMAIN listing.comments,
             ScanClose(i) \/ ScanMalformed(i) \/ ScanDeny(i) \/ ScanAccept(i)
      PROVE  version' \in {version, version + 1}
  BY <1>2, Zenon DEF ScanClose, ScanMalformed, ScanDeny, ScanAccept, mailbox
<1>3. ASSUME Poll \/ Crash
      PROVE  version' \in {version, version + 1}
  <2>1. CASE Load \/ CloseSpent \/ Resume \/ ListComments \/ ScanEnd \/ CloseRefused \/ SaveJob
             \/ FinishWithResponse
    BY <2>1, Zenon DEF Load, CloseSpent, Resume, ListComments, ScanEnd, CloseRefused, SaveJob, FinishWithResponse, mailbox
  <2>2. CASE AgentBootstrap \/ Recover \/ SubmitRequest \/ AwaitJob \/ ExpireInflight \/ Crash
    BY <2>2, Zenon DEF AgentBootstrap, Recover, SubmitRequest, AwaitJob, ExpireInflight, Crash, outside, mailbox
  <2> QED
    BY <1>2, <1>3, <2>1, <2>2 DEF Poll
<1>4. CASE Poll \/ Crash
  <2>1. UNCHANGED <<issue, bound, clock>>
    BY <1>4, RunnerSteps
  <2> QED
    BY <1>1, <1>3, <1>4, <2>1 DEF Outside, Unsigned
<1>5. ASSUME NEW b \in Bodies, PostComment(b)
      PROVE  Outside' /\ (auth # "done" /\ Unsigned(issue) => Unsigned(issue'))
  <2> DEFINE c == [body |-> b, edited |-> FALSE]
  <2>1. c \in Comment /\ c.body = b
    BY DEF Comment
  <2>2. issue' = Append(issue, c) /\ version' = version + 1 /\ UNCHANGED <<bound, clock>>
    BY <1>5 DEF PostComment, inside
  <2>3. Len(issue) < MaxComments /\ (b.kind = "request" => auth = "done")
    BY <1>5 DEF PostComment, Writable
  <2> HIDE DEF c
  <2>4. issue' \in Seq(Comment) /\ Len(issue') = Len(issue) + 1 /\ issue'[Len(issue) + 1] = c
        /\ \A k \in DOMAIN issue : issue'[k] = issue[k]
    BY <1>1, <2>1, <2>2 DEF Outside
  <2>5. \A k \in DOMAIN issue' : k \in DOMAIN issue \/ k = Len(issue) + 1
    BY <1>1, <2>4 DEF Outside
  <2>6. Outside'
    BY <1>1, <2>2, <2>3, <2>4 DEF Outside
  <2> QED
    BY <2>1, <2>3, <2>4, <2>5, <2>6 DEF Unsigned
<1>6. ASSUME NEW b \in Bodies, NEW i \in DOMAIN issue, EditComment(i, b)
      PROVE  Outside' /\ (auth # "done" /\ Unsigned(issue) => Unsigned(issue'))
  <2> DEFINE c == [body |-> b, edited |-> TRUE]
  <2>1. c \in Comment /\ c.body = b
    BY DEF Comment
  <2>2. issue' = [issue EXCEPT ![i] = c] /\ version' = version + 1 /\ UNCHANGED <<bound, clock>>
    BY <1>6 DEF EditComment, inside
  <2>3. b.kind = "request" => auth = "done"
    BY <1>6 DEF EditComment, Writable
  <2> HIDE DEF c
  <2>4. issue' \in Seq(Comment) /\ Len(issue') = Len(issue) /\ issue'[i] = c
        /\ DOMAIN issue' = DOMAIN issue /\ \A k \in DOMAIN issue : k # i => issue'[k] = issue[k]
    BY <1>1, <2>1, <2>2 DEF Outside
  <2>5. Outside'
    BY <1>1, <2>2, <2>4 DEF Outside
  <2> QED
    BY <2>1, <2>3, <2>4, <2>5 DEF Unsigned
<1>7. CASE AuthorizeSave \/ AuthorizeMarker \/ AuthorizeDone \/ CloseLoad \/ CloseSave
  <2>1. UNCHANGED <<issue, bound, clock>> /\ version' \in {version, version + 1}
    BY <1>7, Zenon DEF AuthorizeSave, AuthorizeMarker, AuthorizeDone, CloseLoad, CloseSave, mailbox, inside
  <2> QED
    BY <1>1, <2>1 DEF Outside, Unsigned
<1>8. CASE Unbind
  BY <1>1, <1>8 DEF Outside, Unsigned, Unbind, inside
<1>9. CASE Tick
  BY <1>1, <1>9, CalmClock DEF Outside, Unsigned, Tick, mailbox
<1>10. CASE UNCHANGED <<outside, runner, sent>>
  BY <1>1, <1>10 DEF Outside, Unsigned, outside, mailbox
<1> QED
  BY <1>4, <1>5, <1>6, <1>7, <1>8, <1>9, <1>10 DEF Next, Others

\* A step of GitHub, of Sentinel or of time leaves the session alone.
Elsewhere ==
    UNCHANGED <<disk, behind, raced, copy, pc, response, listing, answers, sent, auth, closing, closedOk>>

\* A step that is not the runner's is one of the operators' commands, or elsewhere.
LEMMA OtherSteps ==
    ASSUME Next, ~(Poll \/ Crash)
    PROVE  AuthorizeSave \/ AuthorizeMarker \/ AuthorizeDone \/ CloseLoad \/ CloseSave \/ Elsewhere
<1>1. ASSUME NEW b \in Bodies, PostComment(b) \/ \E i \in DOMAIN issue : EditComment(i, b)
      PROVE  Elsewhere
  BY <1>1 DEF PostComment, EditComment, Elsewhere, session, inside, runner, operators
<1>2. ASSUME Unbind \/ Tick
      PROVE  Elsewhere
  BY <1>2 DEF Unbind, Tick, Elsewhere, session, inside, runner, operators, mailbox
<1>3. ASSUME UNCHANGED <<outside, runner, sent>>
      PROVE  Elsewhere
  BY <1>3 DEF Elsewhere, outside, session, runner, operators, mailbox
<1> QED
  BY <1>1, <1>2, <1>3 DEF Next, Others

-----------------------------------------------------------------------------
(* Types and places *)

Places == Working \cup {"idle", "loaded", "scan"}

Triples == [seq : 1..MaxCommands, request : Requests, command : Commands]

\* The types of what the runner and the operators' commands keep.
Kinded ==
    /\ {disk, copy, closing} \subseteq Session \cup {None}
    /\ pc \in Places
    /\ response \in Answer \cup {None}
    /\ listing \in [comments : Seq(Comment), etag : Nat]
    /\ answers \subseteq Answer
    /\ auth \in {"start", "saved", "posted", "done", "failed"}
    /\ closedOk \in BOOLEAN /\ behind \in BOOLEAN /\ raced \in BOOLEAN
    /\ sent \subseteq Triples

\* The type invariant, split into the service's part and the relay's.
LEMMA TypeParts == TypeOK <=> ApiTypeOK /\ Outside /\ Kinded
  BY DEF TypeOK, Outside, Kinded, Places, Working, Triples

\* What is submitted is typed.
LEMMA SendsTyped ==
    ASSUME TypeOK, copy # None, Sends
    PROVE  sent' \subseteq Triples
<1>1. sent \subseteq Triples
  BY DEF TypeOK, Triples
<1>2. copy.inflight # None => Sending \in Triples
  BY DEF TypeOK, Session, Inflight, Sending, Req, Triples
<1> QED
  BY <1>1, <1>2 DEF Sends

\* The history of a write.
LEMMA RacedTyped ==
    ASSUME TypeOK, raced' = (raced \/ behind)
    PROVE  raced' \in BOOLEAN
  BY Zenon DEF TypeOK

\* The runner has nothing.
LEMMA ReturnTyped ==
    ASSUME Return
    PROVE  /\ pc' = "idle" /\ copy' = None /\ response' = None
           /\ listing' \in [comments : Seq(Comment), etag : Nat] /\ Len(listing'.comments) = 0
  BY DEF Return, Nothing

\* Every move of the runner keeps the types and its places.
LEMMA RunnerPlaces ==
    ASSUME TypeOK, PlaceInv, RunnerMoves, UNCHANGED <<issue, bound, clock, auth, closing, closedOk>>
    PROVE  Kinded' /\ PlaceInv'
<1>1. /\ Kinded /\ MaxComments \in Nat
      /\ disk # None => Sound(disk)
      /\ copy # None => Sound(copy)
      /\ closing # None => Sound(closing)
  BY TypeParts, RelayAssumption DEF PlaceInv
<1>2. CASE Works
  <2>1. sent' \subseteq Triples
    BY <1>2, SendsTyped DEF Works
  <2>2. disk # None /\ ~copy.closed
    BY <1>2 DEF PlaceInv, Works
  <2>3. CASE /\ pc' = "scan" /\ copy.inflight = None
             /\ listing' = [comments |-> issue, etag |-> version] /\ response' = response
    <3>1. listing' \in [comments : Seq(Comment), etag : Nat] /\ Len(listing'.comments) <= MaxComments
      BY <2>3 DEF TypeOK
    <3>2. Kinded'
      BY <1>1, <1>2, <2>1, <2>3, <3>1 DEF Kinded, Works, Places
    <3> QED
      BY <1>1, <1>2, <2>2, <2>3, <3>1, <3>2 DEF PlaceInv, Works, Working
  <2>4. CASE /\ pc' \in Working /\ copy.inflight # None /\ listing' = listing
             /\ Answers(response') \/ (pc' # "finish" /\ response' = response)
    <3>1. Kinded'
      BY <1>1, <1>2, <2>1, <2>4 DEF Kinded, Works, Places, Answers
    <3>2. Len(listing'.comments) <= MaxComments
      BY <2>4 DEF PlaceInv
    <3>3. pc' = "finish" => /\ response' # None /\ response'.seq = copy.inflight.seq
                            /\ response'.request = copy.inflight.request
                            /\ response'.command = copy.inflight.command
      BY <2>4, SessionAssumption DEF Answers
    <3> QED
      BY <1>1, <1>2, <2>2, <2>4, <3>1, <3>2, <3>3 DEF PlaceInv, Works, Working
  <2> QED
    BY <1>2, <2>3, <2>4 DEF Works
<1>3. CASE Quits
  <2>1. sent' \subseteq Triples
    BY <1>3, SendsTyped DEF Quits
  <2>2. answers' \subseteq Answer
    BY <1>1, <1>3 DEF Quits, Kinded, PlaceInv
  <2>3. /\ pc' = "idle" /\ copy' = None /\ response' = None
        /\ listing' \in [comments : Seq(Comment), etag : Nat] /\ Len(listing'.comments) = 0
    BY <1>3, ReturnTyped DEF Quits
  <2>4. disk' = disk /\ UNCHANGED <<behind, raced>>
    BY <1>3 DEF Quits
  <2>5. Kinded'
    BY <1>1, <2>1, <2>2, <2>3, <2>4 DEF Kinded, Places
  <2> QED
    BY <1>1, <2>3, <2>4, <2>5 DEF PlaceInv, Working
<1>4. CASE Writes
  <2>1. raced' \in BOOLEAN
    BY <1>4, RacedTyped DEF Writes
  <2>3. /\ pc' = "idle" /\ copy' = None /\ response' = None
        /\ listing' \in [comments : Seq(Comment), etag : Nat] /\ Len(listing'.comments) = 0
    BY <1>4, ReturnTyped DEF Writes
  <2>4. disk' \in Session /\ Sound(disk') /\ UNCHANGED <<behind, answers, sent>>
    BY <1>4 DEF Writes
  <2>5. Kinded'
    BY <1>1, <2>1, <2>3, <2>4 DEF Kinded, Places
  <2> QED
    BY <1>1, <2>3, <2>4, <2>5 DEF PlaceInv, Working
<1>5. CASE Records
  <2>1. raced' \in BOOLEAN
    BY <1>5, RacedTyped DEF Records
  <2>2. disk' \in Session /\ copy' = disk' /\ Sound(disk') /\ UNCHANGED <<behind, answers, sent, listing>>
    BY <1>5 DEF Records
  <2>3. /\ pc' \in Working /\ disk'.inflight # None /\ disk'.next <= MaxCommands /\ ~disk'.closed
    BY <1>5 DEF Records, Working
  <2>4. /\ response' \in Answer \cup {None}
        /\ pc' = "finish" => /\ response' # None /\ response'.seq = disk'.inflight.seq
                             /\ response'.request = disk'.inflight.request
                             /\ response'.command = disk'.inflight.command
    <3>1. CASE copy.inflight = None /\ pc' = "bootstrap" /\ response' = response
      BY <1>1, <3>1 DEF Kinded
    <3>2. CASE /\ copy.inflight # None /\ Agree(disk', copy)
               /\ Answers(response') \/ (pc' # "finish" /\ response' = None)
      BY <2>3, <3>2, SessionAssumption DEF Answers, Agree
    <3> QED
      BY <1>5, <3>1, <3>2 DEF Records
  <2>5. Kinded'
    BY <1>1, <2>1, <2>2, <2>3, <2>4 DEF Kinded, Places
  <2>6. disk' # None /\ Len(listing'.comments) <= MaxComments
    BY <2>2, SessionAssumption DEF PlaceInv
  <2> QED
    BY <1>1, <2>2, <2>3, <2>4, <2>5, <2>6 DEF PlaceInv, Working
<1>6. CASE Posts \/ Misplaces
  <2>1. raced' \in BOOLEAN
    BY <1>6, RacedTyped DEF Posts, Misplaces
  <2>2. /\ disk' \in Session /\ Sound(disk') /\ disk'.inflight = None
        /\ ~disk'.closed => disk'.next <= MaxCommands
        /\ UNCHANGED <<behind, sent>> /\ answers' \subseteq Answer
    BY <1>1, <1>6, AdvanceTyped DEF Posts, Misplaces, Kinded, PlaceInv
  <2>3. \/ Return
        \/ ~disk'.closed /\ copy' = disk' /\ pc' = "scan" /\ response' = None /\ UNCHANGED listing
    BY <1>6 DEF Posts, Misplaces
  <2>4. CASE Return
    <3>1. /\ pc' = "idle" /\ copy' = None /\ response' = None
          /\ listing' \in [comments : Seq(Comment), etag : Nat] /\ Len(listing'.comments) = 0
      BY <2>4, ReturnTyped
    <3>2. Kinded'
      BY <1>1, <2>1, <2>2, <3>1 DEF Kinded, Places
    <3> QED
      BY <1>1, <2>2, <3>1, <3>2 DEF PlaceInv, Working
  <2>5. CASE ~disk'.closed /\ copy' = disk' /\ pc' = "scan" /\ response' = None /\ UNCHANGED listing
    <3>1. Kinded'
      BY <1>1, <2>1, <2>2, <2>5 DEF Kinded, Places
    <3>2. disk' # None /\ Len(listing'.comments) <= MaxComments
      BY <2>2, <2>5, SessionAssumption DEF PlaceInv
    <3> QED
      BY <1>1, <2>2, <2>5, <3>1, <3>2 DEF PlaceInv, Working
  <2> QED
    BY <2>3, <2>4, <2>5
<1>7. CASE Load
  <2>1. /\ copy' = disk /\ disk # None /\ ~disk.closed /\ pc' = "loaded" /\ behind' = FALSE
        /\ UNCHANGED <<disk, response, listing, answers, raced, sent>>
    BY <1>7 DEF Load, mailbox
  <2>2. Kinded'
    BY <1>1, <2>1 DEF Kinded, Places
  <2> QED
    BY <1>1, <2>1, <2>2 DEF PlaceInv, Working
<1> QED
  BY <1>2, <1>3, <1>4, <1>5, <1>6, <1>7 DEF RunnerMoves

\* A new session.
LEMMA NewTyped ==
    /\ NewSession \in Session /\ Sound(NewSession) /\ Blank(NewSession)
    /\ LET s == [NewSession EXCEPT !.bot = TRUE] IN s \in Session /\ Sound(s) /\ Blank(s) /\ s.bot
    /\ NewSession.next = 1 /\ NewSession.inflight = None
<1>1. MaxCommands \in Nat \ {0} /\ MaximumFailedAuth \in Nat \ {0} /\ MaxComments \in Nat
  BY RelayAssumption
<1>2. /\ NewSession \in Session /\ NewSession.next = 1 /\ NewSession.inflight = None
      /\ NewSession.failed = 0
  BY <1>1 DEF NewSession, Session
<1>3. LET s == [NewSession EXCEPT !.bot = TRUE] IN
      s \in Session /\ s.next = 1 /\ s.inflight = None /\ s.failed = 0 /\ s.bot
  BY <1>2 DEF Session
<1> QED
  BY <1>1, <1>2, <1>3 DEF Sound, Blank

\* The session that an operator's command writes.
LEMMA OperatorWrites ==
    ASSUME TypeOK, PlaceInv, AuthorizeSave \/ AuthorizeMarker \/ AuthorizeDone \/ CloseLoad \/ CloseSave
    PROVE  /\ UNCHANGED <<copy, pc, response, listing, issue, answers, sent, raced>>
           /\ \/ disk' = disk /\ behind' = behind
              \/ disk' \in Session /\ Sound(disk') /\ behind' = (pc # "idle")
           /\ closing' \in {closing, None} \/ closing' = disk
           /\ auth' \in {"start", "saved", "posted", "done", "failed"} /\ closedOk' \in BOOLEAN
<1>1. UNCHANGED <<copy, pc, response, listing, issue, answers, sent, raced>>
  BY Zenon DEF AuthorizeSave, AuthorizeMarker, AuthorizeDone, CloseLoad, CloseSave, inside, runner, mailbox,
               session, OverwriteWith
<1>2. closing' \in {closing, None} \/ closing' = disk
  BY DEF AuthorizeSave, AuthorizeMarker, AuthorizeDone, CloseLoad, CloseSave
<1>3. auth' \in {"start", "saved", "posted", "done", "failed"} /\ closedOk' \in BOOLEAN
  BY DEF AuthorizeSave, AuthorizeMarker, AuthorizeDone, CloseLoad, CloseSave, TypeOK
<1>4. /\ NewSession \in Session /\ Sound(NewSession)
      /\ [NewSession EXCEPT !.bot = TRUE] \in Session /\ Sound([NewSession EXCEPT !.bot = TRUE])
      /\ Close(NewSession) \in Session /\ Sound(Close(NewSession))
  BY NewTyped, ClosedTyped
<1>5. closing # None => Close(closing) \in Session /\ Sound(Close(closing))
  BY ClosedTyped DEF TypeOK, PlaceInv
<1>6. \/ disk' = disk /\ behind' = behind
      \/ disk' \in Session /\ Sound(disk') /\ behind' = (pc # "idle")
  BY <1>4, <1>5 DEF AuthorizeSave, AuthorizeMarker, AuthorizeDone, CloseLoad, CloseSave, OverwriteWith, session
<1> QED
  BY <1>1, <1>2, <1>3, <1>6

\* Every step keeps the types and the runner's places.
LEMMA NextPlaces ==
    ASSUME TypeOK, PlaceInv, Next
    PROVE  TypeOK' /\ PlaceInv'
<1>1. ApiTypeOK' /\ Outside'
  BY NextServes, NextOutside
<1>2. Kinded /\ (disk # None => Sound(disk)) /\ (closing # None => Sound(closing))
  BY TypeParts DEF PlaceInv
<1>3. Kinded' /\ PlaceInv'
  <2>1. CASE Poll \/ Crash
    BY <2>1, RunnerSteps, RunnerPlaces
  <2>2. CASE AuthorizeSave \/ AuthorizeMarker \/ AuthorizeDone \/ CloseLoad \/ CloseSave
    <3>1. UNCHANGED <<copy, pc, response, listing, answers, sent, raced>>
      BY <2>2, OperatorWrites
    <3>2. /\ disk' \in Session \/ disk' = disk
          /\ disk' # None => Sound(disk')
          /\ disk # None => disk' # None
      BY <1>2, <2>2, OperatorWrites, SessionAssumption
    <3>3. closing' \in Session \cup {None} /\ (closing' # None => Sound(closing'))
      BY <1>2, <2>2, OperatorWrites DEF Kinded
    <3>4. auth' \in {"start", "saved", "posted", "done", "failed"} /\ closedOk' \in BOOLEAN
      BY <2>2, OperatorWrites
    <3>5. behind' \in BOOLEAN
      <4>1. behind' = behind \/ behind' = (pc # "idle")
        BY <2>2, OperatorWrites
      <4> QED
        BY <1>2, <4>1, Zenon DEF Kinded
    <3>6. Kinded'
      BY <1>2, <3>1, <3>2, <3>3, <3>4, <3>5 DEF Kinded
    <3> QED
      BY <3>1, <3>2, <3>3, <3>6 DEF PlaceInv
  <2>3. CASE Elsewhere
    BY <1>2, <2>3 DEF Elsewhere, Kinded, PlaceInv
  <2> QED
    BY <2>1, <2>2, <2>3, OtherSteps
<1>4. TypeOK'
  BY <1>1, <1>3 DEF TypeOK, Outside, Kinded, Places, Working, Triples
<1> QED
  BY <1>3, <1>4

-----------------------------------------------------------------------------
(* Before the session is authorized *)

\* The runner takes nothing into the session before the secret is printed.
LEMMA NextEarly ==
    ASSUME TypeOK, PlaceInv, EarlyInv, Next
    PROVE  EarlyInv'
<1>1. auth # "done" => (copy # None => copy.inflight = None /\ copy.next = 1)
  BY DEF EarlyInv, Blank
<1>2. auth # "done" => pc \notin Working
  <2>1. pc \in Working => copy # None /\ copy.inflight # None
    BY DEF PlaceInv, Working
  <2> QED
    BY <1>1, <2>1
<1>3. CASE Poll \/ Crash
  <2>1. RunnerMoves /\ UNCHANGED <<issue, auth, closing, closedOk>>
    BY <1>3, RunnerSteps
  <2>2. disk' = disk \/ disk' \in Session
    BY <2>1, AdvanceTyped DEF RunnerMoves, Works, Quits, Writes, Records, Posts, Misplaces, Load
  <2>3. disk' # None <=> disk # None
    <3>1. copy # None \/ pc = "finish" \/ Load
      BY <2>1 DEF RunnerMoves, Works, Quits, Writes, Records, Posts, Misplaces
    <3>2. disk # None
      BY <3>1 DEF PlaceInv, Load
    <3> QED
      BY <2>2, <3>2, SessionAssumption
  <2>4. ASSUME auth # "done"
        PROVE  /\ Blank(disk') /\ Blank(copy')
               /\ sent' = {} /\ answers' = {} /\ Unsigned(listing'.comments)
    <3>1. /\ Blank(disk) /\ Blank(copy) /\ Unsigned(issue) /\ Unsigned(listing.comments)
          /\ sent = {} /\ answers = {} /\ pc # "finish"
      BY <1>2, <2>4 DEF EarlyInv, Working
    <3>2. Return => Blank(copy') /\ Unsigned(listing'.comments)
      BY DEF Return, Nothing, Blank, Unsigned
    <3>3. CASE Works
      BY <1>1, <2>4, <3>1, <3>3 DEF Works, Sends, Unsigned
    <3>4. CASE Quits
      BY <1>1, <2>4, <3>1, <3>2, <3>4 DEF Quits, Sends
    <3>5. CASE Writes
      BY <1>1, <2>4, <3>1, <3>2, <3>5 DEF Writes, SameWork, Blank
    <3>6. CASE Load
      BY <3>1, <3>6 DEF Load, mailbox
    <3>7. ~Records /\ ~Posts /\ ~Misplaces
      BY <1>1, <2>4, <3>1 DEF Records, Posts, Misplaces
    <3> QED
      BY <2>1, <3>3, <3>4, <3>5, <3>6, <3>7 DEF RunnerMoves
  <2> QED
    BY <2>1, <2>3, <2>4 DEF EarlyInv
<1>4. auth # "done" /\ Unsigned(issue) => Unsigned(issue')
  BY NextOutside
<1>5. CASE AuthorizeSave \/ AuthorizeMarker \/ AuthorizeDone \/ CloseLoad \/ CloseSave
  <2>1. UNCHANGED <<copy, listing, answers, sent, issue>>
    BY <1>5, OperatorWrites
  <2>2. /\ Blank(NewSession) /\ NewSession # None /\ Close(NewSession) # None /\ Blank(Close(NewSession))
        /\ [NewSession EXCEPT !.bot = TRUE] # None
    BY NewTyped, ClosedTyped, SessionAssumption DEF SameWork, Blank
  <2>3. CASE AuthorizeSave
    BY <2>1, <2>2, <2>3 DEF AuthorizeSave, EarlyInv, OverwriteWith
  <2>4. CASE AuthorizeMarker
    BY <2>1, <2>2, <2>4 DEF AuthorizeMarker, EarlyInv, OverwriteWith, session
  <2>5. CASE AuthorizeDone
    BY <2>1, <2>2, <2>5 DEF AuthorizeDone, EarlyInv, OverwriteWith, session
  <2>6. CASE CloseLoad
    BY <2>6 DEF CloseLoad, EarlyInv, session
  <2>7. CASE CloseSave
    <3>1. Close(closing) # None
      BY <2>7, ClosedTyped, SessionAssumption DEF CloseSave, TypeOK, PlaceInv
    <3> QED
      BY <2>7, <3>1 DEF CloseSave, EarlyInv, OverwriteWith
  <2> QED
    BY <1>5, <2>3, <2>4, <2>5, <2>6, <2>7
<1>6. CASE Elsewhere
  BY <1>4, <1>6 DEF Elsewhere, EarlyInv
<1> QED
  BY <1>3, <1>5, <1>6, OtherSteps

-----------------------------------------------------------------------------
(* The file and the runner's copy *)

\* The runner works on what the file has, unless the file is closed.
LEMMA NextAgree ==
    ASSUME TypeOK, PlaceInv, EarlyInv, AgreeInv, Next
    PROVE  AgreeInv'
<1>1. CASE Poll \/ Crash
  <2>1. RunnerMoves
    BY <1>1, RunnerSteps
  <2>2. CASE Works
    BY <2>2 DEF Works, AgreeInv
  <2>3. CASE Return
    BY <2>3 DEF Return, AgreeInv
  <2>4. CASE copy' = disk' \/ Load
    BY <2>4 DEF Load, AgreeInv, Agree
  <2> QED
    BY <2>1, <2>2, <2>3, <2>4 DEF RunnerMoves, Quits, Writes, Records, Posts, Misplaces
<1>2. CASE AuthorizeSave \/ AuthorizeMarker \/ AuthorizeDone
  <2>1. copy' = copy /\ (copy # None => copy.next = 1 /\ copy.inflight = None)
    BY <1>2, OperatorWrites DEF AuthorizeSave, AuthorizeMarker, AuthorizeDone, EarlyInv, Blank
  <2>2. \/ disk' = disk
        \/ disk'.next = 1 /\ disk'.inflight = None
    <3>1. Close(NewSession).next = 1 /\ Close(NewSession).inflight = None
      BY NewTyped, ClosedTyped DEF SameWork
    <3>2. /\ NewSession.next = 1 /\ NewSession.inflight = None
          /\ [NewSession EXCEPT !.bot = TRUE].next = 1 /\ [NewSession EXCEPT !.bot = TRUE].inflight = None
      BY NewTyped DEF NewSession
    <3> QED
      BY <1>2, <3>1, <3>2 DEF AuthorizeSave, AuthorizeMarker, AuthorizeDone, OverwriteWith, session
  <2> QED
    BY <2>1, <2>2 DEF AgreeInv, Agree
<1>3. CASE CloseLoad
  BY <1>3, OperatorWrites DEF CloseLoad, session, AgreeInv
<1>4. CASE CloseSave
  BY <1>4, ClosedTyped DEF CloseSave, OverwriteWith, TypeOK, PlaceInv, AgreeInv
<1>5. CASE Elsewhere
  BY <1>5 DEF Elsewhere, AgreeInv
<1> QED
  BY <1>1, <1>2, <1>3, <1>4, <1>5, OtherSteps

\* Equal work holds the same requests.
LEMMA HoldsSame ==
    ASSUME NEW s, NEW t, NEW e, Holds(t, e), Agree(s, t) \/ SameWork(s, t)
    PROVE  Holds(s, e)
  BY DEF Agree, SameWork, Holds

\* What was sent or answered stays in the file and in the runner's copy.
LEMMA NextHeld ==
    ASSUME TypeOK, PlaceInv, EarlyInv, AgreeInv, HeldInv, Next
    PROVE  HeldInv'
<1>1. ASSUME NEW e \in sent \cup answers
      PROVE  (disk.closed \/ Holds(disk, e)) /\ (copy # None => Holds(copy, e))
  BY <1>1 DEF HeldInv
<1>2. CASE Poll \/ Crash
  <2>1. RunnerMoves
    BY <1>2, RunnerSteps
  <2>2. ASSUME copy # None, copy.inflight # None
        PROVE  Holds(copy, Sending) /\ (disk.closed \/ Holds(disk, Sending))
    <3>1. Holds(copy, Sending)
      BY <2>2 DEF Holds, Sending, Req
    <3> QED
      BY <2>2, <3>1, HoldsSame DEF AgreeInv, Agree, Holds
  <2>3. ASSUME pc = "finish"
        PROVE  Holds(copy, response) /\ (disk.closed \/ Holds(disk, response)) /\ copy # None
    <3>1. copy # None /\ Holds(copy, response)
      BY <2>3, HasCopy DEF PlaceInv, Working, Holds
    <3> QED
      BY <3>1, HoldsSame DEF AgreeInv, Agree, Holds
  <2>4. CASE Works
    <3>1. \A e \in sent' \cup answers' : e \in sent \cup answers \/ (copy.inflight # None /\ e = Sending)
      BY <2>4 DEF Works, Sends
    <3>2. copy # None /\ disk' = disk /\ copy' = copy
      BY <2>4 DEF Works
    <3> QED
      BY <1>1, <2>2, <3>1, <3>2 DEF HeldInv
  <2>5. CASE Quits
    <3>1. \A e \in sent' \cup answers' : \/ e \in sent \cup answers
                                         \/ copy.inflight # None /\ e = Sending
                                         \/ pc = "finish" /\ e = response
      BY <2>5 DEF Quits, Sends
    <3>2. copy # None /\ disk' = disk /\ copy' = None
      BY <2>5 DEF Quits, Return
    <3> QED
      BY <1>1, <2>2, <2>3, <3>1, <3>2 DEF HeldInv
  <2>6. CASE Writes
    <3>1. sent' = sent /\ answers' = answers /\ copy # None /\ copy' = None /\ SameWork(disk', copy)
      BY <2>6 DEF Writes, Return
    <3> QED
      BY <1>1, <3>1, HoldsSame DEF HeldInv
  <2>7. CASE Records
    <3>1. sent' = sent /\ answers' = answers /\ copy # None /\ copy' = disk' /\ disk'.next = copy.next
      BY <2>7 DEF Records
    <3>2. ASSUME NEW e \in sent \cup answers
          PROVE  Holds(disk', e)
      <4>1. CASE copy.inflight = None
        BY <1>1, <3>1, <4>1 DEF Holds
      <4>2. CASE Agree(disk', copy)
        BY <1>1, <3>1, <4>2, HoldsSame
      <4> QED
        BY <2>7, <4>1, <4>2 DEF Records
    <3> QED
      BY <3>1, <3>2 DEF HeldInv
  <2>8. CASE Posts \/ Misplaces
    <3>1. /\ sent' = sent /\ answers' \subseteq answers \cup {response} /\ disk' = Advance
          /\ copy' = None \/ copy' = Advance
          /\ copy # None /\ pc = "finish"
      BY <2>3, <2>8 DEF Posts, Misplaces, Return
    <3>2. Advance.next = copy.next + 1 /\ copy.next \in Nat
      <4>1. copy \in Session /\ Advance.next = copy.next + 1
        BY <3>1, AdvanceTyped DEF TypeOK
      <4> QED
        BY <4>1, RelayAssumption DEF Session
    <3>3. copy.inflight.seq = copy.next
      BY <3>1 DEF PlaceInv, Working, Sound
    <3>4. ASSUME NEW e \in sent' \cup answers'
          PROVE  Holds(Advance, e)
      <4>1. Holds(copy, e)
        BY <1>1, <2>3, <3>1
      <4>2. e.seq \in Nat
        <5>1. e \in sent \/ e \in answers \/ e = response
          BY <3>1
        <5>2. response \in Answer
          BY <3>1 DEF TypeOK, PlaceInv
        <5>3. e \in Triples \/ e \in Answer
          BY <5>1, <5>2 DEF TypeOK, Triples
        <5> QED
          BY <5>3, RelayAssumption DEF Triples, Answer
      <4> QED
        BY <3>2, <3>3, <4>1, <4>2 DEF Holds
    <3> QED
      BY <3>1, <3>4 DEF HeldInv
  <2>9. CASE Load
    BY <1>1, <2>9 DEF Load, mailbox, HeldInv
  <2> QED
    BY <2>1, <2>4, <2>5, <2>6, <2>7, <2>8, <2>9 DEF RunnerMoves
<1>3. CASE AuthorizeSave \/ AuthorizeMarker \/ AuthorizeDone
  BY <1>3, OperatorWrites DEF AuthorizeSave, AuthorizeMarker, AuthorizeDone, EarlyInv, HeldInv
<1>4. CASE CloseLoad
  BY <1>4, OperatorWrites DEF CloseLoad, session, HeldInv
<1>5. CASE CloseSave
  <2>1. disk'.closed /\ UNCHANGED <<copy, sent, answers>>
    BY <1>5, ClosedTyped, OperatorWrites DEF CloseSave, OverwriteWith, TypeOK, PlaceInv
  <2> QED
    BY <2>1 DEF HeldInv
<1>6. CASE Elsewhere
  BY <1>6 DEF Elsewhere, HeldInv
<1> QED
  BY <1>2, <1>3, <1>4, <1>5, <1>6, OtherSteps

-----------------------------------------------------------------------------
(* What a race may break, and nothing else *)

\* A runner with a request in flight knows the bot's identity, or has raced.
LEMMA IdentityKnown ==
    ASSUME TypeOK, PlaceInv, EarlyInv, IdentityInv, pc \in Working
    PROVE  auth = "done" /\ copy # None /\ (raced \/ copy.bot)
<1>1. copy # None /\ copy.inflight # None
  BY DEF PlaceInv, Working
<1> QED
  BY <1>1 DEF EarlyInv, Blank, IdentityInv

\* The identity that authorize saved stays in the file.
LEMMA NextIdentity ==
    ASSUME TypeOK, PlaceInv, EarlyInv, IdentityInv, Next
    PROVE  IdentityInv'
<1>1. CASE Poll \/ Crash
  <2>1. RunnerMoves /\ auth' = auth
    BY <1>1, RunnerSteps
  <2>2. CASE Works
    BY <2>1, <2>2 DEF Works, IdentityInv
  <2>3. CASE Quits
    BY <2>1, <2>3 DEF Quits, Return, IdentityInv
  <2>4. CASE Writes
    BY <2>1, <2>4 DEF Writes, SameWork, Return, IdentityInv
  <2>5. CASE Records
    BY <2>1, <2>5 DEF Records, Agree, IdentityInv
  <2>6. CASE Posts \/ Misplaces
    <3>1. disk'.bot = copy.bot /\ raced' = (raced \/ behind) /\ (copy' = None \/ copy' = disk')
      BY <2>6, AdvanceTyped DEF Posts, Misplaces, Return
    <3>2. raced \/ copy.bot
      BY <2>6, IdentityKnown DEF Posts, Misplaces, Working
    <3> QED
      BY <3>1, <3>2 DEF IdentityInv
  <2>7. CASE Load
    BY <2>1, <2>7 DEF Load, IdentityInv
  <2> QED
    BY <2>1, <2>2, <2>3, <2>4, <2>5, <2>6, <2>7 DEF RunnerMoves
<1>2. CASE AuthorizeSave \/ AuthorizeMarker
  BY <1>2, OperatorWrites DEF AuthorizeSave, AuthorizeMarker, IdentityInv
<1>3. CASE AuthorizeDone
  <2>1. copy' = copy /\ pc' = pc /\ raced' = raced /\ (copy # None => copy.inflight = None /\ pc # "idle")
    BY <1>3, OperatorWrites DEF AuthorizeDone, EarlyInv, Blank, PlaceInv
  <2>2. auth' = "done" => disk'.bot /\ behind' = (pc # "idle")
    BY <1>3, NewTyped DEF AuthorizeDone, OverwriteWith
  <2> QED
    BY <2>1, <2>2 DEF IdentityInv
<1>4. CASE CloseLoad
  BY <1>4, OperatorWrites DEF CloseLoad, session, IdentityInv
<1>5. CASE CloseSave
  <2>1. disk'.closed /\ behind' = (pc # "idle") /\ UNCHANGED <<copy, raced, auth>>
    BY <1>5, ClosedTyped, OperatorWrites DEF CloseSave, OverwriteWith, TypeOK, PlaceInv
  <2>2. copy # None => pc # "idle"
    BY DEF PlaceInv
  <2> QED
    BY <2>1, <2>2 DEF IdentityInv
<1>6. CASE Elsewhere
  BY <1>6 DEF Elsewhere, IdentityInv
<1> QED
  BY <1>1, <1>2, <1>3, <1>4, <1>5, <1>6, OtherSteps

\* A close that was reported stays in the file.
LEMMA NextClosed ==
    ASSUME TypeOK, PlaceInv, EarlyInv, ClosedInv, Next
    PROVE  ClosedInv'
<1>1. CASE Poll \/ Crash
  <2>1. RunnerMoves /\ closedOk' = closedOk
    BY <1>1, RunnerSteps
  <2>2. CASE Works
    BY <2>1, <2>2 DEF Works, ClosedInv
  <2>3. CASE Quits
    BY <2>1, <2>3 DEF Quits, Return, ClosedInv
  <2>4. CASE Writes \/ Records
    BY <2>1, <2>4 DEF Writes, Records, ClosedInv
  <2>5. CASE Posts \/ Misplaces
    <3>1. copy # None /\ raced' = (raced \/ behind)
      BY <2>5, HasCopy DEF Posts, Misplaces
    <3> QED
      BY <2>1, <3>1 DEF ClosedInv
  <2>6. CASE Load
    BY <2>1, <2>6 DEF Load, ClosedInv
  <2> QED
    BY <2>1, <2>2, <2>3, <2>4, <2>5, <2>6 DEF RunnerMoves
<1>2. CASE AuthorizeSave \/ AuthorizeMarker \/ AuthorizeDone
  BY <1>2 DEF AuthorizeSave, AuthorizeMarker, AuthorizeDone, EarlyInv, ClosedInv
<1>3. CASE CloseLoad
  BY <1>3, OperatorWrites DEF CloseLoad, session, ClosedInv
<1>4. CASE CloseSave
  <2>1. disk'.closed /\ behind' = (pc # "idle") /\ copy' = copy
    BY <1>4, ClosedTyped, OperatorWrites DEF CloseSave, OverwriteWith, TypeOK, PlaceInv
  <2>2. copy # None => pc # "idle"
    BY DEF PlaceInv
  <2> QED
    BY <2>1, <2>2 DEF ClosedInv
<1>5. CASE Elsewhere
  BY <1>5 DEF Elsewhere, ClosedInv
<1> QED
  BY <1>1, <1>2, <1>3, <1>4, <1>5, OtherSteps

\* The sequence advances only past what was answered.
LEMMA NextAnswered ==
    ASSUME TypeOK, PlaceInv, EarlyInv, IdentityInv, AnsweredInv, Next
    PROVE  AnsweredInv'
<1>1. /\ raced \/ (disk # None => AnsweredBelow(disk.next))
      /\ raced \/ (copy # None => AnsweredBelow(copy.next))
      /\ raced \/ (closing # None => AnsweredBelow(closing.next))
  BY DEF AnsweredInv
<1>2. CASE Poll \/ Crash
  <2>1. RunnerMoves /\ closing' = closing
    BY <1>2, RunnerSteps
  <2>2. answers \subseteq answers' /\ (raced => raced')
    <3>1. answers' = answers \/ answers' = answers \cup {response}
      BY <2>1, Zenon DEF RunnerMoves, Works, Quits, Writes, Records, Posts, Misplaces, Load, mailbox
    <3>2. raced' = raced \/ raced' = (raced \/ behind)
      BY <2>1, Zenon DEF RunnerMoves, Works, Quits, Writes, Records, Posts, Misplaces, Load
    <3>3. raced => raced'
      BY <3>2, Zenon
    <3> QED
      BY <3>1, <3>3
  <2>3. ASSUME NEW n, AnsweredBelow(n)
        PROVE  \A m \in 1..(n - 1) : \E a \in answers' : a.seq = m
    BY <2>2, <2>3 DEF AnsweredBelow
  <2>4. CASE Works \/ Quits
    BY <1>1, <2>1, <2>2, <2>3, <2>4 DEF Works, Quits, Return, AnsweredInv, AnsweredBelow
  <2>5. CASE Writes \/ Records
    <3>1. copy # None /\ disk'.next = copy.next /\ (copy' = None \/ copy' = disk')
      BY <2>5 DEF Writes, Records, SameWork, Return
    <3> QED
      BY <1>1, <2>1, <2>2, <2>3, <3>1 DEF AnsweredInv, AnsweredBelow
  <2>6. CASE Posts
    <3>1. /\ pc = "finish" /\ copy # None /\ disk'.next = copy.next + 1 /\ (copy' = None \/ copy' = disk')
          /\ answers' = answers \cup {response}
      BY <2>6, AdvanceTyped, HasCopy DEF Posts, Return
    <3>2. copy.next \in Nat /\ response.seq = copy.next
      <4>1. copy \in Session /\ Sound(copy) /\ copy.inflight # None /\ response.seq = copy.inflight.seq
        BY <3>1, HasCopy DEF PlaceInv, Working
      <4> QED
        BY <4>1, RelayAssumption DEF Session, Sound
    <3>3. raced \/ \A m \in 1..((copy.next + 1) - 1) : \E a \in answers' : a.seq = m
      <4>1. SUFFICES ASSUME ~raced, NEW m \in 1..((copy.next + 1) - 1)
                     PROVE  \E a \in answers' : a.seq = m
        OBVIOUS
      <4>2. m \in 1..(copy.next - 1) \/ m = copy.next
        BY <3>2
      <4> QED
        BY <1>1, <3>1, <3>2, <4>1, <4>2 DEF AnsweredBelow
    <3> QED
      BY <1>1, <2>1, <2>2, <2>3, <3>1, <3>3 DEF AnsweredInv, AnsweredBelow
  <2>7. CASE Misplaces
    <3>1. raced
      BY <2>7, IdentityKnown DEF Misplaces, Working
    <3> QED
      BY <2>2, <3>1 DEF AnsweredInv
  <2>8. CASE Load
    BY <1>1, <2>1, <2>2, <2>3, <2>8 DEF Load, AnsweredInv, AnsweredBelow
  <2> QED
    BY <2>1, <2>4, <2>5, <2>6, <2>7, <2>8 DEF RunnerMoves
<1>3. CASE AuthorizeSave \/ AuthorizeMarker \/ AuthorizeDone
  <2>1. UNCHANGED <<copy, answers, raced>> /\ closing' = closing
    BY <1>3, OperatorWrites DEF AuthorizeSave, AuthorizeMarker, AuthorizeDone
  <2>2. disk' = disk \/ disk'.next = 1
    <3>1. Close(NewSession).next = 1 /\ NewSession.next = 1 /\ [NewSession EXCEPT !.bot = TRUE].next = 1
      BY NewTyped, ClosedTyped DEF SameWork, NewSession
    <3> QED
      BY <1>3, <3>1 DEF AuthorizeSave, AuthorizeMarker, AuthorizeDone, OverwriteWith, session
  <2> QED
    BY <1>1, <2>1, <2>2 DEF AnsweredInv, AnsweredBelow
<1>4. CASE CloseLoad
  BY <1>1, <1>4, OperatorWrites DEF CloseLoad, session, AnsweredInv, AnsweredBelow
<1>5. CASE CloseSave
  <2>1. /\ closing # None /\ closing' = None /\ disk'.next = closing.next
        /\ UNCHANGED <<copy, answers, raced>>
    BY <1>5, ClosedTyped, OperatorWrites DEF CloseSave, OverwriteWith, TypeOK, PlaceInv, SameWork
  <2> QED
    BY <1>1, <2>1 DEF AnsweredInv, AnsweredBelow
<1>6. CASE Elsewhere
  BY <1>6 DEF Elsewhere, AnsweredInv, AnsweredBelow
<1> QED
  BY <1>2, <1>3, <1>4, <1>5, <1>6, OtherSteps

\* A request that is submitted again is the one that has the sequence number.
LEMMA NextSingle ==
    ASSUME TypeOK, PlaceInv, HeldInv, OneRequestPerSequence, Next
    PROVE  OneRequestPerSequence'
<1>1. sent' = sent \/ (copy # None /\ Sends)
  <2>1. CASE Poll \/ Crash
    <3>1. RunnerMoves
      BY <2>1, RunnerSteps
    <3> QED
      BY <3>1, Zenon DEF RunnerMoves, Works, Quits, Writes, Records, Posts, Misplaces, Load
  <2>2. CASE AuthorizeSave \/ AuthorizeMarker \/ AuthorizeDone \/ CloseLoad \/ CloseSave
    BY <2>2, OperatorWrites
  <2>3. CASE Elsewhere
    BY <2>3 DEF Elsewhere
  <2> QED
    BY <2>1, <2>2, <2>3, OtherSteps
<1>2. CASE sent' = sent
  BY <1>2 DEF OneRequestPerSequence
<1>3. CASE copy # None /\ copy.inflight # None /\ sent' = sent \cup {Sending}
  <2>1. copy \in Session /\ copy.inflight \in Inflight /\ copy.inflight.seq = copy.next
    BY <1>3 DEF TypeOK, PlaceInv, Sound, Session
  <2>2. copy.next \in Nat
    BY <2>1, RelayAssumption DEF Session
  <2>3. ASSUME NEW d \in sent, d.seq = Sending.seq
        PROVE  d = Sending
    <3>1. d \in Triples /\ Sending \in Triples
      BY <2>1 DEF TypeOK, Triples, Sending, Req, Inflight
    <3>2. Holds(copy, d) /\ d.seq = copy.inflight.seq
      BY <1>3, <2>3 DEF HeldInv, Sending, Req
    <3>3. d.request = Sending.request /\ d.command = Sending.command
      BY <2>1, <2>2, <3>2 DEF Holds, Sending, Req
    <3> QED
      BY <2>3, <3>1, <3>3 DEF Triples
  <2> QED
    BY <1>3, <2>3 DEF OneRequestPerSequence
<1> QED
  BY <1>1, <1>2, <1>3 DEF Sends

-----------------------------------------------------------------------------
(* The theorems about the session file *)

\* The initial state.
LEMMA InitRelay == Init => RelayInv
<1> SUFFICES ASSUME Init
             PROVE  RelayInv
  OBVIOUS
<1>1. ApiTypeOK
  BY ApiAssumption DEF Init, ApiInit, ApiTypeOK
<1>2. Outside /\ Kinded
  <2>1. <<>> \in Seq(Comment) /\ Len(<<>>) = 0 /\ 0 \in 0..MaxDisturbances /\ MaxComments \in Nat
    BY RelayAssumption
  <2>2. listing \in [comments : Seq(Comment), etag : Nat]
    BY <2>1 DEF Init, Nothing
  <2>3. Outside
    BY <2>1 DEF Init, Outside
  <2>4. Kinded
    BY <2>2 DEF Init, Kinded, Places
  <2> QED
    BY <2>3, <2>4
<1>3. TypeOK
  BY <1>1, <1>2, TypeParts
<1>4. PlaceInv
  BY RelayAssumption DEF Init, PlaceInv, Working, Nothing
<1>5. EarlyInv /\ AgreeInv /\ HeldInv /\ OneRequestPerSequence /\ AnsweredInv /\ IdentityInv /\ ClosedInv
  BY DEF Init, EarlyInv, Blank, Unsigned, Nothing, AgreeInv, HeldInv, OneRequestPerSequence, AnsweredInv,
         IdentityInv, ClosedInv
<1> QED
  BY <1>3, <1>4, <1>5 DEF RelayInv

\* Every step keeps the invariant.
LEMMA NextRelay == RelayInv /\ [Next]_vars => RelayInv'
<1> SUFFICES ASSUME RelayInv, [Next]_vars
             PROVE  RelayInv'
  OBVIOUS
<1>1. CASE Next
  BY <1>1, NextPlaces, NextEarly, NextAgree, NextHeld, NextSingle, NextAnswered, NextIdentity, NextClosed
     DEF RelayInv
<1>2. CASE UNCHANGED vars
  <2>1. /\ UNCHANGED <<jobs, approval, live, wire, masked, faults>>
        /\ UNCHANGED <<disk, copy, pc, response, listing, issue, version, bound, answers>>
        /\ UNCHANGED <<clock, auth, closing, closedOk, behind, raced, sent>>
    BY <1>2 DEF vars, apiVars
  <2>2. TypeOK' /\ PlaceInv'
    BY <2>1 DEF RelayInv, TypeOK, ApiTypeOK, PlaceInv
  <2>3. EarlyInv' /\ AgreeInv' /\ HeldInv' /\ OneRequestPerSequence' /\ AnsweredInv' /\ IdentityInv'
        /\ ClosedInv'
    BY <2>1 DEF RelayInv, EarlyInv, AgreeInv, HeldInv, OneRequestPerSequence, AnsweredInv, AnsweredBelow, IdentityInv, ClosedInv
  <2> QED
    BY <2>2, <2>3 DEF RelayInv
<1> QED
  BY <1>1, <1>2

\* The invariant of the relay holds throughout.
LEMMA RelayAlways == Spec => []RelayInv
  BY InitRelay, NextRelay, PTL DEF Spec

\* What the session file owes to a crash (SubmittedIsDurable, OneRequestPerSequence
\* and AnsweredBeforeAdvance, over well-typed states) it owes for any number of
\* comments, commands and failures: the file, or the copy that is written next,
\* has every request that was submitted.
THEOREM SessionIsDurable == Spec => []DurableSession
<1>1. RelayInv => DurableSession
  <2> SUFFICES ASSUME RelayInv
               PROVE  DurableSession
    OBVIOUS
  <2>1. TypeOK /\ HeldInv
    BY DEF RelayInv
  <2>2. SubmittedIsDurable
    BY <2>1 DEF HeldInv, Holds, SubmittedIsDurable
  <2>3. AnsweredBeforeAdvance
    BY DEF RelayInv, AnsweredInv, AnsweredBelow, AnsweredBeforeAdvance
  <2>4. OneRequestPerSequence
    BY DEF RelayInv
  <2> QED
    BY <2>1, <2>2, <2>3, <2>4 DEF DurableSession
<1> QED
  BY <1>1, RelayAlways, PTL

\* What authorize and close report as done stays in the session file, unless the
\* runner has written a copy that it had read before; at any interleaving of the
\* three processes.
THEOREM OperatorWritesHold == Spec => []OperatorWritesStick
<1>1. RelayInv => OperatorWritesStick
  BY DEF RelayInv, IdentityInv, ClosedInv, OperatorWritesStick
<1> QED
  BY <1>1, RelayAlways, PTL

-----------------------------------------------------------------------------
(* Completed responses *)

\* A completed response stays true: its job has ended.
LEMMA CompletedKept ==
    ASSUME NEW a \in Answer, Completed(a), Kept
    PROVE  Completed(a)'
<1>1. a.request \in Requests
  BY DEF Answer
<1> QED
  BY <1>1 DEF Completed, Kept

\* A completed response to the request in flight means that its job has ended.
LEMMA AnsweredRequest ==
    ASSUME TypeOK, PlaceInv, HeldInv, FinalInv, pc \in Working,
           NEW a \in answers, a.status = "completed", a.seq = copy.inflight.seq
    PROVE  /\ a.request = copy.inflight.request /\ a.command = copy.inflight.command
           /\ jobs[Grant][copy.inflight.request] # None
           /\ jobs[Grant][copy.inflight.request].status \in Terminal
           /\ jobs[Grant][copy.inflight.request].status = a.job
<1>1. copy # None /\ copy \in Session /\ copy.inflight # None /\ copy.inflight.seq = copy.next
  BY HasCopy DEF PlaceInv, Working, Sound
<1>2. copy.next \in Nat
  BY <1>1, RelayAssumption DEF Session
<1>3. Holds(copy, a)
  BY <1>1 DEF HeldInv
<1>4. a.request = copy.inflight.request /\ a.command = copy.inflight.command
  BY <1>1, <1>2, <1>3 DEF Holds
<1>5. Completed(a)
  BY DEF FinalInv
<1> QED
  BY <1>4, <1>5 DEF Completed

\* Where a step leaves the runner: at a place of no interest here, where it was, or
\* with the request in flight.
LEMMA FinalSteps ==
    ASSUME TypeOK, PlaceInv, Next
    PROVE  \/ pc' \in {"idle", "loaded", "scan", "bootstrap", "recover", "refused"}
           \/ UNCHANGED <<copy, pc, response, answers>>
           \/ Recover \/ SubmitRequest \/ SaveJob \/ AwaitJob \/ ExpireInflight
<1>1. ASSUME NEW i \in DOMAIN listing.comments,
             ScanClose(i) \/ ScanMalformed(i) \/ ScanDeny(i) \/ ScanAccept(i)
      PROVE  pc' \in {"idle", "bootstrap"}
  BY <1>1, Zenon DEF ScanClose, ScanMalformed, ScanDeny, ScanAccept, SaveAndReturn, Return
<1>2. ASSUME Load \/ CloseSpent \/ Resume \/ ListComments \/ ScanEnd \/ CloseRefused \/ FinishWithResponse \/ Crash
      PROVE  pc' \in {"idle", "loaded", "scan", "bootstrap"}
  BY <1>2, Zenon DEF Load, CloseSpent, Resume, ListComments, ScanEnd, CloseRefused, FinishWithResponse, Crash,
                     SaveAndReturn, Return, GoOn
<1>3. ASSUME AgentBootstrap
      PROVE  pc' \in {"idle", "recover", "refused"}
  <2>1. \/ Return
        \/ pc' \in {"recover", "refused"} /\ UNCHANGED <<copy, response, listing>>
    BY <1>3, Zenon DEF AgentBootstrap
  <2> QED
    BY <2>1 DEF Return
<1>4. ASSUME ~(Poll \/ Crash)
      PROVE  UNCHANGED <<copy, pc, response, answers>>
  <2>1. CASE Elsewhere
    BY <2>1 DEF Elsewhere
  <2>2. CASE AuthorizeSave \/ AuthorizeMarker \/ AuthorizeDone \/ CloseLoad \/ CloseSave
    BY <2>2, OperatorWrites
  <2> QED
    BY <1>4, <2>1, <2>2, OtherSteps
<1> QED
  BY <1>1, <1>2, <1>3, <1>4 DEF Poll

\* Responses are only ever added, and only the one that the runner holds.
LEMMA AnswersGrow ==
    ASSUME TypeOK, PlaceInv, Next
    PROVE  answers' = answers \/ (pc = "finish" /\ answers' = answers \cup {response})
<1>1. CASE Poll \/ Crash
  <2>1. RunnerMoves
    BY <1>1, RunnerSteps
  <2> QED
    BY <2>1, Zenon DEF RunnerMoves, Works, Quits, Writes, Records, Posts, Misplaces, Load, mailbox
<1>2. CASE AuthorizeSave \/ AuthorizeMarker \/ AuthorizeDone \/ CloseLoad \/ CloseSave
  BY <1>2, OperatorWrites
<1>3. CASE Elsewhere
  BY <1>3 DEF Elsewhere
<1> QED
  BY <1>1, <1>2, <1>3, OtherSteps

\* A job that is read is answered when it has ended; until then no completed
\* response was posted.
LEMMA FollowFinal ==
    ASSUME TypeOK, PlaceInv, HeldInv, FinalInv, pc \in Working, jobs' = jobs, answers' = answers,
           jobs[Grant][Req.request] # None, FollowJob(jobs[Grant][Req.request].status)
    PROVE  /\ pc' \in {"finish", "running"}
           /\ pc' = "finish" => Completed(response)' /\ response'.status = "completed"
           /\ pc' = "running" => Unanswered'
<1>1. copy # None /\ copy.inflight # None
  BY HasCopy DEF PlaceInv, Working
<1>2. CASE jobs[Grant][Req.request].status \in Terminal
  <2> DEFINE known == jobs[Grant][Req.request].status
  <2>1. response' = Envelope("completed", known) /\ pc' = "finish"
    BY <1>2 DEF FollowJob, Respond
  <2>2. response'.status = "completed" /\ response'.job = known /\ response'.request = Req.request
    BY <1>1, <1>2, <2>1, EnvelopeTyped DEF Answers, Req
  <2> QED
    BY <1>2, <2>1, <2>2 DEF Completed
<1>3. CASE jobs[Grant][Req.request].status \notin Terminal
  <2>1. pc' = "running" /\ copy' = copy
    BY <1>3 DEF FollowJob
  <2>2. \A a \in answers : a.status = "completed" => a.seq # copy.inflight.seq
    BY <1>3, AnsweredRequest DEF Req
  <2> QED
    BY <2>1, <2>2 DEF Unanswered
<1> QED
  BY <1>2, <1>3

\* Every step keeps the completed responses true, and takes no other way to a
\* response once one was posted.
LEMMA NextFinal ==
    ASSUME TypeOK, PlaceInv, HeldInv, FinalInv, Next
    PROVE  FinalInv'
<1>1. masked \subseteq masked' /\ Kept
  BY NextServes
<1>2. \A a \in answers' : Completed(a)'
  <2>1. \A a \in answers' : a \in Answer /\ Completed(a)
    BY AnswersGrow DEF FinalInv, TypeOK, PlaceInv
  <2> QED
    BY <1>1, <2>1, CompletedKept
<1>3. CASE pc' \in {"idle", "loaded", "scan", "bootstrap", "recover", "refused"}
  BY <1>2, <1>3 DEF FinalInv
<1>4. CASE UNCHANGED <<copy, pc, response, answers>>
  <2>1. pc = "finish" => Completed(response)'
    <3>1. pc = "finish" => response \in Answer /\ Completed(response)
      BY DEF TypeOK, PlaceInv, FinalInv
    <3>2. pc = "finish" => /\ jobs'[Grant][response.request] = jobs[Grant][response.request]
                           \/ response.status # "completed"
      BY <1>1, <3>1 DEF Kept, Completed, Answer
    <3> QED
      BY <1>4, <3>1, <3>2 DEF Completed
  <2>2. pc = "recovered" => jobs'[Grant][copy.inflight.request] # None
    <3>1. pc = "recovered" => copy.inflight.request \in Requests
      BY HasCopy DEF PlaceInv, Working, Session, Inflight
    <3> QED
      BY <1>1, <3>1 DEF FinalInv, Kept
  <2> QED
    BY <1>1, <1>2, <1>4, <2>1, <2>2 DEF FinalInv, Unanswered
<1>5. ASSUME Recover \/ SubmitRequest \/ SaveJob \/ AwaitJob \/ ExpireInflight
      PROVE  /\ pc \in Working \ {"finish"} /\ answers' = answers
             /\ copy # None /\ copy.inflight # None /\ Req.request \in Requests /\ Req.command \in Commands
             /\ ApiTypeOK /\ Grant \in Grants
  <2>1. pc \in Working \ {"finish"}
    BY <1>5 DEF Recover, SubmitRequest, SaveJob, AwaitJob, ExpireInflight, Working
  <2>2. copy # None /\ copy.inflight # None
    BY <2>1, HasCopy DEF PlaceInv, Working
  <2> QED
    BY <2>1, <2>2, AnswersGrow, RelayAssumption DEF Req, TypeOK, Session, Inflight
<1>6. ASSUME copy' = copy, answers' = answers, pc \in {"submit", "accepted", "await", "running"}
      PROVE  "404" \in masked' \/ Unanswered'
  BY <1>1, <1>6 DEF FinalInv, Unanswered
<1>7. CASE Recover
  <2>1. PICK reply \in {"job", "401", "404", "lost"} :
          /\ Lookup(Grant, Req.request, reply)
          /\ \/ reply = "404" /\ pc' = "submit" /\ copy' = copy
             \/ Return
             \/ reply = "job" /\ FollowJob(jobs[Grant][Req.request].status)
             \/ reply = "job" /\ pc' = "recovered" /\ copy' = copy
    BY <1>7, Zenon DEF Recover
  <2>2. jobs' = jobs /\ (reply = "job" => jobs[Grant][Req.request] # None)
    BY <1>5, <1>7, <2>1, LookupReads
  <2>3. reply = "404" => "404" \in masked' \/ jobs[Grant][Req.request] = None
    BY <2>1 DEF Lookup, JobView, Masked, Lost
  <2>4. CASE reply = "404" /\ pc' = "submit" /\ copy' = copy
    <3>1. jobs[Grant][Req.request] = None => Unanswered
      BY <1>5, <1>7, AnsweredRequest DEF Unanswered, Req
    <3> QED
      BY <1>2, <1>5, <1>7, <2>3, <2>4, <3>1 DEF FinalInv, Unanswered
  <2>5. CASE Return
    BY <1>3, <2>5 DEF Return
  <2>6. CASE reply = "job" /\ FollowJob(jobs[Grant][Req.request].status)
    BY <1>2, <1>5, <1>7, <2>2, <2>6, FollowFinal DEF FinalInv
  <2>7. CASE reply = "job" /\ pc' = "recovered" /\ copy' = copy
    BY <1>2, <2>2, <2>7 DEF FinalInv, Req
  <2> QED
    BY <2>1, <2>4, <2>5, <2>6, <2>7
<1>8. ASSUME copy # None, copy.inflight # None, answers' = answers, pc \in {"submit", "running"},
             Respond("sentinel_denied", None) \/ Respond("expired", None)
      PROVE  FinalInv'
  <2>1. pc' = "finish" /\ copy' = copy /\ response'.status # "completed"
    BY <1>8, EnvelopeTyped DEF Respond
  <2> QED
    BY <1>2, <1>6, <1>8, <2>1 DEF FinalInv, Completed
<1>9. CASE SubmitRequest
  <2>1. pc = "submit" /\ \/ pc' = "accepted" /\ copy' = copy
                         \/ UNCHANGED <<copy, pc, response>>
                         \/ Respond("sentinel_denied", None)
                         \/ pc' \in {"refused", "idle"}
    BY <1>9, Zenon DEF SubmitRequest, runner, Return
  <2>2. CASE pc' = "accepted" /\ copy' = copy
    BY <1>2, <1>5, <1>6, <1>9, <2>1, <2>2 DEF FinalInv
  <2> QED
    BY <1>3, <1>4, <1>5, <1>8, <1>9, <2>1, <2>2
<1>10. CASE SaveJob
  <2>1. pc \in {"accepted", "recovered"} /\ (Return \/ \E s : Save(s) /\ copy' = s)
    BY <1>10 DEF SaveJob
  <2>2. CASE Return
    BY <1>3, <2>2 DEF Return
  <2>3. CASE ~Return
    <3> DEFINE known == jobs[Grant][Req.request].status
               done == pc = "recovered" /\ known \in Terminal
    <3>1. /\ copy' = [copy EXCEPT !.inflight.job = TRUE]
          /\ pc' = IF pc = "accepted" THEN "await" ELSE IF done THEN "finish" ELSE "running"
          /\ response' = IF done THEN Envelope("completed", known) ELSE None
          /\ jobs' = jobs
      BY <1>10, <2>3 DEF SaveJob, service
    <3>2. copy'.inflight.seq = copy.inflight.seq
      <4>1. copy \in Session /\ copy.inflight \in Inflight
        BY <1>5, <1>10 DEF TypeOK, Session
      <4> QED
        BY <3>1, <4>1 DEF Session, Inflight
    <3>3. CASE pc = "accepted"
      <4>1. "404" \in masked' \/ Unanswered'
        BY <1>1, <1>5, <1>10, <3>2, <3>3 DEF FinalInv, Unanswered
      <4> QED
        BY <1>2, <3>1, <3>3, <4>1 DEF FinalInv
    <3>4. CASE done
      <4>1. /\ response'.status = "completed" /\ response'.job = known
            /\ response'.request = Req.request
        BY <1>5, <1>10, <3>1, <3>4, EnvelopeTyped DEF Answers, Req
      <4>2. jobs[Grant][Req.request] # None
        BY <3>4 DEF FinalInv, Req
      <4>3. Completed(response)' /\ pc' = "finish"
        BY <3>1, <3>4, <4>1, <4>2 DEF Completed
      <4> QED
        BY <1>2, <4>1, <4>3 DEF FinalInv
    <3>5. CASE pc = "recovered" /\ known \notin Terminal
      <4>1. Unanswered
        BY <1>5, <1>10, <3>5, AnsweredRequest DEF Unanswered, Req
      <4>2. Unanswered' /\ pc' = "running"
        BY <1>5, <1>10, <3>1, <3>2, <3>5, <4>1 DEF Unanswered
      <4> QED
        BY <1>2, <4>2 DEF FinalInv
    <3> QED
      BY <2>1, <3>3, <3>4, <3>5
  <2> QED
    BY <2>2, <2>3
<1>11. CASE AwaitJob
  <2>1. PICK reply : /\ Lookup(Grant, Req.request, reply)
                     /\ Return \/ (reply = "job" /\ FollowJob(jobs[Grant][Req.request].status))
    BY <1>11 DEF AwaitJob
  <2>2. jobs' = jobs /\ (reply = "job" => jobs[Grant][Req.request] # None)
    BY <1>5, <1>11, <2>1, LookupReads
  <2>3. CASE Return
    BY <1>3, <2>3 DEF Return
  <2>4. CASE reply = "job" /\ FollowJob(jobs[Grant][Req.request].status)
    BY <1>2, <1>5, <1>11, <2>2, <2>4, FollowFinal DEF FinalInv
  <2> QED
    BY <2>1, <2>3, <2>4
<1>12. CASE ExpireInflight
  BY <1>5, <1>8, <1>12 DEF ExpireInflight
<1> QED
  BY <1>3, <1>4, <1>7, <1>9, <1>10, <1>11, <1>12, FinalSteps

\* The responses stay true throughout.
LEMMA FinalAlways == Spec => [](RelayInv /\ FinalInv)
<1>1. Init => FinalInv
  BY DEF Init, FinalInv
<1>2. RelayInv /\ FinalInv /\ [Next]_vars => FinalInv'
  <2> SUFFICES ASSUME RelayInv, FinalInv, [Next]_vars
               PROVE  FinalInv'
    OBVIOUS
  <2>1. CASE Next
    BY <2>1, NextFinal DEF RelayInv
  <2>2. CASE UNCHANGED vars
    BY <2>2 DEF vars, apiVars, FinalInv, Completed, Unanswered
  <2> QED
    BY <2>1, <2>2
<1> QED
  BY <1>1, <1>2, InitRelay, NextRelay, PTL DEF Spec

\* A completed response is final: while no failure of the Gateway was answered with
\* the status of a refusal or of a missing job, no other response to its sequence
\* number is ever posted, whatever fails and however late a submission is served.
THEOREM CompletedStaysFinal == Spec => CompletedIsFinal
<1> DEFINE Final == masked' \cap {"403", "404"} = {} =>
             \A a \in answers, b \in answers' \ answers : a.status = "completed" => a.seq # b.seq
<1>1. RelayInv /\ FinalInv /\ [Next]_vars => [Final]_vars
  <2> SUFFICES ASSUME RelayInv, FinalInv, Next, masked' \cap {"403", "404"} = {},
                      NEW a \in answers, NEW b \in answers' \ answers, a.status = "completed", a.seq = b.seq
               PROVE  FALSE
    OBVIOUS
  <2>1. TypeOK /\ PlaceInv /\ HeldInv
    BY DEF RelayInv
  <2>2. pc = "finish" /\ b = response
    BY <2>1, AnswersGrow
  <2>3. "404" \notin masked
    BY <2>1, NextServes
  <2>4. response \in Answer /\ response.seq = copy.inflight.seq
        /\ response.request = copy.inflight.request /\ response.command = copy.inflight.command
    BY <2>1, <2>2 DEF TypeOK, PlaceInv
  <2>5. response.status = "completed"
    BY <2>2, <2>3, <2>4 DEF FinalInv, Unanswered
  <2>6. /\ a.request = response.request /\ a.command = response.command
        /\ jobs[Grant][response.request].status = a.job
    BY <2>1, <2>2, <2>4, AnsweredRequest DEF Working
  <2>7. jobs[Grant][response.request].status = response.job
    BY <2>2, <2>5 DEF FinalInv, Completed
  <2>8. a \in Answer
    BY <2>1 DEF TypeOK
  <2>9. a = response
    <3>1. \A x \in Answer : x = [seq |-> x.seq, request |-> x.request, command |-> x.command,
                                 status |-> x.status, job |-> x.job]
      BY DEF Answer
    <3>2. a.seq = response.seq /\ a.status = response.status /\ a.job = response.job
      BY <2>2, <2>5, <2>6, <2>7
    <3>3. a = [seq |-> a.seq, request |-> a.request, command |-> a.command, status |-> a.status, job |-> a.job]
      BY <2>8, <3>1
    <3>4. response = [seq |-> a.seq, request |-> a.request, command |-> a.command, status |-> a.status, job |-> a.job]
      BY <2>4, <2>6, <3>1, <3>2
    <3> QED
      BY <3>3, <3>4
  <2> QED
    BY <2>2, <2>9
<1>2. Spec => [][Final]_vars
  BY <1>1, FinalAlways, PTL DEF Spec
<1> QED
  BY <1>2 DEF CompletedIsFinal

-----------------------------------------------------------------------------
(* A denial holds *)

\* No failure of the Gateway was answered like a refusal or a missing job.
Clean == masked \cap {"403", "404"} = {}

\* Command c is refused for good: the grant does not permit it, the policy denies it
\* or the operator did.
Refused(c) ==
    \/ c \notin Permitted[Grant] \/ c \in Barred
    \/ c \in Risky /\ approval[Grant][c] = "denied"

\* What a denial rests on: a job that is there and does not run, or a refusal.
Grounds(a) == LET j == jobs[Grant][a.request] IN
    \/ j # None /\ (j.command # a.command \/ j.status \in {"canceled", "expired"})
    \/ j = None /\ Refused(a.command)

\* The jobs of the grant are of commands that it permits.
ScopedJobs == \A r \in Requests : jobs[Grant][r] # None => jobs[Grant][r].command \in Permitted[Grant]

DenyInv ==
    /\ ScopedJobs
    /\ Clean => \A a \in Denials : Grounds(a)

\* A submission that is served publishes nothing that was refused, and leaves every
\* refusal as it is.
LEMMA ServedRefused ==
    ASSUME ApiTypeOK, NEW g \in Grants, NEW r \in Requests, NEW c \in Commands,
           Commit(g, r, c) \/ StageOnly(g, r, c)
    PROVE  /\ \A d \in Commands : Refused(d) => Refused(d)'
           /\ jobs' # jobs /\ jobs[g][r] = None => Publishes(g, r, c)
           /\ g = Grant /\ Refused(c) => ~Publishes(g, r, c)
<1>1. approval \in ApprovalTable
  BY DEF ApiTypeOK, ApprovalTable
<1>2. Publishes(g, r, c) => Approved(g, c) /\ c \in Permitted[g]
  BY DEF Publishes, Decision
<1>3. g = Grant /\ Refused(c) => /\ ~(Approved(g, c) /\ c \in Permitted[g])
                                /\ Decision(g, r, c) # "approval_required"
  BY DEF Refused, Approved, Decision
<1>4. jobs' # jobs /\ jobs[g][r] = None => Publishes(g, r, c)
  BY DEF Commit, StageOnly, Rejects
<1>5. ASSUME NEW d \in Commands, Refused(d) PROVE Refused(d)'
  <2>1. CASE g = Grant /\ c = d
    <3>1. approval' = approval
      BY <1>2, <1>3, <1>5, <2>1 DEF Commit, StageOnly
    <3> QED
      BY <1>5, <3>1 DEF Refused
  <2>2. CASE ~(g = Grant /\ c = d)
    <3>1. approval'[Grant][d] = approval[Grant][d]
      BY <1>1, <2>2, RelayAssumption DEF Commit, StageOnly, ApprovalTable
    <3> QED
      BY <1>5, <3>1 DEF Refused
  <2> QED
    BY <2>1, <2>2
<1> QED
  BY <1>2, <1>3, <1>4, <1>5

\* A submission that is served leaves what a denial rests on.
LEMMA ServedGrounds ==
    ASSUME ApiTypeOK, NEW g \in Grants, NEW r \in Requests, NEW c \in Commands,
           Commit(g, r, c) \/ StageOnly(g, r, c), NEW a \in Answer, Grounds(a)
    PROVE  Grounds(a)'
<1>1. Grant \in Grants /\ a.request \in Requests /\ a.command \in Commands
  BY RelayAssumption DEF Answer
<1>2. Puts(g, r, c) /\ (Refused(a.command) => Refused(a.command)')
  BY <1>1, CommitPuts, ServedRefused
<1>3. CASE jobs'[Grant][a.request] = jobs[Grant][a.request]
  BY <1>2, <1>3 DEF Grounds
<1>4. CASE jobs'[Grant][a.request] # jobs[Grant][a.request]
  <2>1. g = Grant /\ r = a.request /\ jobs' # jobs
    BY <1>1, <1>2, <1>4 DEF Puts
  <2>2. /\ jobs'[Grant][a.request] # None /\ jobs'[Grant][a.request].command = c
        /\ \/ jobs[Grant][a.request] = None
           \/ /\ jobs[Grant][a.request] # None /\ jobs[Grant][a.request].status = "staged"
              /\ jobs[Grant][a.request].command = c
    BY <1>2, <2>1 DEF Puts
  <2>3. c # a.command
    BY <2>1, <2>2, ServedRefused DEF Grounds
  <2> QED
    BY <2>2, <2>3 DEF Grounds
<1> QED
  BY <1>3, <1>4

\* The runner's submission: served at once, or by a failure that leaves the service
\* as it was; a denial has its grounds.
LEMMA SubmitOutcomes ==
    ASSUME TypeOK, PlaceInv, SubmitRequest
    PROVE  /\ pc = "submit" /\ Req.request \in Requests /\ Req.command \in Commands
           /\ \/ Commit(Grant, Req.request, Req.command)
              \/ UNCHANGED <<jobs, approval>>
           /\ \/ response' \in {response, None}
              \/ /\ Respond("sentinel_denied", None)
                 /\ Clean' /\ ScopedJobs => \A a \in {response'} : Grounds(a)'
<1>1. pc = "submit"
  BY Zenon DEF SubmitRequest
<1>2. Req.request \in Requests /\ Req.command \in Commands
  <2>1. copy.inflight \in Inflight
    BY <1>1, HasCopy DEF PlaceInv, Working, Session
  <2> QED
    BY <2>1 DEF Req, Inflight
<1>3. PICK reply : /\ Submit(Grant, Req.request, Req.command, reply)
                   /\ \/ response' \in {response, None}
                      \/ reply \in {"deny", "403"} /\ Respond("sentinel_denied", None)
  <2>1. PICK reply : /\ Submit(Grant, Req.request, Req.command, reply)
                     /\ \/ reply = "accepted" /\ pc' = "accepted" /\ UNCHANGED <<copy, response, listing>>
                        \/ reply = "approval_required" /\ UNCHANGED runner
                        \/ reply \in {"deny", "403"} /\ Respond("sentinel_denied", None)
                        \/ reply = "401" /\ pc' = "refused" /\ UNCHANGED <<copy, response, listing>>
                        \/ reply = "lost" /\ Return
    BY Zenon DEF SubmitRequest
  <2> QED
    BY <2>1 DEF runner, Return
<1>4. \/ reply = Decision(Grant, Req.request, Req.command) /\ Commit(Grant, Req.request, Req.command)
      \/ /\ UNCHANGED <<jobs, approval>> /\ reply # "deny"
         /\ reply = "403" => "403" \in masked'
  BY <1>3 DEF Submit, Masked, Lost
<1>5. ASSUME reply \in {"deny", "403"}, Respond("sentinel_denied", None), Clean', ScopedJobs,
             NEW a \in {response'}
      PROVE  Grounds(a)'
  <2>1. PICK r \in Requests, c \in Commands : r = Req.request /\ c = Req.command
    BY <1>2
  <2>2. a.request = r /\ a.command = c
    BY <1>5, <2>1 DEF Respond, Envelope
  <2>3. ApiTypeOK /\ Grant \in Grants
    BY RelayAssumption DEF TypeOK
  <2>4. reply = Decision(Grant, r, c) /\ Commit(Grant, r, c)
    BY <1>4, <1>5, <2>1 DEF Clean
  <2>5. \/ jobs[Grant][r] = None /\ Refused(c)
        \/ /\ jobs[Grant][r] # None
           /\ jobs[Grant][r].command # c \/ jobs[Grant][r].status \in {"canceled", "expired"}
        \/ Rejects(Grant, r, c)
    <3>1. jobs[Grant][r] # None => jobs[Grant][r].command \in Permitted[Grant]
      BY <1>5 DEF ScopedJobs
    <3> QED
      BY <1>5, <2>4, <3>1 DEF Decision, Refused, Approved, Rejects
  <2>6. ~Publishes(Grant, r, c)
    BY <1>5, <2>4 DEF Publishes
  <2>7. CASE Rejects(Grant, r, c)
    <3>1. PICK job \in Job : job = [command |-> c, status |-> "canceled"]
      BY DEF Job, Terminal
    <3>2. JobPut(Grant, r, job) /\ jobs \in JobTable
      BY <2>3, <2>4, <2>6, <2>7, <3>1 DEF Commit, ApiTypeOK, JobTable, JobPut
    <3>3. jobs'[Grant][r] = job
      BY <2>3, <3>2, PutJob
    <3> QED
      BY <2>2, <3>1, <3>3, JobAssumption DEF Grounds
  <2>8. CASE ~Rejects(Grant, r, c)
    <3>1. jobs' = jobs
      BY <2>4, <2>6, <2>8 DEF Commit
    <3>2. Refused(c) => Refused(c)'
      BY <2>3, <2>4, ServedRefused
    <3> QED
      BY <2>2, <2>5, <2>8, <3>1, <3>2 DEF Grounds
  <2> QED
    BY <2>7, <2>8
<1> QED
  BY <1>1, <1>2, <1>3, <1>4, <1>5

\* What a step does to the jobs and the approvals: a submission is served, the
\* operator decides, or a job ends.
LEMMA ServiceSteps ==
    ASSUME TypeOK, PlaceInv, Next
    PROVE  \/ UNCHANGED <<jobs, approval>>
           \/ \E g \in Grants, r \in Requests, c \in Commands : Commit(g, r, c) \/ StageOnly(g, r, c)
           \/ \E g \in Grants, c \in Commands : Decide(g, c)
           \/ \E g \in Grants, r \in Requests : EndJob(g, r)
<1>1. ApiTypeOK /\ Grant \in Grants
  BY RelayAssumption DEF TypeOK
<1>2. CASE Fails
  BY <1>2 DEF Fails, service
<1>3. CASE AgentBootstrap \/ Recover \/ AwaitJob
  <2>1. UNCHANGED <<jobs, approval>>
    BY <1>3 DEF AgentBootstrap, Recover, AwaitJob, Bootstrap, Lookup
  <2> QED
    BY <2>1
<1>4. CASE SubmitRequest
  BY <1>1, <1>4, SubmitOutcomes
<1>5. CASE ApiNext
  <2>1. CASE Deliver
    <3>1. PICK m \in wire : Commit(m[1], m[2], m[3]) \/ StageOnly(m[1], m[2], m[3])
      BY <2>1 DEF Deliver
    <3>2. m[1] \in Grants /\ m[2] \in Requests /\ m[3] \in Commands
      BY <1>1 DEF ApiTypeOK
    <3> QED
      BY <3>1, <3>2
  <2> QED
    BY <1>5, <2>1 DEF ApiNext
<1>6. CASE EndGrant(Grant)
  BY <1>6 DEF EndGrant
<1> QED
  BY <1>2, <1>3, <1>4, <1>5, <1>6, QuietSteps

\* What a denial rests on stays.
LEMMA GroundsStay ==
    ASSUME TypeOK, PlaceInv, Next, NEW a \in Answer, Grounds(a)
    PROVE  Grounds(a)'
<1>1. ApiTypeOK /\ Grant \in Grants /\ a.request \in Requests /\ a.command \in Commands
  BY RelayAssumption DEF TypeOK, Answer
<1>2. CASE UNCHANGED <<jobs, approval>>
  BY <1>2 DEF Refused, Grounds
<1>3. CASE \E g \in Grants, r \in Requests, c \in Commands : Commit(g, r, c) \/ StageOnly(g, r, c)
  BY <1>1, <1>3, ServedGrounds
<1>4. ASSUME NEW g \in Grants, NEW c \in Commands, Decide(g, c) PROVE Grounds(a)'
  <2>1. jobs' = jobs
    BY <1>4 DEF Decide
  <2>2. Refused(a.command) => Refused(a.command)'
    BY <1>1, <1>4 DEF Decide, Refused, ApiTypeOK
  <2> QED
    BY <2>1, <2>2 DEF Grounds
<1>5. ASSUME NEW g \in Grants, NEW r \in Requests, EndJob(g, r) PROVE Grounds(a)'
  <2>1. approval' = approval /\ Ends(g, r)
    BY <1>1, <1>5, EndJobEnds DEF EndJob
  <2>2. CASE <<g, r>> = <<Grant, a.request>>
    BY <2>1, <2>2 DEF Ends, Grounds
  <2>3. CASE <<g, r>> # <<Grant, a.request>>
    <3>1. jobs'[Grant][a.request] = jobs[Grant][a.request]
      BY <1>1, <2>1, <2>3 DEF Ends
    <3> QED
      BY <2>1, <3>1 DEF Grounds, Refused
  <2> QED
    BY <2>2, <2>3
<1> QED
  BY <1>2, <1>3, <1>4, <1>5, ServiceSteps

\* Only what the grant permits gets a job.
LEMMA ScopeStays ==
    ASSUME TypeOK, PlaceInv, ScopedJobs, Next
    PROVE  ScopedJobs'
<1>1. ApiTypeOK /\ Grant \in Grants
  BY RelayAssumption DEF TypeOK
<1>2. CASE jobs' = jobs
  BY <1>2 DEF ScopedJobs
<1>3. ASSUME NEW g \in Grants, NEW r \in Requests, NEW c \in Commands, Commit(g, r, c) \/ StageOnly(g, r, c)
      PROVE  ScopedJobs'
  <2>1. Puts(g, r, c)
    BY <1>1, <1>3, CommitPuts
  <2> QED
    BY <1>1, <1>2, <2>1 DEF Puts, ScopedJobs
<1>4. ASSUME NEW g \in Grants, NEW r \in Requests, EndJob(g, r) PROVE ScopedJobs'
  <2>1. Ends(g, r)
    BY <1>1, <1>4, EndJobEnds
  <2> QED
    BY <1>1, <2>1 DEF Ends, ScopedJobs
<1> QED
  BY <1>2, <1>3, <1>4, ServiceSteps DEF Decide

\* Only the runner's submission makes a denial, and what is about to be posted was
\* made before it is posted.
LEMMA DenialsGrow ==
    ASSUME TypeOK, PlaceInv, Next, NEW a \in Denials', a \notin Denials
    PROVE  /\ SubmitRequest /\ Respond("sentinel_denied", None)
           /\ a = response' /\ response' \notin {response, None}
<1>1. answers' \subseteq answers \cup {response}
  BY AnswersGrow
<1>2. a = response' /\ a # None /\ a.status = "sentinel_denied" /\ a # response
  BY <1>1 DEF Denials
<1>3. ASSUME response' \in {response, None} PROVE FALSE
  BY <1>2, <1>3
<1>4. ASSUME Respond("expired", None) \/ \E known \in Terminal : response' = Envelope("completed", known)
      PROVE  FALSE
  BY <1>2, <1>4 DEF Respond, Envelope
<1>5. CASE ~(Poll \/ Crash)
  <2>1. response' = response
    BY <1>5, OtherSteps, OperatorWrites DEF Elsewhere
  <2> QED
    BY <1>3, <2>1
<1>6. ASSUME NEW i \in DOMAIN listing.comments,
             ScanClose(i) \/ ScanMalformed(i) \/ ScanDeny(i) \/ ScanAccept(i)
      PROVE  response' \in {response, None}
  BY <1>6, Zenon DEF ScanClose, ScanMalformed, ScanDeny, ScanAccept, SaveAndReturn, Return
<1>7. ASSUME Load \/ CloseSpent \/ Resume \/ ListComments \/ ScanEnd \/ CloseRefused \/ FinishWithResponse
             \/ Crash \/ AgentBootstrap
      PROVE  response' \in {response, None}
  <2>1. CASE AgentBootstrap
    BY <2>1 DEF AgentBootstrap, Return
  <2>2. CASE Load \/ CloseSpent \/ Resume \/ ListComments \/ ScanEnd \/ CloseRefused \/ FinishWithResponse \/ Crash
    BY <2>2, Zenon DEF Load, CloseSpent, Resume, ListComments, ScanEnd, CloseRefused, FinishWithResponse, Crash,
                       SaveAndReturn, Return, GoOn, runner
  <2> QED
    BY <1>7, <2>1, <2>2
<1>8. ASSUME Recover \/ AwaitJob \/ SaveJob \/ ExpireInflight
      PROVE  \/ response' \in {response, None} \/ Respond("expired", None)
             \/ \E known \in Terminal : response' = Envelope("completed", known)
  <2>1. CASE Recover \/ AwaitJob
    <3>1. Return \/ response' = response \/ \E known : FollowJob(known)
      BY <2>1, Zenon DEF Recover, AwaitJob
    <3> QED
      BY <3>1 DEF Return, FollowJob, Respond
  <2>2. CASE SaveJob
    BY <2>2 DEF SaveJob, Return
  <2>3. CASE ExpireInflight
    BY <2>3 DEF ExpireInflight
  <2> QED
    BY <1>8, <2>1, <2>2, <2>3
<1>9. SubmitRequest
  BY <1>3, <1>4, <1>5, <1>6, <1>7, <1>8 DEF Poll
<1> QED
  BY <1>2, <1>3, <1>9, SubmitOutcomes

\* Every step keeps the ground of every denial.
LEMMA NextDeny ==
    ASSUME TypeOK, PlaceInv, DenyInv, Next
    PROVE  DenyInv'
<1>1. ScopedJobs'
  BY ScopeStays DEF DenyInv
<1>2. ASSUME Clean', NEW a \in Denials' PROVE Grounds(a)'
  <2>1. Clean
    BY <1>2, NextServes DEF Clean
  <2>2. CASE a \in Denials
    <3>1. a \in Answer /\ Grounds(a)
      BY <2>1, <2>2 DEF Denials, TypeOK, DenyInv
    <3> QED
      BY <3>1, GroundsStay
  <2>3. CASE a \notin Denials
    <3>1. /\ SubmitRequest /\ Respond("sentinel_denied", None)
          /\ a = response' /\ response' \notin {response, None}
      BY <1>2, <2>3, DenialsGrow
    <3>2. ScopedJobs
      BY DEF DenyInv
    <3> QED
      BY <1>2, <3>1, <3>2, SubmitOutcomes
  <2> QED
    BY <2>2, <2>3
<1> QED
  BY <1>1, <1>2 DEF DenyInv

\* A denial holds, for any number of requests, failures, crashes and late copies:
\* while no failure of the Gateway was answered like a refusal or a missing job, a
\* request that is denied has no job that runs.
THEOREM DenialsHold == Spec => []DenialHolds
<1>1. Init => DenyInv
  BY RelayAssumption DEF Init, ApiInit, DenyInv, ScopedJobs, Denials
<1>2. RelayInv /\ DenyInv /\ [Next]_vars => DenyInv'
  <2>1. CASE Next
    BY <2>1, NextDeny DEF RelayInv
  <2>2. CASE UNCHANGED vars
    BY <2>2 DEF vars, apiVars, DenyInv, ScopedJobs, Clean, Denials, Grounds, Refused
  <2> QED
    BY <2>1, <2>2
<1>3. DenyInv => DenialHolds
  BY DEF DenyInv, Clean, DenialHolds, Grounds, Runs
<1> QED
  BY <1>1, <1>2, <1>3, RelayAlways, PTL DEF Spec

=============================================================================

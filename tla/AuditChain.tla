----------------------------- MODULE AuditChain -----------------------------
(***************************************************************************)
(* The audit chain: numbered events, each with the hash of the one before.  *)
(*                                                                         *)
(* In file mode one process appends lines to a file and keeps the head of   *)
(* the chain in memory; a line may be left behind by an append that failed, *)
(* or torn.  In PostgreSQL events and head are rows that change in one      *)
(* transaction, which locks the head; a reader takes them in two            *)
(* statements.  The id of an event is its number among all that were ever   *)
(* built; its hash stands for the event and for the zone its time is        *)
(* written in, for the time is hashed as text.                              *)
(***************************************************************************)
EXTENDS Integers, Sequences, SequencesExt, FiniteSets

CONSTANTS
    Writers,     \* concurrent transactions that append
    None,        \* the absent value
    Window,      \* the most events a read returns (5000)
    Zone,        \* "utc" or "local": the zone of the times PostgreSQL's driver returns
    MaxEvents,   \* bound: lines or rows of the chain
    MaxFailures  \* bound: failed appends and crashes

ASSUME ChainAssumption ==
    /\ Window \in Nat \ {0} /\ MaxEvents \in Nat /\ MaxFailures \in Nat
    /\ Zone \in {"utc", "local"} /\ None \notin Writers

VARIABLES
    backend,   \* "file" or "postgres"
    events,    \* the lines of the file, or the rows
    head,      \* the last sequence and hash: in memory, or the row audit_head
    ragged,    \* the last line of the file lacks its end of line
    up,        \* the process that keeps the file's head runs
    pending,   \* pending[w]: the event that transaction w is about to insert
    built,     \* events built so far
    reading,   \* a reader between its two statements: the events it has verified
    verdict,   \* what the last read returned
    failures,  \* failed appends and crashes so far
    acked,     \* history: the events whose append was acknowledged
    littered   \* history: a write stopped inside a line, or a whole line was left
               \* behind by an append that failed

chainVars == <<backend, events, head, ragged, up, pending, built, reading, verdict, failures, acked, littered>>

Event == [seq : Nat, id : Nat, prev : Nat, hash : Nat]

\* A line that cannot be decoded.
Torn == [seq |-> 0, id |-> 0, prev |-> 0, hash |-> 0]

Empty == [seq |-> 0, hash |-> 0]

\* A read: the events it has taken, and whether an append was committed since.
Reading == [chain : Seq(Event), moved : BOOLEAN]

\* The absent value is not a read.
ASSUME ReadingAssumption == None \notin Reading

ChainTypeOK ==
    /\ backend \in {"file", "postgres"}
    /\ events \in Seq(Event) /\ Len(events) <= MaxEvents
    /\ head \in [seq : Nat, hash : Nat] /\ head.seq <= built
    /\ ragged \in BOOLEAN /\ up \in BOOLEAN /\ littered \in BOOLEAN
    /\ pending \in [Writers -> Event \cup {None}]
    /\ built \in Nat /\ failures \in 0..MaxFailures
    /\ reading \in Reading \cup {None}
    /\ verdict \in {"none", "verified", "corrupt"}
    /\ acked \subseteq Event

ChainInit ==
    /\ backend \in {"file", "postgres"}
    /\ events = <<>> /\ head = Empty /\ ragged = FALSE /\ up = TRUE
    /\ pending = [w \in Writers |-> None] /\ built = 0
    /\ reading = None /\ verdict = "none"
    /\ failures = 0 /\ acked = {} /\ littered = FALSE

Failure == failures < MaxFailures /\ failures' = failures + 1

\* eventHash of the event with this id and a time written in this zone: one hash
\* for each of them.
eventHash(id, zone) == 2 * id + (IF zone = "utc" THEN 0 ELSE 1)

\* BuildEvent: the next event of the chain, its time in UTC.
BuildEvent == [seq |-> head.seq + 1, id |-> built + 1, prev |-> head.hash,
               hash |-> eventHash(built + 1, "utc")]

HeadOf(e) == [seq |-> e.seq, hash |-> e.hash]

\* The walk over a chain whose times were read in this zone: sequence numbers
\* without gaps, each event with the hash of the one before, and each hash that of
\* the event as it was read.
Verifies(chain, zone) == \A i \in DOMAIN chain :
    /\ chain[i].seq = i
    /\ chain[i].prev = IF i = 1 THEN 0 ELSE chain[i - 1].hash
    /\ chain[i].hash = eventHash(chain[i].id, zone)

EndOf(chain) == IF chain = <<>> THEN Empty ELSE HeadOf(Last(chain))

\* What a read returns: the newest events, newest first.
Newest(chain) == SubSeq(Reverse(chain), 1, IF Len(chain) < Window THEN Len(chain) ELSE Window)

-----------------------------------------------------------------------------
(* The file *)

unread == <<reading, verdict>>

Room == Len(events) < MaxEvents

\* A line is appended, or glued to the unfinished line before it.
Written(e) == IF ragged THEN [events EXCEPT ![Len(events)] = Torn] ELSE Append(events, e)

\* What a write that stops half-way may leave: nothing, a part of the line, the
\* line without its end.
Interrupted ==
    \/ UNCHANGED <<events, ragged, littered>>
    \/ /\ events' \in {Written(BuildEvent), Written(Torn)}
       /\ ragged' = TRUE /\ littered' = TRUE

\* Log.Append: the line is written and synced, then memory follows.
FileAppend ==
    /\ backend = "file" /\ up /\ Room
    /\ events' = Written(BuildEvent) /\ ragged' = FALSE
    /\ head' = HeadOf(BuildEvent)
    /\ built' = built + 1
    /\ acked' = acked \cup {BuildEvent}
    /\ UNCHANGED <<backend, up, pending, unread, failures, littered>>

\* A write or a sync fails: memory stays, whatever the file holds.
FileAppendFails ==
    /\ backend = "file" /\ up /\ Room
    /\ Failure
    /\ \/ Interrupted
       \/ /\ events' = Written(BuildEvent) /\ ragged' = FALSE
          /\ littered' = TRUE
    /\ built' = built + 1
    /\ UNCHANGED <<backend, head, up, pending, unread, acked>>

\* The process dies, perhaps inside an append.
FileCrash ==
    /\ backend = "file" /\ up /\ Room
    /\ Failure
    /\ up' = FALSE
    /\ \/ Interrupted
       \/ /\ events' = Written(BuildEvent) /\ ragged' = FALSE
          /\ UNCHANGED littered
    /\ built' = built + 1
    /\ UNCHANGED <<backend, head, pending, unread, acked>>

\* Open walks the whole file and refuses to start on a broken chain; the text of a
\* line keeps its zone.
FileOpen ==
    /\ backend = "file" /\ ~up
    /\ Verifies(events, "utc")
    /\ head' = EndOf(events)
    /\ up' = TRUE
    /\ UNCHANGED <<backend, events, ragged, pending, built, unread, failures, acked, littered>>

\* Log.ReadVerified: the walk, and a comparison with memory, under the mutex.
FileReadVerified ==
    /\ backend = "file" /\ up
    /\ verdict = "none" /\ reading = None
    /\ verdict' = IF Verifies(events, "utc") /\ EndOf(events) = head THEN "verified" ELSE "corrupt"
    /\ reading' = [chain |-> events, moved |-> FALSE]
    /\ UNCHANGED <<backend, events, ragged, head, up, pending, built, failures, acked, littered>>

-----------------------------------------------------------------------------
(* PostgreSQL *)

FaultUnlocked(w) == TRUE

\* SELECT ... FOR UPDATE of the head: no other transaction holds it.
Locks(w) == \A v \in Writers : pending[v] = None

\* appendAuditTx reads the head and builds the event; other rows of the same
\* transaction are the subject of ControlPlane.
BeginAppend(w) ==
    /\ backend = "postgres"
    /\ pending[w] = None /\ Locks(w)
    /\ Room
    /\ pending' = [pending EXCEPT ![w] = BuildEvent]
    /\ built' = built + 1
    /\ UNCHANGED <<backend, ragged, events, head, up, unread, failures, acked, littered>>

\* The event and the head become visible together.
CommitAppend(w) ==
    /\ pending[w] # None
    /\ events' = Append(events, pending[w])
    /\ head' = HeadOf(pending[w])
    /\ pending' = [pending EXCEPT ![w] = None]
    /\ acked' = acked \cup {pending[w]}
    /\ reading' = IF reading # None THEN [reading EXCEPT !.moved = TRUE] ELSE None
    /\ UNCHANGED <<backend, ragged, up, built, verdict, failures, littered>>

RollbackAppend(w) ==
    /\ pending[w] # None
    /\ Failure
    /\ pending' = [pending EXCEPT ![w] = None]
    /\ UNCHANGED <<backend, ragged, events, head, up, built, unread, acked, littered>>

\* AuditStore.ReadVerified, first statement: all events, verified one by one with
\* their times as the driver returns them.
ReadEvents ==
    /\ backend = "postgres"
    /\ verdict = "none" /\ reading = None
    /\ reading' = [chain |-> events, moved |-> FALSE]
    /\ verdict' = IF Verifies(events, Zone) THEN "none" ELSE "corrupt"
    /\ UNCHANGED <<backend, ragged, events, head, up, pending, built, failures, acked, littered>>

FaultSkipsHead ==
    /\ backend = "postgres"
    /\ verdict = "none" /\ reading # None
    /\ verdict' = "verified"
    /\ UNCHANGED <<backend, ragged, events, head, up, pending, built, reading, failures, acked, littered>>

\* Second statement: the head, which must be the end of what was read.
ReadHead ==
    /\ backend = "postgres"
    /\ verdict = "none" /\ reading # None
    /\ verdict' = IF head = EndOf(reading.chain) THEN "verified" ELSE "corrupt"
    /\ UNCHANGED <<backend, ragged, events, head, up, pending, built, reading, failures, acked, littered>>

ChainNext ==
    \/ FileAppend \/ FileAppendFails \/ FileCrash \/ FileOpen
    \/ \E w \in Writers : BeginAppend(w) \/ CommitAppend(w) \/ RollbackAppend(w)

ReadNext == FileReadVerified \/ ReadEvents \/ ReadHead

-----------------------------------------------------------------------------
(* Properties *)

\* Every acknowledged event stays stored, and the chain verifies up to its head,
\* unless a write stopped inside a line or failed after it: concurrent
\* transactions, rollbacks and crashes around a whole line do not break it.
ChainIntact ==
    ~littered => /\ \A e \in acked : Contains(events, e)
                 /\ Verifies(events, "utc")
                 /\ up => EndOf(events) = head

\* What a read says of the chain is right.  "Verified": what it holds has every
\* event that was acknowledged before it ended, also when a failed append left a
\* line or a part of one, and when appends were committed between the two
\* statements.  "Corrupt": the file was littered, an append was committed between
\* the statements, or the driver of PostgreSQL returns times in another zone than UTC.
VerdictIsRight ==
    [][verdict' # verdict =>
        /\ verdict' = "verified" => \A e \in acked : Contains(reading'.chain, e)
        /\ verdict' = "corrupt" => littered \/ reading'.moved \/ (backend = "postgres" /\ Zone # "utc")]_chainVars

=============================================================================

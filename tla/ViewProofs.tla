----------------------------- MODULE ViewProofs ------------------------------
(***************************************************************************)
(* Proofs about the audit chain and about what an operator reads, for every *)
(* value of the constants.  An acknowledged event stays, the chain verifies, *)
(* and what a reader is told of it is right; pages neither repeat nor skip   *)
(* what stays in their list, and rows and counts are shown in states they    *)
(* really had.                                                               *)
(***************************************************************************)
EXTENDS OperatorView, FiniteSetTheorems, WellFoundedInduction, TLAPS

ChainEnd == [seq : Nat, hash : Nat]

\* The part of ChainTypeOK that the chain depends on.
ChainTyped ==
    /\ events \in Seq(Event) /\ head \in ChainEnd /\ built \in Nat
    /\ pending \in [Writers -> Event \cup {None}]
    /\ reading \in Reading \cup {None}

\* A transaction that has built its event holds the lock of the head, so the event
\* still follows the head when it is inserted.
PendingInv ==
    \A w \in Writers : pending[w] # None =>
        /\ backend = "postgres" /\ pending[w] \in Event
        /\ pending[w].seq = head.seq + 1 /\ pending[w].prev = head.hash
        /\ pending[w].hash = eventHash(pending[w].id, "utc")
        /\ \A v \in Writers : pending[v] # None => v = w

\* PostgreSQL keeps no lines to tear, and its head does not go down with a process.
BackendInv == backend = "postgres" => ~littered /\ up /\ ~ragged

\* The chain without litter: no line lacks its end, so what is written next is a
\* line of its own, linked to the last one.
LinkInv ==
    ~littered => /\ ~ragged
                 /\ Verifies(events, "utc")
                 /\ up => EndOf(events) = head
                 /\ \A e \in acked : \E i \in DOMAIN events : events[i] = e

\* Also in a littered file no acknowledged event is lost unseen: the line it was
\* glued to can no longer be decoded, and no later write repairs it.
StoredInv ==
    /\ ragged => events # <<>>
    /\ \/ \A e \in acked : \E i \in DOMAIN events : events[i] = e
       \/ \E i \in DOMAIN events : events[i].seq = 0

\* A reader between its statements holds the whole chain, unless it has moved; then
\* the head is past the end of what was read.
ReaderInv ==
    reading # None /\ backend = "postgres" =>
        /\ ~reading.moved => reading.chain = events
        /\ reading.moved => EndOf(reading.chain).seq < head.seq

ChainInv == ChainTyped /\ PendingInv /\ BackendInv /\ LinkInv /\ StoredInv /\ ReaderInv

-----------------------------------------------------------------------------
(* The operators on chains *)

\* Sequence numbers without gaps.
Numbered(chain) == \A i \in DOMAIN chain : chain[i].seq = i

\* A chain that verifies, in whatever zone, is numbered.
LEMMA VerifiesNumbered ==
    ASSUME NEW chain, NEW zone, Verifies(chain, zone)
    PROVE  Numbered(chain)
  BY DEF Verifies, Numbered

\* The end of a chain has a sequence and a hash; in a chain that is numbered the
\* sequence is the number of events.
LEMMA EndTyped ==
    ASSUME NEW chain \in Seq(Event)
    PROVE  EndOf(chain) \in ChainEnd /\ (Numbered(chain) => EndOf(chain).seq = Len(chain))
<1>1. CASE chain = <<>>
  BY <1>1 DEF EndOf, Empty, ChainEnd
<1>2. CASE chain # <<>>
  <2>1. Len(chain) \in DOMAIN chain /\ Last(chain) = chain[Len(chain)] /\ chain[Len(chain)] \in Event
    BY <1>2 DEF Last
  <2> QED
    BY <1>2, <2>1 DEF EndOf, HeadOf, ChainEnd, Event, Numbered
<1> QED
  BY <1>1, <1>2

\* An event built on the end of a chain that verifies leaves a chain that verifies,
\* which ends with it and keeps every earlier event.
LEMMA Linked ==
    ASSUME NEW chain \in Seq(Event), Verifies(chain, "utc"), NEW e \in Event,
           e.seq = EndOf(chain).seq + 1, e.prev = EndOf(chain).hash, e.hash = eventHash(e.id, "utc")
    PROVE  /\ Append(chain, e) \in Seq(Event) /\ Verifies(Append(chain, e), "utc")
           /\ EndOf(Append(chain, e)) = HeadOf(e)
           /\ \E i \in DOMAIN Append(chain, e) : Append(chain, e)[i] = e
           /\ \A x : (\E i \in DOMAIN chain : chain[i] = x)
                        => \E i \in DOMAIN Append(chain, e) : Append(chain, e)[i] = x
<1> DEFINE longer == Append(chain, e)
<1>1. /\ longer \in Seq(Event) /\ Len(longer) = Len(chain) + 1 /\ longer # <<>>
      /\ DOMAIN longer = 1..(Len(chain) + 1) /\ DOMAIN chain = 1..Len(chain) /\ Len(chain) \in Nat
      /\ \A i \in 1..Len(chain) : longer[i] = chain[i]
      /\ longer[Len(chain) + 1] = e
  OBVIOUS
<1>2. e.seq = Len(chain) + 1
  BY EndTyped, VerifiesNumbered
<1>3. e.prev = IF Len(chain) + 1 = 1 THEN 0 ELSE longer[Len(chain)].hash
  <2>1. CASE chain = <<>>
    BY <2>1 DEF EndOf, Empty
  <2>2. CASE chain # <<>>
    <3>1. Len(chain) \in 1..Len(chain)
      BY <2>2
    <3>2. longer[Len(chain)] = chain[Len(chain)]
      BY <1>1, <3>1
    <3>3. EndOf(chain).hash = chain[Len(chain)].hash
      BY <2>2 DEF EndOf, HeadOf, Last
    <3> QED
      BY <3>1, <3>2, <3>3
  <2> QED
    BY <2>1, <2>2
<1> HIDE DEF longer
<1>4. Verifies(longer, "utc")
  <2> SUFFICES ASSUME NEW i \in 1..(Len(chain) + 1)
               PROVE  /\ longer[i].seq = i /\ longer[i].prev = IF i = 1 THEN 0 ELSE longer[i - 1].hash
                      /\ longer[i].hash = eventHash(longer[i].id, "utc")
    BY <1>1 DEF Verifies
  <2>1. CASE i \in 1..Len(chain)
    <3>1. longer[i] = chain[i] /\ (i # 1 => longer[i - 1] = chain[i - 1])
      BY <1>1, <2>1
    <3> QED
      BY <1>1, <2>1, <3>1 DEF Verifies
  <2>2. CASE i = Len(chain) + 1
    <3>1. longer[i] = e /\ i - 1 = Len(chain) /\ (i = 1 <=> Len(chain) + 1 = 1)
      BY <1>1, <2>2
    <3> QED
      BY <1>2, <1>3, <2>2, <3>1
  <2> QED
    BY <1>1, <2>1, <2>2
<1>5. EndOf(longer) = HeadOf(e)
  BY <1>1 DEF EndOf, Last
<1> QED
  BY <1>1, <1>4, <1>5 DEF longer

\* The event that is built next is an event, and follows the head.
LEMMA Built ==
    ASSUME ChainTyped
    PROVE  /\ BuildEvent \in Event /\ Torn \in Event
           /\ BuildEvent.seq = head.seq + 1 /\ BuildEvent.prev = head.hash
           /\ BuildEvent.hash = eventHash(BuildEvent.id, "utc")
           /\ Torn.seq = 0
<1>1. built + 1 \in Nat /\ eventHash(built + 1, "utc") \in Nat /\ head.seq + 1 \in Nat /\ head.hash \in Nat
  BY DEF ChainTyped, ChainEnd, eventHash
<1> QED
  BY <1>1 DEF BuildEvent, Event, Torn

\* A line that is written, whole or not, leaves a file of events.
LEMMA WrittenTyped ==
    ASSUME ChainTyped, NEW e \in Event
    PROVE  Written(e) \in Seq(Event)
<1>1. Append(events, e) \in Seq(Event)
  BY DEF ChainTyped
<1>2. [events EXCEPT ![Len(events)] = Torn] \in Seq(Event)
  <2>1. events \in [1..Len(events) -> Event]
    BY DEF ChainTyped
  <2>2. [events EXCEPT ![Len(events)] = Torn] \in [1..Len(events) -> Event]
    BY <2>1, Built
  <2> QED
    BY <2>2 DEF ChainTyped
<1> QED
  BY <1>1, <1>2 DEF Written

\* A line that is written keeps every acknowledged event and itself, or leaves a
\* line that cannot be decoded.
LEMMA WrittenStored ==
    ASSUME ChainTyped, StoredInv, NEW e \in Event
    PROVE  /\ Written(e) # <<>>
           /\ \/ \A x \in acked \cup {e} : \E i \in DOMAIN Written(e) : Written(e)[i] = x
              \/ \E i \in DOMAIN Written(e) : Written(e)[i].seq = 0
<1>1. events \in [1..Len(events) -> Event] /\ Len(events) \in Nat /\ events \in Seq(Event)
  BY DEF ChainTyped
<1>2. CASE ragged
  <2> DEFINE glued == [events EXCEPT ![Len(events)] = Torn]
  <2>1. Len(events) \in 1..Len(events)
    BY <1>1, <1>2 DEF StoredInv
  <2>2. glued \in [1..Len(events) -> Event] /\ glued[Len(events)] = Torn
    BY <1>1, <2>1, Built
  <2>3. DOMAIN glued = 1..Len(events) /\ glued # <<>>
    BY <2>1, <2>2
  <2>4. Written(e) = glued
    BY <1>2 DEF Written
  <2> HIDE DEF glued
  <2> QED
    BY <2>1, <2>2, <2>3, <2>4, Built
<1>3. CASE ~ragged
  <2> DEFINE longer == Append(events, e)
  <2>1. /\ DOMAIN longer = 1..(Len(events) + 1) /\ longer # <<>> /\ DOMAIN events = 1..Len(events)
        /\ \A i \in 1..Len(events) : longer[i] = events[i] /\ i \in 1..(Len(events) + 1)
        /\ longer[Len(events) + 1] = e /\ Len(events) + 1 \in 1..(Len(events) + 1)
    <3>1. longer \in Seq(Event) /\ Len(longer) = Len(events) + 1
      BY <1>1
    <3>2. DOMAIN longer = 1..(Len(events) + 1) /\ longer # <<>> /\ DOMAIN events = 1..Len(events)
      BY <1>1, <3>1
    <3>3. \A i \in 1..Len(events) : longer[i] = events[i] /\ i \in 1..(Len(events) + 1)
      BY <1>1
    <3>4. longer[Len(events) + 1] = e /\ Len(events) + 1 \in 1..(Len(events) + 1)
      BY <1>1
    <3> QED
      BY <3>2, <3>3, <3>4
  <2>2. Written(e) = longer
    BY <1>3 DEF Written
  <2> HIDE DEF longer
  <2> QED
    BY <2>1, <2>2 DEF StoredInv
<1> QED
  BY <1>2, <1>3

-----------------------------------------------------------------------------
(* The steps *)

\* The end of a request: the page has been cut from what was read.
Clears ==
    /\ reading' = None /\ verdict' = "none"
    /\ UNCHANGED <<backend, events, head, ragged, up, pending, built, failures, acked, littered>>

\* A step of the operator's view leaves the chain alone, runs one of its actions, or
\* ends a request.
LEMMA ChainSteps ==
    ASSUME [Next]_vars
    PROVE  chainVars' = chainVars \/ ChainNext \/ ReadNext \/ Clears
  BY Zenon DEF Next, vars, Tick, RevokeAll, Enable, Insert, Move, Ask, AuthoritySnapshot, Page, Overview,
       RecentFailures, Chain, AuditRead, AuditPage, Clears

\* The chain starts empty.
LEMMA ChainStarts == Init => ChainInv
<1> SUFFICES ASSUME Init PROVE ChainInv
  OBVIOUS
<1>1. ChainTyped
  BY DEF Init, ChainInit, ChainTyped, Empty, ChainEnd
<1>2. PendingInv /\ BackendInv /\ StoredInv /\ ReaderInv
  BY DEF Init, ChainInit, PendingInv, BackendInv, StoredInv, ReaderInv
<1>3. LinkInv
  BY DEF Init, ChainInit, LinkInv, Verifies, EndOf
<1> QED
  BY <1>1, <1>2, <1>3 DEF ChainInv

\* What a write that stops inside a line leaves: litter, or nothing.
LEMMA Interruptions ==
    ASSUME ChainTyped, Interrupted
    PROVE  /\ events' \in Seq(Event)
           /\ littered' \/ (littered' = littered /\ events' = events /\ ragged' = ragged)
<1>1. CASE UNCHANGED <<events, ragged, littered>>
  BY <1>1 DEF ChainTyped
<1>2. CASE events' \in {Written(BuildEvent), Written(Torn)} /\ littered' = TRUE
  BY <1>2, Built, WrittenTyped
<1> QED
  BY <1>1, <1>2 DEF Interrupted

\* A line that is written whole to a file without litter extends the chain.
LEMMA WholeLine ==
    ASSUME ChainTyped, LinkInv, ~littered, up, events' = Written(BuildEvent)
    PROVE  /\ events' \in Seq(Event) /\ Verifies(events', "utc") /\ EndOf(events') = HeadOf(BuildEvent)
           /\ \A e \in acked \cup {BuildEvent} : \E i \in DOMAIN events' : events'[i] = e
<1>1. ~ragged /\ Verifies(events, "utc") /\ EndOf(events) = head /\ events \in Seq(Event)
  BY DEF LinkInv, ChainTyped
<1>2. events' = Append(events, BuildEvent)
  BY <1>1 DEF Written
<1>3. /\ Append(events, BuildEvent) \in Seq(Event) /\ Verifies(Append(events, BuildEvent), "utc")
      /\ EndOf(Append(events, BuildEvent)) = HeadOf(BuildEvent)
      /\ \E i \in DOMAIN Append(events, BuildEvent) : Append(events, BuildEvent)[i] = BuildEvent
      /\ \A x : (\E i \in DOMAIN events : events[i] = x)
                   => \E i \in DOMAIN Append(events, BuildEvent) : Append(events, BuildEvent)[i] = x
  BY <1>1, Built, Linked
<1>4. \A e \in acked : \E i \in DOMAIN events : events[i] = e
  BY DEF LinkInv
<1> QED
  BY <1>2, <1>3, <1>4

\* The file: appends, whole or not, crashes and the start on what they left.
LEMMA FileSteps ==
    ASSUME ChainInv, FileAppend \/ FileAppendFails \/ FileCrash \/ FileOpen
    PROVE  ChainInv'
<1>0. ChainTyped /\ PendingInv /\ LinkInv /\ StoredInv /\ ReaderInv /\ backend = "file"
  BY DEF ChainInv, FileAppend, FileAppendFails, FileCrash, FileOpen
<1>1. /\ backend' = "file" /\ pending' = pending /\ reading' = reading /\ verdict' = verdict
      /\ littered => littered'
      /\ built' \in Nat
  BY <1>0 DEF FileAppend, FileAppendFails, FileCrash, FileOpen, unread, Interrupted, ChainTyped
<1>2. BackendInv' /\ ReaderInv'
  BY <1>1 DEF BackendInv, ReaderInv
<1>3. PendingInv'
  BY <1>0, <1>1 DEF PendingInv
<1>4. StoredInv'
  <2>1. CASE FileAppend
    BY <1>0, <2>1, Built, WrittenStored DEF FileAppend, StoredInv
  <2>2. CASE FileAppendFails \/ FileCrash
    <3>1. acked' = acked
      BY <2>2 DEF FileAppendFails, FileCrash
    <3>2. CASE events' = events /\ ragged' = ragged
      BY <1>0, <3>1, <3>2 DEF StoredInv
    <3>3. CASE events' = Written(BuildEvent)
      BY <1>0, <3>1, <3>3, Built, WrittenStored DEF StoredInv
    <3>4. CASE events' = Written(Torn)
      BY <1>0, <3>1, <3>4, Built, WrittenStored DEF StoredInv
    <3> QED
      BY <2>2, <3>2, <3>3, <3>4 DEF FileAppendFails, FileCrash, Interrupted
  <2>3. CASE FileOpen
    BY <1>0, <2>3 DEF FileOpen, StoredInv
  <2> QED
    BY <2>1, <2>2, <2>3
<1>5. events' \in Seq(Event) /\ head' \in ChainEnd
  <2>1. CASE FileAppend
    BY <1>0, <2>1, Built, WrittenTyped DEF FileAppend, HeadOf, ChainEnd, Event
  <2>2. CASE FileAppendFails
    BY <1>0, <2>2, Built, WrittenTyped, Interruptions DEF FileAppendFails, ChainTyped
  <2>3. CASE FileCrash
    BY <1>0, <2>3, Built, WrittenTyped, Interruptions DEF FileCrash, ChainTyped
  <2>4. CASE FileOpen
    BY <1>0, <2>4, EndTyped DEF FileOpen, ChainTyped
  <2> QED
    BY <2>1, <2>2, <2>3, <2>4
<1>6. ChainTyped'
  BY <1>0, <1>1, <1>5 DEF ChainTyped
<1>7. ASSUME ~littered'
      PROVE  /\ ~ragged' /\ Verifies(events', "utc") /\ (up' => EndOf(events') = head')
             /\ \A e \in acked' : \E i \in DOMAIN events' : events'[i] = e
  <2>0. ~littered
    BY <1>1, <1>7
  <2>1. CASE FileAppend
    BY <1>0, <2>0, <2>1, WholeLine DEF FileAppend
  <2>2. CASE FileAppendFails
    <3>1. events' = events /\ ragged' = ragged
      BY <1>0, <1>7, <2>2, Interruptions DEF FileAppendFails
    <3> QED
      BY <1>0, <2>0, <2>2, <3>1 DEF FileAppendFails, LinkInv
  <2>3. CASE FileCrash
    <3>0. ~up' /\ acked' = acked /\ up
      BY <2>3 DEF FileCrash
    <3>1. CASE events' = events /\ ragged' = ragged
      BY <1>0, <2>0, <3>0, <3>1 DEF LinkInv
    <3>2. CASE events' = Written(BuildEvent) /\ ragged' = FALSE
      BY <1>0, <2>0, <3>0, <3>2, WholeLine
    <3> QED
      BY <1>0, <1>7, <2>3, <3>1, <3>2, Interruptions DEF FileCrash
  <2>4. CASE FileOpen
    BY <1>0, <2>0, <2>4 DEF FileOpen, LinkInv
  <2> QED
    BY <2>1, <2>2, <2>3, <2>4
<1>8. LinkInv'
  BY <1>7 DEF LinkInv
<1> QED
  BY <1>2, <1>3, <1>4, <1>6, <1>8 DEF ChainInv

\* PostgreSQL: a transaction builds its event under the lock of the head, and the
\* event and the head change together.
LEMMA TransactionSteps ==
    ASSUME ChainInv, NEW w \in Writers, BeginAppend(w) \/ CommitAppend(w) \/ RollbackAppend(w)
    PROVE  ChainInv'
<1>0. ChainTyped /\ PendingInv /\ BackendInv /\ LinkInv /\ StoredInv /\ ReaderInv
  BY DEF ChainInv
<1>1. CASE BeginAppend(w)
  <2>1. /\ UNCHANGED <<backend, ragged, events, head, up, reading, verdict, acked, littered>>
        /\ pending' = [pending EXCEPT ![w] = BuildEvent] /\ built' = built + 1
        /\ backend = "postgres" /\ \A v \in Writers : pending[v] = None
    BY <1>1 DEF BeginAppend, Locks, unread
  <2>2. ChainTyped'
    BY <1>0, <2>1, Built DEF ChainTyped
  <2>3. PendingInv'
    <3>1. pending'[w] = BuildEvent /\ \A v \in Writers : v # w => pending'[v] = None
      BY <1>0, <2>1 DEF ChainTyped
    <3> QED
      BY <1>0, <2>1, <3>1, Built DEF PendingInv
  <2>4. BackendInv' /\ LinkInv' /\ StoredInv' /\ ReaderInv'
    BY <1>0, <2>1 DEF BackendInv, LinkInv, StoredInv, ReaderInv
  <2> QED
    BY <2>2, <2>3, <2>4 DEF ChainInv
<1>2. CASE CommitAppend(w)
  <2>1. /\ UNCHANGED <<backend, ragged, up, built, verdict, littered>>
        /\ events' = Append(events, pending[w]) /\ head' = HeadOf(pending[w])
        /\ pending' = [pending EXCEPT ![w] = None] /\ acked' = acked \cup {pending[w]}
        /\ reading' = IF reading # None THEN [reading EXCEPT !.moved = TRUE] ELSE None
        /\ pending[w] # None
    BY <1>2 DEF CommitAppend
  <2>2. /\ backend = "postgres" /\ pending[w] \in Event
        /\ pending[w].seq = head.seq + 1 /\ pending[w].prev = head.hash
        /\ pending[w].hash = eventHash(pending[w].id, "utc")
        /\ \A v \in Writers : pending[v] # None => v = w
    BY <1>0, <2>1 DEF PendingInv
  <2>3. ~littered /\ up /\ ~ragged /\ Verifies(events, "utc") /\ EndOf(events) = head /\ events \in Seq(Event)
    BY <1>0, <2>2 DEF BackendInv, LinkInv, ChainTyped
  <2>4. /\ events' \in Seq(Event) /\ Verifies(events', "utc") /\ EndOf(events') = head'
        /\ \E i \in DOMAIN events' : events'[i] = pending[w]
        /\ \A x : (\E i \in DOMAIN events : events[i] = x) => \E i \in DOMAIN events' : events'[i] = x
    BY <2>1, <2>2, <2>3, Linked
  <2>5. /\ reading' \in Reading \cup {None} /\ (reading' # None => reading'.moved)
        /\ reading' # None => reading # None /\ reading'.chain = reading.chain
    <3>1. CASE reading = None
      BY <2>1, <3>1
    <3>2. CASE reading \in Reading /\ reading # None
      BY <2>1, <3>2 DEF Reading
    <3> QED
      BY <1>0, <3>1, <3>2 DEF ChainTyped
  <2>6. ChainTyped'
    <3>1. head' \in ChainEnd
      BY <2>1, <2>2 DEF HeadOf, ChainEnd, Event
    <3> QED
      BY <1>0, <2>1, <2>4, <2>5, <3>1 DEF ChainTyped
  <2>7. PendingInv'
    <3>1. \A v \in Writers : pending'[v] = None
      BY <1>0, <2>1, <2>2 DEF ChainTyped
    <3> QED
      BY <3>1 DEF PendingInv
  <2>8. BackendInv' /\ ReaderInv'
    <3>1. BackendInv'
      BY <1>0, <2>1 DEF BackendInv
    <3>2. ASSUME reading' # None
          PROVE  EndOf(reading'.chain).seq < head'.seq
      <4>1. head.seq \in Nat /\ head'.seq = head.seq + 1
        BY <1>0, <2>1, <2>2 DEF ChainTyped, ChainEnd, HeadOf
      <4>2. reading # None /\ reading \in Reading /\ reading'.chain = reading.chain
        BY <1>0, <2>5, <3>2 DEF ChainTyped
      <4>3. EndOf(reading.chain).seq \in Nat
        BY <4>2, EndTyped DEF Reading, ChainEnd
      <4>4. EndOf(reading.chain).seq <= head.seq
        <5>1. CASE reading.moved
          BY <1>0, <2>2, <4>1, <4>2, <4>3, <5>1 DEF ReaderInv
        <5>2. CASE ~reading.moved
          BY <1>0, <2>2, <2>3, <4>1, <4>2, <5>2 DEF ReaderInv
        <5> QED
          BY <5>1, <5>2
      <4> QED
        BY <4>1, <4>2, <4>3, <4>4
    <3> QED
      BY <2>5, <3>1, <3>2 DEF ReaderInv
  <2>9. \A e \in acked' : \E i \in DOMAIN events' : events'[i] = e
    <3>1. \A e \in acked : \E i \in DOMAIN events : events[i] = e
      BY <1>0, <2>3 DEF LinkInv
    <3> QED
      BY <2>1, <2>4, <3>1
  <2>10. LinkInv' /\ StoredInv'
    BY <2>1, <2>3, <2>4, <2>9 DEF LinkInv, StoredInv
  <2> QED
    BY <2>6, <2>7, <2>8, <2>9, <2>10 DEF ChainInv
<1>3. CASE RollbackAppend(w)
  <2>1. /\ UNCHANGED <<backend, ragged, events, head, up, built, reading, verdict, acked, littered>>
        /\ pending' = [pending EXCEPT ![w] = None]
    BY <1>3 DEF RollbackAppend, unread
  <2>2. ChainTyped' /\ PendingInv'
    BY <1>0, <2>1 DEF ChainTyped, PendingInv
  <2>3. BackendInv' /\ LinkInv' /\ StoredInv' /\ ReaderInv'
    BY <1>0, <2>1 DEF BackendInv, LinkInv, StoredInv, ReaderInv
  <2> QED
    BY <2>2, <2>3 DEF ChainInv
<1> QED
  BY <1>1, <1>2, <1>3

\* A read, in one statement or two, and the end of a request.
LEMMA ReadSteps ==
    ASSUME ChainInv, ReadNext \/ Clears
    PROVE  ChainInv'
<1>0. ChainTyped /\ PendingInv /\ BackendInv /\ LinkInv /\ StoredInv /\ ReaderInv
  BY DEF ChainInv
<1>1. UNCHANGED <<backend, events, head, ragged, up, pending, built, acked, littered>>
  BY DEF ReadNext, FileReadVerified, ReadEvents, ReadHead, Clears
<1>2. PendingInv' /\ BackendInv' /\ LinkInv' /\ StoredInv'
  BY <1>0, <1>1 DEF PendingInv, BackendInv, LinkInv, StoredInv
<1>3. reading' = None \/ reading' = reading \/ reading' = [chain |-> events, moved |-> FALSE]
  BY DEF ReadNext, FileReadVerified, ReadEvents, ReadHead, Clears
<1>4. ChainTyped' /\ ReaderInv'
  <2>1. [chain |-> events, moved |-> FALSE] \in Reading
    BY <1>0 DEF ChainTyped, Reading
  <2>2. ChainTyped'
    BY <1>0, <1>1, <1>3, <2>1 DEF ChainTyped
  <2>3. ReaderInv'
    <3>1. CASE reading' = reading
      BY <1>0, <1>1, <3>1 DEF ReaderInv
    <3>2. CASE reading' # reading
      BY <1>1, <1>3, <3>2 DEF ReaderInv
    <3> QED
      BY <3>1, <3>2
  <2> QED
    BY <2>2, <2>3
<1> QED
  BY <1>2, <1>4 DEF ChainInv

\* Every step keeps the chain.
LEMMA ChainKept == ChainInv /\ [Next]_vars => ChainInv'
<1> SUFFICES ASSUME ChainInv, [Next]_vars PROVE ChainInv'
  OBVIOUS
<1>1. CASE chainVars' = chainVars
  BY <1>1 DEF chainVars, ChainInv, ChainTyped, PendingInv, BackendInv, LinkInv, StoredInv, ReaderInv
<1>2. CASE ChainNext
  BY <1>2, FileSteps, TransactionSteps DEF ChainNext
<1>3. CASE ReadNext \/ Clears
  BY <1>3, ReadSteps
<1> QED
  BY <1>1, <1>2, <1>3, ChainSteps

-----------------------------------------------------------------------------
(* The theorems *)

\* Log.Append and appendAuditTx: whatever appends fail, transactions roll back or
\* processes crash, every acknowledged event stays in a chain that verifies and ends
\* at its head, until a write is cut inside a line or fails after it.
THEOREM ChainStaysIntact == Spec => []ChainIntact
<1>1. ChainInv => ChainIntact
  <2>1. \A e \in Event : (\E i \in DOMAIN events : events[i] = e) => Contains(events, e)
    BY DEF Contains
  <2> QED
    BY <2>1 DEF ChainInv, LinkInv, ChainIntact, Contains
<1> QED
  BY <1>1, ChainStarts, ChainKept, PTL DEF Spec

\* What a step says of the chain.
Right ==
    verdict' # verdict =>
        /\ verdict' = "verified" => \A e \in acked : Contains(reading'.chain, e)
        /\ verdict' = "corrupt" => littered \/ reading'.moved \/ (backend = "postgres" /\ Zone # "utc")

\* A chain that is numbered has no line that cannot be decoded.
LEMMA NumberedStored ==
    ASSUME ChainInv, Numbered(events)
    PROVE  \A e \in acked : Contains(events, e)
<1>1. events \in Seq(Event)
  BY DEF ChainInv, ChainTyped
<1>2. \A i \in DOMAIN events : events[i].seq # 0
  BY <1>1 DEF Numbered
<1>3. \A e \in acked : \E i \in DOMAIN events : events[i] = e
  BY <1>2 DEF ChainInv, StoredInv
<1> QED
  BY <1>1, <1>3 DEF Contains

\* Every verdict is right.
LEMMA VerdictsRight == ChainInv /\ [Next]_vars => [Right]_chainVars
<1> SUFFICES ASSUME ChainInv, [Next]_vars PROVE [Right]_chainVars
  OBVIOUS
<1>0. ChainTyped /\ BackendInv /\ LinkInv /\ ReaderInv
  BY DEF ChainInv
<1>1. CASE chainVars' = chainVars
  BY <1>1
<1>2. CASE ChainNext
  BY <1>2 DEF ChainNext, FileAppend, FileAppendFails, FileCrash, FileOpen, BeginAppend, CommitAppend,
              RollbackAppend, unread, Right
<1>3. CASE FileReadVerified
  <2>1. /\ reading' = [chain |-> events, moved |-> FALSE] /\ up
        /\ verdict' = IF Verifies(events, "utc") /\ EndOf(events) = head THEN "verified" ELSE "corrupt"
    BY <1>3 DEF FileReadVerified
  <2>2. ASSUME verdict' = "verified"
        PROVE  \A e \in acked : Contains(reading'.chain, e)
    BY <2>1, <2>2, VerifiesNumbered, NumberedStored
  <2>3. ASSUME verdict' = "corrupt"
        PROVE  littered
    BY <1>0, <2>1, <2>3 DEF LinkInv
  <2> QED
    BY <2>2, <2>3 DEF Right
<1>4. CASE ReadEvents
  <2>1. backend = "postgres" /\ verdict' = IF Verifies(events, Zone) THEN "none" ELSE "corrupt"
    BY <1>4 DEF ReadEvents
  <2> QED
    BY <1>0, <2>1 DEF LinkInv, Right
<1>5. CASE ReadHead
  <2>1. /\ reading' = reading /\ reading # None /\ backend = "postgres"
        /\ verdict' = IF head = EndOf(reading.chain) THEN "verified" ELSE "corrupt"
    BY <1>5 DEF ReadHead
  <2>2. /\ Verifies(events, "utc") /\ EndOf(events) = head
    BY <1>0, <2>1 DEF BackendInv, LinkInv
  <2>3. /\ reading \in Reading /\ reading.moved \in BOOLEAN /\ head.seq \in Nat
        /\ ~reading.moved => reading.chain = events
        /\ reading.moved => EndOf(reading.chain).seq < head.seq
    BY <1>0, <2>1 DEF ChainTyped, ChainEnd, Reading, ReaderInv
  <2>4. ASSUME verdict' = "verified"
        PROVE  \A e \in acked : Contains(reading'.chain, e)
    <3>1. reading.chain = events
      BY <2>1, <2>3, <2>4
    <3> QED
      BY <2>1, <2>2, <3>1, VerifiesNumbered, NumberedStored
  <2>5. ASSUME verdict' = "corrupt"
        PROVE  reading'.moved
    BY <2>1, <2>2, <2>3, <2>5
  <2> QED
    BY <2>4, <2>5 DEF Right
<1>6. CASE Clears
  BY <1>6 DEF Clears, Right
<1> QED
  BY <1>1, <1>2, <1>3, <1>4, <1>5, <1>6, ChainSteps DEF ReadNext

\* ReadVerified: whatever appends, failures and crashes come between and around its
\* statements, a read that succeeds holds every event acknowledged before it ended,
\* and one that fails does so because the file was littered, an append raced it, or
\* the driver's times are not in UTC.
THEOREM ReadsTellTheTruth == Spec => VerdictIsRight
<1>1. ChainInv /\ [Next]_vars => [verdict' # verdict =>
        /\ verdict' = "verified" => \A e \in acked : Contains(reading'.chain, e)
        /\ verdict' = "corrupt" => littered \/ reading'.moved \/ (backend = "postgres" /\ Zone # "utc")]_chainVars
  BY VerdictsRight DEF Right
<1> QED
  BY <1>1, ChainStarts, ChainKept, PTL DEF Spec, VerdictIsRight

-----------------------------------------------------------------------------
(* Lists in order *)

\* Later is a strict order, and total on the items of one page.
LEMMA LaterOrders ==
    ASSUME NEW a \in Item, NEW b \in Item, NEW c \in Item
    PROVE  /\ ~Later(a, a)
           /\ Later(a, b) /\ Later(b, c) => Later(a, c)
           /\ a = b \/ Later(a, b) \/ Later(b, a)
  BY DEF Later, Item

\* Every set of numbers has a least one.
LEMMA LeastNumber ==
    ASSUME NEW T \in SUBSET Nat, T # {}
    PROVE  \E n \in T : \A m \in T : n <= m
<1>1. PICK n \in T : \A m \in T : ~(<<m, n>> \in OpToRel(<, Nat))
  BY NatLessThanWellFounded, WFMin, Zenon
<1>2. ASSUME NEW m \in T PROVE n <= m
  <2>1. m \in Nat /\ n \in Nat
    BY <1>1, <1>2
  <2>2. ~(m < n)
    BY <1>1, <1>2, <2>1 DEF OpToRel
  <2> QED
    BY <2>1, <2>2
<1> QED
  BY <1>2

\* Every set of items has an oldest one.
LEMMA OldestItem ==
    ASSUME NEW S \in SUBSET Item, S # {}
    PROVE  \E x \in S : \A y \in S : y = x \/ Later(y, x)
<1> DEFINE times == {y.at : y \in S}
<1>1. times \in SUBSET Nat /\ times # {}
  BY DEF Item
<1>2. PICK n \in times : \A m \in times : n <= m
  BY <1>1, LeastNumber
<1> DEFINE ids == {y.id : y \in {z \in S : z.at = n}}
<1>3. ids \in SUBSET Nat /\ ids # {}
  BY <1>2 DEF Item
<1>4. PICK i \in ids : \A m \in ids : i <= m
  BY <1>3, LeastNumber
<1>5. PICK x \in S : x.at = n /\ x.id = i
  BY <1>4
<1>6. ASSUME NEW y \in S PROVE y = x \/ Later(y, x)
  <2>1. y.at \in Nat /\ x.at \in Nat /\ y.id \in Nat /\ x.id \in Nat /\ y \in Item /\ x \in Item
    BY DEF Item
  <2>2. x.at <= y.at
    BY <1>2, <1>5
  <2>3. y.at = x.at => x.id <= y.id
    BY <1>4, <1>5
  <2> QED
    BY <2>1, <2>2, <2>3 DEF Later, Item
<1> QED
  BY <1>5, <1>6

Descending(list) == \A k, l \in DOMAIN list : k < l => Later(list[k], list[l])

Lists(S) == {list \in [1..Cardinality(S) -> S] : Descending(list)}

\* A set with an oldest item is listed by listing the others first.
LEMMA ListLonger ==
    ASSUME NEW S \in SUBSET Item, IsFiniteSet(S), NEW x \in S,
           \A y \in S : y = x \/ Later(y, x), Lists(S \ {x}) # {}
    PROVE  Lists(S) # {}
<1>1. /\ Cardinality(S) \in Nat /\ Cardinality(S \ {x}) \in Nat
      /\ Cardinality(S) = Cardinality(S \ {x}) + 1
  <2>1. IsFiniteSet(S \ {x}) /\ Cardinality(S \ {x}) = Cardinality(S) - 1
    BY FS_RemoveElement
  <2>2. Cardinality(S) \in Nat /\ Cardinality(S \ {x}) \in Nat
    BY <2>1, FS_CardinalityType
  <2> QED
    BY <2>1, <2>2
<1> DEFINE n == Cardinality(S \ {x})
<1>a. n \in Nat /\ Cardinality(S) = n + 1
  BY <1>1
<1>2. PICK list \in [1..n -> S \ {x}] : Descending(list)
  BY DEF Lists
<1> HIDE DEF n
<1> DEFINE longer == [k \in 1..(n + 1) |-> IF k = n + 1 THEN x ELSE list[k]]
<1>3. longer \in [1..Cardinality(S) -> S]
  <2>1. \A k \in 1..(n + 1) : k = n + 1 \/ k \in 1..n
    BY <1>a
  <2> QED
    BY <1>a, <2>1
<1>4. Descending(longer)
  <2> SUFFICES ASSUME NEW k \in 1..(n + 1), NEW l \in 1..(n + 1), k < l
               PROVE  Later(longer[k], longer[l])
    BY DEF Descending
  <2>0. k \in 1..n /\ (l = n + 1 \/ l \in 1..n)
    BY <1>a
  <2>1. k # n + 1 /\ longer[k] = list[k] /\ list[k] \in S \ {x}
    BY <1>a, <2>0
  <2>2. CASE l = n + 1
    BY <2>1, <2>2
  <2>3. CASE l \in 1..n
    <3>1. longer[l] = list[l]
      BY <1>a, <2>3
    <3> QED
      BY <1>2, <2>0, <2>1, <2>3, <3>1 DEF Descending
  <2> QED
    BY <2>0, <2>2, <2>3
<1> QED
  BY <1>3, <1>4 DEF Lists

\* Every finite set of items can be listed, newest first: a least set without a
\* list would have an oldest item, and a list once that is taken away.
LEMMA EverySetHasAList ==
    ASSUME NEW S \in SUBSET Item, IsFiniteSet(S)
    PROVE  Lists(S) # {}
<1> DEFINE bad == {n \in Nat : \E T \in SUBSET S : Cardinality(T) = n /\ Lists(T) = {}}
<1> SUFFICES ASSUME Lists(S) = {} PROVE FALSE
  OBVIOUS
<1>1. Cardinality(S) \in bad
  BY FS_CardinalityType
<1>2. PICK n \in bad : \A m \in bad : n <= m
  BY <1>1, LeastNumber
<1>3. PICK T \in SUBSET S : Cardinality(T) = n /\ Lists(T) = {}
  BY <1>2
<1>4. IsFiniteSet(T) /\ T \in SUBSET Item
  BY <1>3, FS_Subset
<1>5. T # {}
  <2> SUFFICES ASSUME T = {} PROVE FALSE
    OBVIOUS
  <2>1. Cardinality(T) = 0
    BY FS_EmptySet
  <2>2. << >> \in [1..Cardinality(T) -> T] /\ Descending(<< >>)
    BY <2>1 DEF Descending
  <2> QED
    BY <1>3, <2>2 DEF Lists
<1>6. PICK x \in T : \A y \in T : y = x \/ Later(y, x)
  BY <1>4, <1>5, OldestItem
<1>7. /\ T \ {x} \in SUBSET S /\ Cardinality(T \ {x}) = n - 1
      /\ Cardinality(T \ {x}) \in Nat /\ n \in Nat
  BY <1>3, <1>4, FS_RemoveElement, FS_CardinalityType
<1>8. Lists(T \ {x}) # {}
  BY <1>2, <1>7
<1> QED
  BY <1>3, <1>4, <1>6, <1>8, ListLonger

\* NewestFirst lists the items of a finite set, each once, newest first.
LEMMA NewestFirstLists ==
    ASSUME NEW S \in SUBSET Item, IsFiniteSet(S)
    PROVE  /\ NewestFirst(S) \in Seq(S) /\ NewestFirst(S) \in Seq(Item)
           /\ Len(NewestFirst(S)) = Cardinality(S) /\ Cardinality(S) \in Nat
           /\ Descending(NewestFirst(S))
           /\ \A x \in S : \E k \in DOMAIN NewestFirst(S) : NewestFirst(S)[k] = x
<1> DEFINE list == NewestFirst(S)
           n == Cardinality(S)
<1>1. n \in Nat
  BY FS_CardinalityType
<1>2. list \in [1..n -> S] /\ Descending(list)
  BY EverySetHasAList DEF NewestFirst, Lists, Descending
<1> HIDE DEF list
<1>3. list \in Injection(1..n, S)
  <2> SUFFICES ASSUME NEW k \in 1..n, NEW l \in 1..n, k < l PROVE list[k] # list[l]
    BY <1>1, <1>2 DEF Injection, IsInjective
  <2>1. Later(list[k], list[l]) /\ list[k] \in Item
    BY <1>2 DEF Descending
  <2> QED
    BY <2>1, LaterOrders
<1>4. list \in Surjection(1..n, S)
  <2>1. IsFiniteSet(1..n) /\ Cardinality(1..n) = n
    BY <1>1, FS_Interval
  <2> QED
    BY <1>3, <2>1, FS_Injection
<1>5. \A x \in S : \E k \in DOMAIN list : list[k] = x
  BY <1>2, <1>4 DEF Surjection
<1>6. list \in Seq(S) /\ Len(list) = n
  BY <1>1, <1>2
<1>7. list \in Seq(Item)
  BY <1>6
<1> QED
  BY <1>1, <1>2, <1>5, <1>6, <1>7 DEF list

-----------------------------------------------------------------------------
(* Types of the chain *)

\* What ChainTypeOK adds to ChainTyped.  No more events are stored than were built,
\* and a transaction that has built one has room for it.
ChainBounds ==
    /\ backend \in {"file", "postgres"}
    /\ ragged \in BOOLEAN /\ up \in BOOLEAN /\ littered \in BOOLEAN
    /\ failures \in 0..MaxFailures
    /\ verdict \in {"none", "verified", "corrupt"}
    /\ acked \subseteq Event
    /\ Len(events) <= MaxEvents /\ Len(events) <= built /\ head.seq <= built
    /\ \A w \in Writers : pending[w] # None =>
          Len(events) < MaxEvents /\ Len(events) < built /\ pending[w].seq <= built

\* A written line makes the file longer by one, or ends an unfinished line.
LEMMA WrittenLength ==
    ASSUME ChainTyped, NEW e \in Event
    PROVE  Len(Written(e)) \in {Len(events), Len(events) + 1}
<1>1. Len(Append(events, e)) = Len(events) + 1
  BY DEF ChainTyped
<1>2. Len([events EXCEPT ![Len(events)] = Torn]) = Len(events)
  <2>1. events \in [1..Len(events) -> Event] /\ Len(events) \in Nat
    BY DEF ChainTyped
  <2>2. [events EXCEPT ![Len(events)] = Torn] \in [1..Len(events) -> Event]
    BY <2>1, Built
  <2> QED
    BY <2>1, <2>2
<1> QED
  BY <1>1, <1>2 DEF Written

\* An append or a start of the file's process keeps the bounds.
LEMMA FileBounded ==
    ASSUME ChainInv, ChainBounds, FileAppend \/ FileAppendFails \/ FileCrash \/ FileOpen
    PROVE  ChainBounds' /\ Len(events) <= Len(events')
<1>0. ChainTyped /\ PendingInv /\ backend = "file" /\ events \in Seq(Event) /\ Len(events) \in Nat
      /\ built \in Nat /\ head.seq \in Nat /\ MaxEvents \in Nat /\ MaxFailures \in Nat
  BY ChainAssumption DEF ChainInv, ChainTyped, ChainEnd, FileAppend, FileAppendFails, FileCrash, FileOpen
<1>1. \A w \in Writers : pending[w] = None
  BY <1>0 DEF PendingInv
<1>2. /\ backend' = backend /\ pending' = pending /\ verdict' = verdict
      /\ ragged' \in BOOLEAN /\ up' \in BOOLEAN /\ littered' \in BOOLEAN
  BY <1>0 DEF FileAppend, FileAppendFails, FileCrash, FileOpen, unread, Interrupted, ChainBounds
<1>3. failures' \in 0..MaxFailures
  BY <1>0 DEF FileAppend, FileAppendFails, FileCrash, FileOpen, Failure, ChainBounds
<1>4. acked' \subseteq Event
  BY <1>0, Built DEF FileAppend, FileAppendFails, FileCrash, FileOpen, ChainBounds
<1>5. CASE FileOpen
  <2>1. head'.seq = Len(events) /\ events' = events /\ built' = built
    BY <1>0, <1>5, EndTyped, VerifiesNumbered DEF FileOpen
  <2> QED
    BY <1>0, <1>1, <1>2, <1>3, <1>4, <2>1 DEF ChainBounds
<1>6. CASE ~FileOpen
  <2>1. Len(events) < MaxEvents /\ built' = built + 1
    BY <1>6 DEF FileAppend, FileAppendFails, FileCrash, Room
  <2>2. events' \in {events, Written(BuildEvent), Written(Torn)}
    BY <1>6 DEF FileAppend, FileAppendFails, FileCrash, Interrupted
  <2>3. Len(events') \in {Len(events), Len(events) + 1}
    BY <1>0, <2>2, Built, WrittenLength
  <2>4. head' = head \/ head'.seq = head.seq + 1
    BY <1>0, <1>6, Built DEF FileAppend, FileAppendFails, FileCrash, HeadOf
  <2> QED
    BY <1>0, <1>1, <1>2, <1>3, <1>4, <2>1, <2>3, <2>4 DEF ChainBounds
<1> QED
  BY <1>5, <1>6

\* A transaction keeps them: it inserts one event, which was built before.
LEMMA TransactionBounded ==
    ASSUME ChainInv, ChainBounds, NEW w \in Writers, BeginAppend(w) \/ CommitAppend(w) \/ RollbackAppend(w)
    PROVE  ChainBounds' /\ Len(events) <= Len(events')
<1>0. ChainTyped /\ PendingInv /\ events \in Seq(Event) /\ Len(events) \in Nat
      /\ built \in Nat /\ head.seq \in Nat /\ MaxEvents \in Nat /\ MaxFailures \in Nat
  BY ChainAssumption DEF ChainInv, ChainTyped, ChainEnd
<1>1. /\ UNCHANGED <<backend, ragged, up, littered, verdict>>
      /\ failures' \in 0..MaxFailures
  BY <1>0 DEF BeginAppend, CommitAppend, RollbackAppend, unread, Failure, ChainBounds
<1>2. CASE BeginAppend(w)
  <2>1. /\ pending' = [pending EXCEPT ![w] = BuildEvent] /\ built' = built + 1 /\ Len(events) < MaxEvents
        /\ events' = events /\ head' = head /\ acked' = acked
        /\ \A v \in Writers : pending[v] = None
    BY <1>2 DEF BeginAppend, Locks, Room
  <2>2. \A v \in Writers : pending'[v] # None => pending'[v] = BuildEvent
    BY <1>0, <2>1 DEF ChainTyped
  <2> QED
    BY <1>0, <1>1, <2>1, <2>2, Built DEF ChainBounds
<1>3. CASE CommitAppend(w)
  <2>1. /\ events' = Append(events, pending[w]) /\ head' = HeadOf(pending[w]) /\ built' = built
        /\ pending' = [pending EXCEPT ![w] = None] /\ acked' = acked \cup {pending[w]} /\ pending[w] # None
    BY <1>3 DEF CommitAppend
  <2>2. pending[w] \in Event /\ \A v \in Writers : pending[v] # None => v = w
    BY <1>0, <2>1 DEF PendingInv
  <2>3. \A v \in Writers : pending'[v] = None
    BY <1>0, <2>1, <2>2 DEF ChainTyped
  <2>4. Len(events') = Len(events) + 1 /\ head'.seq = pending[w].seq
    BY <1>0, <2>1, <2>2 DEF HeadOf
  <2> QED
    BY <1>0, <1>1, <2>1, <2>2, <2>3, <2>4 DEF ChainBounds
<1>4. CASE RollbackAppend(w)
  <2>1. /\ pending' = [pending EXCEPT ![w] = None]
        /\ events' = events /\ head' = head /\ acked' = acked /\ built' = built
    BY <1>4 DEF RollbackAppend
  <2>2. \A v \in Writers : pending'[v] # None => pending'[v] = pending[v]
    BY <1>0, <2>1 DEF ChainTyped
  <2> QED
    BY <1>0, <1>1, <2>1, <2>2 DEF ChainBounds
<1> QED
  BY <1>2, <1>3, <1>4

\* Every step keeps the types of the chain, and no event is ever taken away.
LEMMA ChainBoundsKept ==
    ASSUME ChainInv, ChainBounds, [Next]_vars
    PROVE  ChainBounds' /\ Len(events) <= Len(events')
<1>0. Len(events) \in Nat
  BY DEF ChainInv, ChainTyped
<1>1. CASE chainVars' = chainVars
  BY <1>0, <1>1 DEF chainVars, ChainBounds
<1>2. CASE ChainNext
  BY <1>2, FileBounded, TransactionBounded DEF ChainNext
<1>3. CASE ReadNext \/ Clears
  <2>1. UNCHANGED <<backend, events, head, ragged, up, pending, built, failures, acked, littered>>
    BY <1>3 DEF ReadNext, FileReadVerified, ReadEvents, ReadHead, Clears
  <2>2. verdict' \in {"none", "verified", "corrupt"}
    BY <1>3 DEF ReadNext, FileReadVerified, ReadEvents, ReadHead, Clears
  <2> QED
    BY <1>0, <2>1, <2>2 DEF ChainBounds
<1> QED
  BY <1>1, <1>2, <1>3, ChainSteps

\* The types of the chain follow.
LEMMA ChainTypes == ChainInv /\ ChainBounds => ChainTypeOK
  BY DEF ChainInv, ChainTyped, ChainBounds, ChainTypeOK, ChainEnd

-----------------------------------------------------------------------------
(* The invariant of a listing *)

Typed ==
    /\ subject \in Tables
    /\ now \in 0..MaxTime
    /\ authority \in Authority
    /\ rows \in [Ids -> Row \cup {None}]
    /\ changes \in 0..MaxChanges
    /\ view \in View
    /\ Len(view.page) <= Limit

\* No row is of an epoch to come, and a grant is issued or revoked.
RowsInv ==
    \A i \in Ids : rows[i] # None =>
        /\ rows[i].epoch <= authority.epoch
        /\ subject = "grants" => rows[i].status \in {"issued", "revoked"}

\* What is listed: nothing before the operator asks, and never another filter than
\* the one asked for.
AskedInv ==
    /\ view.phase = "closed" => view.kind = "page" /\ view.cursor = None
                                /\ view.page = <<>> /\ view.shown = <<>>
    /\ view.filter \in Filters[subject]
    /\ view.kind = "overview" => subject # "audit" /\ view.filter = Counted[subject]
    /\ view.phase = "recent" => view.kind = "overview" /\ subject = "jobs"
    /\ view.phase = "query" => view.page = <<>> /\ subject # "audit"

\* The rows that were in the filter's state all along are in it now.
SteadyInv ==
    subject # "audit" /\ Open => view.steady \subseteq MatchingNow(view.filter)

\* What a request knows of the moment it read the authority.  A grant changes its
\* state since then by revocation only, so one that is not revoked was in the state
\* that the snapshot gives it; and one that was issued since then, in the epoch of
\* the snapshot, was active when it was issued.
QueryInv ==
    view.phase = "query" =>
        /\ view.snap.authority.epoch <= authority.epoch /\ view.snap.now <= now
        /\ MatchingNow(view.filter) \subseteq view.ever
        /\ \A i \in view.present : rows[i] # None /\ rows[i].epoch <= view.snap.authority.epoch
        /\ \A i \in view.steady :
              i \in view.present /\ In(rows[i], view.filter, view.snap.authority, view.snap.now)
        /\ subject = "grants" /\ view.filter \notin {"any", "revoked"} =>
              \A i \in view.present :
                  In(rows[i], view.filter, view.snap.authority, view.snap.now) => i \in view.ever
        /\ subject = "grants" /\ view.filter = "active" =>
              \A i \in Ids \ view.present :
                  /\ rows[i] # None /\ rows[i].status # "revoked"
                  /\ rows[i].epoch = view.snap.authority.epoch /\ ~view.snap.authority.disabled
                  => i \in view.ever

\* Between two requests the cursor is the last row shown, and a row that stays in
\* the filter's state has been shown or comes after it.
CursorInv ==
    \/ view.cursor = None /\ view.shown = <<>>
    \/ /\ view.shown # <<>> /\ view.cursor = Last(view.shown)
       /\ \A i \in view.steady : i \in Shown \/ BeforeTimeCursor(ItemOf(i), view.cursor)

PageInv ==
    view.kind = "page" /\ subject # "audit" =>
        /\ Descending(view.shown)
        /\ view.phase \in {"next", "query"} => CursorInv
        /\ view.phase = "done" => view.steady \subseteq Shown

\* A count stays between the two sets while the failures are read, and a job that
\* has failed stays so: the second statement finds no fewer than were counted.
CountInv ==
    view.kind = "overview" /\ view.phase \in {"recent", "done"} =>
        /\ Cardinality(view.steady) <= view.count /\ view.count <= Cardinality(view.ever)
        /\ view.phase = "recent" => view.count <= Cardinality(MatchingNow(view.filter))
        /\ view.phase = "done" /\ subject = "jobs" => Min({view.count, Recent}) <= Len(view.shown)

\* A read that was not refused holds a numbered chain, which is a part of what
\* is stored now; the cursor is an event of both.
AuditInv ==
    subject = "audit" =>
        /\ view.phase \in {"closed", "next", "done", "failed"}
        /\ verdict # "none" => reading # None
        /\ reading # None => Len(reading.chain) <= Len(events)
        /\ reading # None /\ verdict # "corrupt" => Numbered(reading.chain)
        /\ view.phase = "next" =>
              \/ view.cursor = None /\ view.shown = <<>>
              \/ /\ view.shown # <<>> /\ view.cursor = Last(view.shown)
                 /\ view.cursor.at \in 1..Len(events)
                 /\ reading # None => view.cursor.at <= Len(reading.chain)
        /\ AuditPagesContiguous

ListingInv ==
    /\ Typed /\ RowsInv /\ AskedInv /\ SteadyInv /\ QueryInv
    /\ PageInv /\ ShownWasTrue /\ CountInv /\ AuditInv

ViewInv == ChainInv /\ ChainBounds /\ ListingInv

\* The fields of a typed listing.
LEMMA Fields ==
    ASSUME Typed
    PROVE  /\ view.kind \in {"page", "overview"}
           /\ view.phase \in {"closed", "next", "query", "recent", "done", "failed"}
           /\ view.cursor \in Item \cup {None}
           /\ view.snap.authority \in Authority /\ view.snap.now \in 0..MaxTime
           /\ view.present \in SUBSET Ids /\ view.steady \in SUBSET Ids /\ view.ever \in SUBSET Ids
           /\ view.page \in Seq(Item) /\ view.shown \in Seq(Item)
           /\ view.count \in Nat /\ view.bottom \in Nat
           /\ now \in Nat /\ authority.epoch \in Nat /\ view.snap.now \in Nat /\ view.snap.authority.epoch \in Nat
           /\ \A i \in Ids : rows[i] # None => rows[i] \in Row
  BY ViewAssumption DEF Typed, View, Authority

\* Nothing is shown before the operator asks.
LEMMA ViewStarts == Init => ViewInv
<1> SUFFICES ASSUME Init PROVE ViewInv
  OBVIOUS
<1>1. ChainBounds
  <2>1. /\ Len(events) = 0 /\ head.seq = 0 /\ built = 0 /\ failures = 0
        /\ \A w \in Writers : pending[w] = None
    BY DEF Init, ChainInit, Empty
  <2>2. /\ backend \in {"file", "postgres"}
        /\ ragged \in BOOLEAN /\ up \in BOOLEAN /\ littered \in BOOLEAN
        /\ verdict \in {"none", "verified", "corrupt"} /\ acked \subseteq Event
    BY DEF Init, ChainInit
  <2> QED
    BY <2>1, <2>2, ChainAssumption DEF ChainBounds
<1>2. subject \in Tables /\ now = TTL /\ changes = 0 /\ view = Closed
  BY DEF Init
<1>3. authority \in Authority
  BY ViewAssumption DEF Init, Authority
<1>4. ASSUME NEW i \in Ids
      PROVE  /\ rows[i] \in Row \cup {None}
             /\ rows[i] # None => rows[i].epoch <= authority.epoch
             /\ rows[i] # None /\ subject = "grants" => rows[i].status \in {"issued", "revoked"}
  <2> SUFFICES ASSUME rows[i] # None
               PROVE  /\ rows[i] \in Row /\ rows[i].epoch <= authority.epoch
                      /\ subject = "grants" => rows[i].status \in {"issued", "revoked"}
    OBVIOUS
  <2>1. rows[i] \in Earlier
    BY DEF Init
  <2>2. /\ rows[i] = [at |-> rows[i].at, expires |-> rows[i].expires,
                      epoch |-> rows[i].epoch, status |-> rows[i].status]
        /\ rows[i].at \in {0, 1} /\ rows[i].expires \in {TTL, TTL + 1}
        /\ rows[i].epoch \in IF subject = "grants" THEN 0..authority.epoch ELSE {0}
    BY <2>1 DEF Earlier
  <2>3. /\ rows[i].status \in JobStatuses \cup {"issued", "revoked", "decided", "consumed"}
        /\ subject = "grants" => rows[i].status \in {"issued", "revoked"}
    BY <1>2, <2>1, ViewAssumption DEF Earlier, Tables, JobStatuses
  <2>4. rows[i].epoch \in 0..MaxEpoch /\ rows[i].epoch <= authority.epoch
    BY <1>3, <2>2, ViewAssumption DEF Authority
  <2>5. rows[i].at \in 0..MaxTime /\ rows[i].expires \in Nat
    BY <2>2, ViewAssumption
  <2> QED
    BY <2>2, <2>3, <2>4, <2>5 DEF Row
<1>5. rows \in [Ids -> Row \cup {None}] /\ RowsInv
  BY <1>4 DEF Init, RowsInv
<1>6. /\ view.kind = "page" /\ view.phase = "closed" /\ view.filter = "any" /\ view.cursor = None
      /\ view.page = <<>> /\ view.shown = <<>> /\ view.steady = {}
  BY <1>2 DEF Closed
<1>7. Typed
  <2>1. view \in View
    <3>1. Snapshot \in [authority : Authority, now : 0..MaxTime]
      BY <1>2, <1>3, ViewAssumption DEF Snapshot
    <3>2. << >> \in Seq(Item) /\ {} \in SUBSET Ids
      OBVIOUS
    <3> QED
      BY <1>2, <3>1, <3>2 DEF Closed, View, GrantStates
  <2>2. Len(view.page) = 0
    BY <1>6
  <2> QED
    BY <1>2, <1>3, <1>5, <2>1, <2>2, ViewAssumption DEF Typed
<1>8. AskedInv /\ SteadyInv /\ QueryInv /\ PageInv /\ ShownWasTrue /\ CountInv
  BY <1>2, <1>6 DEF AskedInv, SteadyInv, QueryInv, PageInv, ShownWasTrue, CountInv, Open,
              Filters, Tables, Descending
<1>9. AuditInv
  <2>1. reading = None /\ verdict = "none"
    BY DEF Init, ChainInit
  <2> QED
    BY <1>6, <2>1 DEF AuditInv, AuditPagesContiguous
<1> QED
  BY <1>1, <1>5, <1>7, <1>8, <1>9, ChainStarts DEF ViewInv, ListingInv

-----------------------------------------------------------------------------
(* The system moves on *)

\* How a row may differ after a change: it is new, or its status moved.
Inserted(i) ==
    /\ rows[i] = None /\ rows'[i] \in Row
    /\ authority' = authority /\ rows'[i].epoch = authority.epoch
    /\ subject = "grants" => rows'[i].status = "issued" /\ ~authority.disabled /\ now' < rows'[i].expires

Moved(i) ==
    /\ rows[i] \in Row /\ rows'[i] \in Row
    /\ rows'[i].at = rows[i].at /\ rows'[i].epoch = rows[i].epoch /\ rows'[i].expires = rows[i].expires
    /\ rows[i].status # "failed"
    /\ subject = "grants" => rows'[i].status = "revoked"

\* What every change of the table, of the clock and of the authority has in common.
Drift ==
    /\ subject' = subject /\ subject # "audit" /\ Open /\ chainVars' = chainVars
    /\ changes' \in 0..MaxChanges
    /\ now' \in 0..MaxTime /\ now <= now'
    /\ authority' \in Authority /\ authority.epoch <= authority'.epoch
    /\ rows' \in [Ids -> Row \cup {None}]
    /\ \A i \in Ids : rows'[i] = rows[i] \/ Inserted(i) \/ Moved(i)
    /\ view' = [view EXCEPT !.steady = @ \cap Matching(view.filter, rows', authority', now'),
                            !.ever = @ \cup Matching(view.filter, rows', authority', now')]

\* A change leaves the number of changes within its bound.
LEMMA ChangeBounded ==
    ASSUME Typed, Change
    PROVE  Open /\ subject # "audit" /\ changes' \in 0..MaxChanges
  BY ViewAssumption DEF Typed, Change

\* A row that is inserted is of this moment; a grant is inserted under an enabled
\* authority and lives longer than the transaction that inserts it.
LEMMA InsertDrifts ==
    ASSUME ListingInv, NEW i \in Ids, Insert(i)
    PROVE  Drift
<1>0. Typed /\ Open /\ subject # "audit" /\ changes' \in 0..MaxChanges
  BY ChangeBounded DEF ListingInv, Insert
<1>1. PICK at \in {now, now - 1} \cap Nat :
          rows' = [rows EXCEPT ![i] = [at |-> at, expires |-> at + TTL, epoch |-> authority.epoch,
                                       status |-> FirstStatus[subject]]]
  BY DEF Insert
<1> DEFINE row == [at |-> at, expires |-> at + TTL, epoch |-> authority.epoch, status |-> FirstStatus[subject]]
<1>2. /\ subject' = subject /\ chainVars' = chainVars /\ now' = now /\ authority' = authority
      /\ rows[i] = None /\ (subject = "grants" => ~authority.disabled)
  BY DEF Insert
<1>3. at \in 0..MaxTime /\ now < at + TTL /\ at + TTL \in Nat /\ authority.epoch \in 0..MaxEpoch
  BY <1>0, ViewAssumption DEF Typed, Authority
<1>4. /\ FirstStatus[subject] \in JobStatuses \cup {"issued", "revoked", "decided", "consumed"}
      /\ subject = "grants" => FirstStatus[subject] = "issued"
  BY <1>0 DEF FirstStatus, Typed, Tables, JobStatuses
<1>5. row \in Row
  BY <1>3, <1>4 DEF Row
<1>6. rows' = [rows EXCEPT ![i] = row]
  BY <1>1
<1>7. /\ row.epoch = authority.epoch /\ row.expires = at + TTL
      /\ subject = "grants" => row.status = "issued"
  BY <1>4
<1> HIDE DEF row
<1>8. rows' \in [Ids -> Row \cup {None}] /\ rows'[i] = row /\ \A j \in Ids \ {i} : rows'[j] = rows[j]
  BY <1>0, <1>5, <1>6 DEF Typed
<1>9. Inserted(i)
  BY <1>2, <1>3, <1>5, <1>7, <1>8 DEF Inserted
<1>10. view' = [view EXCEPT !.steady = @ \cap Matching(view.filter, rows', authority', now'),
                            !.ever = @ \cup Matching(view.filter, rows', authority', now')]
  BY Zenon DEF Insert, Follow
<1> QED
  BY <1>0, <1>2, <1>8, <1>9, <1>10 DEF Drift, Typed, Authority

\* A move changes the status alone.
LEMMA MoveDrifts ==
    ASSUME ListingInv, NEW i \in Ids, Move(i)
    PROVE  Drift
<1>0. Typed /\ Open /\ subject # "audit" /\ changes' \in 0..MaxChanges
  BY ChangeBounded DEF ListingInv, Move
<1>1. PICK m \in Moves[subject] : rows[i].status = m[1] /\ rows' = [rows EXCEPT ![i].status = m[2]]
  BY DEF Move
<1>2. /\ subject' = subject /\ chainVars' = chainVars /\ now' = now /\ authority' = authority
      /\ rows[i] # None
  BY DEF Move
<1>3. /\ m[2] \in JobStatuses \cup {"issued", "revoked", "decided", "consumed"} /\ m[1] # "failed"
      /\ subject = "grants" => m[2] = "revoked"
  BY <1>0 DEF Typed, Tables, Moves, JobStatuses
<1>4. rows[i] \in Row
  BY <1>0, <1>2 DEF Typed
<1> DEFINE row == [rows[i] EXCEPT !.status = m[2]]
<1>5. row \in Row /\ row.at = rows[i].at /\ row.epoch = rows[i].epoch /\ row.expires = rows[i].expires
      /\ row.status = m[2]
  BY <1>3, <1>4 DEF Row
<1>6. rows' = [rows EXCEPT ![i] = row]
  BY <1>1
<1> HIDE DEF row
<1>7. rows' \in [Ids -> Row \cup {None}] /\ rows'[i] = row /\ \A j \in Ids \ {i} : rows'[j] = rows[j]
  BY <1>0, <1>5, <1>6 DEF Typed
<1>8. Moved(i)
  BY <1>1, <1>3, <1>4, <1>5, <1>7 DEF Moved
<1>9. view' = [view EXCEPT !.steady = @ \cap Matching(view.filter, rows', authority', now'),
                            !.ever = @ \cup Matching(view.filter, rows', authority', now')]
  BY Zenon DEF Move, Follow
<1> QED
  BY <1>0, <1>2, <1>7, <1>8, <1>9 DEF Drift, Typed, Authority

\* The clock, the authority, and a revocation of everything, which cancels jobs.
LEMMA OthersDrift ==
    ASSUME ListingInv, Tick \/ RevokeAll \/ Enable
    PROVE  Drift
<1>0. Typed /\ Open /\ subject # "audit" /\ changes' \in 0..MaxChanges
  BY ChangeBounded DEF ListingInv, Tick, RevokeAll, Enable
<1>1. view' = [view EXCEPT !.steady = @ \cap Matching(view.filter, rows', authority', now'),
                            !.ever = @ \cup Matching(view.filter, rows', authority', now')]
  BY Zenon DEF Tick, RevokeAll, Enable, Follow
<1>2. CASE Tick \/ Enable
  <2>1. /\ subject' = subject /\ chainVars' = chainVars /\ rows' = rows
        /\ now' \in 0..MaxTime /\ now <= now'
        /\ authority' \in Authority /\ authority'.epoch = authority.epoch
    <3>1. CASE Tick
      BY <1>0, <3>1, ViewAssumption DEF Tick, Typed, Authority
    <3>2. CASE Enable
      <4>1. authority \in Authority /\ authority' = [authority EXCEPT !.disabled = FALSE]
        BY <1>0, <3>2 DEF Enable, Typed
      <4>2. authority' \in Authority /\ authority'.epoch = authority.epoch
        BY <4>1 DEF Authority
      <4> QED
        BY <1>0, <3>2, <4>2, ViewAssumption DEF Enable, Typed
    <3> QED
      BY <1>2, <3>1, <3>2
  <2> QED
    BY <1>0, <1>1, <2>1 DEF Drift, Typed, Authority
<1>3. CASE RevokeAll
  <2>1. /\ subject' = subject /\ chainVars' = chainVars /\ now' = now
        /\ authority' \in Authority /\ authority.epoch <= authority'.epoch
    BY <1>0, <1>3, ViewAssumption DEF RevokeAll, Typed, Authority
  <2>2. rows' = [i \in Ids |-> IF rows[i] # None /\ rows[i].status \in {"staged", "pending", "claimed"}
                               THEN [rows[i] EXCEPT !.status = "canceled"] ELSE rows[i]]
    BY <1>3 DEF RevokeAll
  <2>3. ASSUME NEW i \in Ids
        PROVE  rows'[i] \in Row \cup {None} /\ (rows'[i] = rows[i] \/ Moved(i))
    <3>1. CASE rows[i] # None /\ rows[i].status \in {"staged", "pending", "claimed"}
      <4>1. rows[i] \in Row /\ rows'[i] = [rows[i] EXCEPT !.status = "canceled"]
        BY <1>0, <2>2, <3>1 DEF Typed
      <4>2. /\ rows'[i] \in Row /\ rows'[i].at = rows[i].at /\ rows'[i].epoch = rows[i].epoch
            /\ rows'[i].expires = rows[i].expires
        BY <4>1 DEF Row, JobStatuses
      <4>3. subject # "grants"
        BY <3>1 DEF ListingInv, RowsInv
      <4> QED
        BY <3>1, <4>1, <4>2, <4>3 DEF Moved
    <3>2. CASE ~(rows[i] # None /\ rows[i].status \in {"staged", "pending", "claimed"})
      BY <1>0, <2>2, <3>2 DEF Typed
    <3> QED
      BY <3>1, <3>2
  <2>4. rows' \in [Ids -> Row \cup {None}]
    BY <2>2, <2>3
  <2> QED
    BY <1>0, <1>1, <2>1, <2>3, <2>4 DEF Drift, Typed
<1> QED
  BY <1>2, <1>3

\* Of the listing itself, a change touches the two histories alone.
LEMMA DriftFields ==
    ASSUME Typed, Drift
    PROVE  /\ Typed'
           /\ view'.kind = view.kind /\ view'.phase = view.phase /\ view'.filter = view.filter
           /\ view'.cursor = view.cursor /\ view'.snap = view.snap /\ view'.present = view.present
           /\ view'.page = view.page /\ view'.shown = view.shown /\ view'.count = view.count
           /\ view'.steady = view.steady \cap MatchingNow(view.filter)'
           /\ view'.ever = view.ever \cup MatchingNow(view.filter)'
<1> DEFINE matching == Matching(view.filter, rows', authority', now')
<1>1. matching \in SUBSET Ids
  BY DEF Matching
<1>2. view' = [view EXCEPT !.steady = @ \cap matching, !.ever = @ \cup matching]
  BY DEF Drift
<1>3. view'.filter = view.filter
  BY <1>2 DEF Typed, View
<1>4. MatchingNow(view.filter)' = matching
  BY <1>3 DEF MatchingNow, Matching, In, Drift
<1> HIDE DEF matching
<1>5. view' \in View
  BY <1>1, <1>2 DEF Typed, View
<1>6. /\ view'.kind = view.kind /\ view'.phase = view.phase
      /\ view'.cursor = view.cursor /\ view'.snap = view.snap /\ view'.present = view.present
      /\ view'.page = view.page /\ view'.shown = view.shown /\ view'.count = view.count
      /\ view'.steady = view.steady \cap matching /\ view'.ever = view.ever \cup matching
  BY <1>2 DEF Typed, View
<1> QED
  BY <1>3, <1>4, <1>5, <1>6 DEF Drift, Typed

\* A row that was there is there, with its time, epoch and expiry, and a grant has
\* the status it had unless it is revoked.
LEMMA DriftRow ==
    ASSUME Typed, Drift, NEW i \in Ids
    PROVE  /\ rows[i] # None =>
                 /\ rows[i] \in Row /\ rows'[i] \in Row /\ rows'[i] # None
                 /\ rows'[i].at = rows[i].at /\ rows'[i].epoch = rows[i].epoch /\ rows'[i].expires = rows[i].expires
                 /\ rows[i].status = "failed" => rows'[i].status = "failed"
                 /\ subject = "grants" => rows'[i].status \in {rows[i].status, "revoked"}
           /\ rows[i] = None /\ rows'[i] # None => Inserted(i)
  BY ItemAssumption DEF Typed, Drift, Inserted, Moved

\* In state f by the authority and the clock of now, and by those of the snapshot:
\* a row that a change left in the state at both ends was in it by the snapshot.
LEMMA DriftQuery ==
    ASSUME ListingInv, Drift
    PROVE  QueryInv'
<1>0. Typed /\ RowsInv /\ AskedInv /\ QueryInv
  BY DEF ListingInv
<1> SUFFICES ASSUME view.phase = "query" PROVE QueryInv'
  BY <1>0, DriftFields DEF QueryInv
<1> DEFINE f == view.filter
           auth == view.snap.authority
           time == view.snap.now
<1>1. /\ view'.filter = f /\ view'.snap = view.snap /\ view'.present = view.present
      /\ view'.steady = view.steady \cap MatchingNow(f)'
      /\ view'.ever = view.ever \cup MatchingNow(f)'
  BY <1>0, DriftFields
<1>2. /\ auth.epoch \in Nat /\ time \in Nat /\ authority.epoch \in Nat /\ now \in Nat
      /\ authority'.epoch \in Nat /\ now' \in Nat /\ now <= now' /\ authority.epoch <= authority'.epoch
      /\ subject' = subject /\ subject \in Tables /\ f \in Filters[subject]
      /\ view.present \subseteq Ids /\ view.steady \subseteq Ids
  <2>1. /\ auth.epoch \in Nat /\ time \in Nat /\ authority.epoch \in Nat /\ now \in Nat
        /\ view.present \subseteq Ids /\ view.steady \subseteq Ids
    BY <1>0, Fields
  <2>2. /\ authority'.epoch \in Nat /\ now' \in Nat /\ now <= now' /\ authority.epoch <= authority'.epoch
        /\ subject' = subject
    BY ViewAssumption DEF Drift, Authority
  <2>3. subject \in Tables /\ f \in Filters[subject]
    BY <1>0 DEF Typed, AskedInv
  <2> QED
    BY <2>1, <2>2, <2>3
<1>3. \A i \in Ids : rows'[i] # None => rows'[i].expires \in Nat
  BY DEF Drift, Row
<1>4. auth.epoch <= authority'.epoch /\ time <= now'
  BY <1>0, <1>2 DEF QueryInv
<1>5. \A i \in view.present : rows'[i] # None /\ rows'[i].epoch <= auth.epoch
  BY <1>0, <1>2, DriftRow DEF QueryInv
<1>6. ASSUME NEW i \in view.steady, i \in MatchingNow(f)'
      PROVE  i \in view.present /\ In(rows[i], f, auth, time) /\ In(rows[i], f, auth, time)'
  <2>1. i \in Ids /\ i \in view.present /\ In(rows[i], f, auth, time) /\ rows[i] # None
    BY <1>0, <1>2, <1>6 DEF QueryInv
  <2>2. /\ rows'[i] # None /\ rows'[i].epoch = rows[i].epoch /\ rows'[i].expires = rows[i].expires
        /\ subject = "grants" => rows'[i].status \in {rows[i].status, "revoked"}
    BY <1>0, <2>1, DriftRow
  <2>3. In(rows[i], f, authority, now)'
    BY <1>6 DEF MatchingNow, Matching
  <2>4. In(rows[i], f, auth, time)'
    <3>1. CASE subject # "grants"
      BY <1>1, <1>2, <2>3, <3>1 DEF In
    <3>2. CASE subject = "grants" /\ rows'[i].status = "revoked"
      BY <1>1, <1>2, <2>3, <3>2 DEF In, Filters, GrantStates
    <3>3. CASE subject = "grants" /\ rows'[i].status = rows[i].status
      BY <1>1, <1>2, <2>1, <2>2, <3>3 DEF In
    <3> QED
      BY <2>2, <3>1, <3>2, <3>3
  <2> QED
    BY <2>1, <2>4
<1>7. ASSUME subject = "grants", f \notin {"any", "revoked"}, NEW i \in view.present, In(rows[i], f, auth, time)'
      PROVE  i \in view.ever
  <2>1. i \in Ids /\ rows[i] # None
    BY <1>0, <1>2 DEF QueryInv
  <2>2. /\ rows'[i].epoch = rows[i].epoch /\ rows'[i].expires = rows[i].expires
        /\ rows'[i].status \in {rows[i].status, "revoked"}
    BY <1>0, <1>7, <2>1, DriftRow
  <2>3. rows'[i].status # "revoked"
    BY <1>1, <1>2, <1>7 DEF In, Filters, GrantStates
  <2>4. In(rows[i], f, auth, time)
    BY <1>1, <1>2, <1>7, <2>2, <2>3 DEF In
  <2> QED
    BY <1>0, <1>7, <2>4 DEF QueryInv
<1>8. ASSUME subject = "grants", f = "active", NEW i \in Ids \ view.present,
             rows'[i] # None, rows'[i].status # "revoked", rows'[i].epoch = auth.epoch, ~auth.disabled
      PROVE  i \in view.ever \cup MatchingNow(f)'
  <2>1. CASE rows[i] = None
    <3>1. Inserted(i)
      BY <1>0, <1>8, <2>1, DriftRow
    <3>2. In(rows[i], f, authority, now)'
      BY <1>0, <1>1, <1>2, <1>3, <1>8, <3>1 DEF Inserted, In
    <3> QED
      BY <1>8, <3>2 DEF MatchingNow, Matching
  <2>2. CASE rows[i] # None
    BY <1>0, <1>8, <2>2, DriftRow DEF QueryInv
  <2> QED
    BY <2>1, <2>2
<1>9. (MatchingNow(f) \subseteq view.ever)'
  BY <1>1
<1>10. \A i \in view'.steady : i \in view'.present /\ In(rows[i], f, auth, time)'
  BY <1>1, <1>6
<1>11. (subject = "grants" /\ f \notin {"any", "revoked"} =>
          \A i \in view.present : In(rows[i], f, auth, time) => i \in view.ever)'
  BY <1>1, <1>2, <1>7
<1>12. (subject = "grants" /\ f = "active" =>
          \A i \in Ids \ view.present :
              /\ rows[i] # None /\ rows[i].status # "revoked"
              /\ rows[i].epoch = auth.epoch /\ ~auth.disabled
              => i \in view.ever)'
  BY <1>1, <1>2, <1>8
<1> QED
  BY <1>1, <1>4, <1>5, <1>9, <1>10, <1>11, <1>12 DEF QueryInv

\* The pages: what stays in the filter's state keeps its time, so its place in the list.
LEMMA DriftPages ==
    ASSUME ListingInv, Drift
    PROVE  PageInv' /\ ShownWasTrue' /\ SteadyInv' /\ RowsInv' /\ AskedInv'
<1>0. Typed /\ PageInv /\ ShownWasTrue /\ RowsInv /\ AskedInv /\ SteadyInv
      /\ subject' = subject /\ subject # "audit" /\ Open
  BY DEF ListingInv, Drift
<1>1. /\ view'.kind = view.kind /\ view'.phase = view.phase /\ view'.filter = view.filter
      /\ view'.cursor = view.cursor /\ view'.snap = view.snap /\ view'.present = view.present
      /\ view'.page = view.page /\ view'.shown = view.shown
      /\ view'.steady = view.steady \cap MatchingNow(view.filter)'
      /\ view'.ever = view.ever \cup MatchingNow(view.filter)'
  BY <1>0, DriftFields
<1>2. /\ view.steady \subseteq Ids /\ Shown' = Shown
      /\ \A i \in view.steady : rows[i] # None
  BY <1>0, <1>1, Fields DEF Shown, SteadyInv, MatchingNow, Matching
<1>3. \A i \in view.steady : ItemOf(i)' = ItemOf(i)
  BY <1>0, <1>2, DriftRow DEF ItemOf
<1>4. PageInv'
  <2>1. CursorInv => CursorInv'
    BY <1>1, <1>2, <1>3 DEF CursorInv
  <2> QED
    BY <1>0, <1>1, <1>2, <2>1 DEF PageInv
<1>5. ShownWasTrue'
  BY <1>0, <1>1 DEF ShownWasTrue
<1>6. SteadyInv'
  BY <1>1 DEF SteadyInv
<1>7. RowsInv'
  <2> SUFFICES ASSUME NEW i \in Ids, rows'[i] # None
               PROVE  /\ rows'[i].epoch <= authority'.epoch
                      /\ subject = "grants" => rows'[i].status \in {"issued", "revoked"}
    BY <1>0 DEF RowsInv
  <2>1. authority.epoch \in Nat /\ authority'.epoch \in Nat /\ authority.epoch <= authority'.epoch
    BY <1>0, Fields DEF Drift, Authority
  <2>2. CASE rows[i] = None
    <3>1. Inserted(i)
      BY <1>0, <2>2, DriftRow
    <3> QED
      BY <2>1, <3>1 DEF Inserted
  <2>3. CASE rows[i] # None
    <3>1. rows[i].epoch \in Nat
      BY <1>0, <2>3, Fields DEF Row
    <3> QED
      BY <1>0, <2>1, <2>3, <3>1, DriftRow DEF RowsInv
  <2> QED
    BY <2>2, <2>3
<1>8. AskedInv'
  BY <1>0, <1>1 DEF AskedInv
<1> QED
  BY <1>4, <1>5, <1>6, <1>7, <1>8

\* A smaller set of rows has no more of them.
LEMMA FewerRows ==
    ASSUME NEW S \in SUBSET Ids, NEW T \in SUBSET S
    PROVE  IsFiniteSet(S) /\ Cardinality(S) \in Nat /\ Cardinality(T) \in Nat /\ Cardinality(T) <= Cardinality(S)
<1>1. IsFiniteSet(S)
  BY ViewAssumption, FS_Subset
<1>2. IsFiniteSet(T) /\ Cardinality(T) <= Cardinality(S)
  BY <1>1, FS_Subset
<1> QED
  BY <1>1, <1>2, FS_CardinalityType

\* The counts: fewer rows stayed, more were ever in the state, and what has failed
\* stays failed.
LEMMA DriftCounts ==
    ASSUME ListingInv, Drift
    PROVE  CountInv' /\ AuditInv'
<1>0. Typed /\ CountInv /\ AskedInv /\ subject' = subject /\ subject # "audit" /\ Open
  BY DEF ListingInv, Drift
<1>1. AuditInv'
  BY <1>0 DEF AuditInv
<1>2. /\ view'.kind = view.kind /\ view'.phase = view.phase /\ view'.filter = view.filter
      /\ view'.count = view.count
      /\ view'.steady = view.steady \cap MatchingNow(view.filter)'
      /\ view'.ever = view.ever \cup MatchingNow(view.filter)'
  BY <1>0, DriftFields
<1> SUFFICES ASSUME view.kind = "overview", view.phase = "recent" PROVE CountInv'
  BY <1>0, <1>1, <1>2 DEF CountInv, Open
<1>3. subject = "jobs" /\ view.filter = "failed"
  BY <1>0 DEF AskedInv, Counted
<1>4. /\ view.steady \in SUBSET Ids /\ view.ever \in SUBSET Ids /\ view.count \in Nat
      /\ MatchingNow(view.filter)' \in SUBSET Ids
  BY <1>0, Fields DEF MatchingNow, Matching
<1>5. MatchingNow(view.filter) \subseteq MatchingNow(view.filter)'
  <2> SUFFICES ASSUME NEW i \in Ids, rows[i] # None, In(rows[i], view.filter, authority, now)
               PROVE  rows'[i] # None /\ In(rows[i], view.filter, authority, now)'
    BY DEF MatchingNow, Matching
  <2>1. rows[i].status = "failed"
    BY <1>3 DEF In
  <2>2. rows'[i] # None /\ rows'[i].status = "failed"
    BY <1>0, <2>1, DriftRow
  <2> QED
    BY <1>0, <1>2, <1>3, <2>2 DEF In
<1>6. Cardinality(view'.steady) <= view.count
  <2>1. view'.steady \in SUBSET view.steady
    BY <1>2
  <2>2. /\ Cardinality(view'.steady) <= Cardinality(view.steady)
        /\ Cardinality(view'.steady) \in Nat /\ Cardinality(view.steady) \in Nat
    BY <1>4, <2>1, FewerRows
  <2> QED
    BY <1>0, <1>4, <2>2 DEF CountInv
<1>7. view.count <= Cardinality(view'.ever)
  <2>1. view.ever \in SUBSET view'.ever /\ view'.ever \in SUBSET Ids
    BY <1>2, <1>4
  <2>2. /\ Cardinality(view.ever) <= Cardinality(view'.ever)
        /\ Cardinality(view'.ever) \in Nat /\ Cardinality(view.ever) \in Nat
    BY <2>1, FewerRows
  <2> QED
    BY <1>0, <1>4, <2>2 DEF CountInv
<1>8. view.count <= Cardinality(MatchingNow(view.filter)')
  <2>1. /\ Cardinality(MatchingNow(view.filter)) <= Cardinality(MatchingNow(view.filter)')
        /\ Cardinality(MatchingNow(view.filter)) \in Nat /\ Cardinality(MatchingNow(view.filter)') \in Nat
    BY <1>4, <1>5, FewerRows
  <2> QED
    BY <1>0, <1>4, <2>1 DEF CountInv
<1> QED
  BY <1>2, <1>6, <1>7, <1>8 DEF CountInv

\* Whatever changes while a list is read, the listing's invariant stays.
LEMMA DriftKeeps ==
    ASSUME ListingInv, Drift
    PROVE  ListingInv'
  BY DriftFields, DriftQuery, DriftPages, DriftCounts DEF ListingInv

-----------------------------------------------------------------------------
(* Requests *)

\* The operator asks: nothing has been shown yet.
LEMMA AskKeeps ==
    ASSUME ListingInv, Ask
    PROVE  ListingInv'
<1>0. /\ Typed /\ RowsInv /\ AskedInv /\ AuditInv
      /\ view.phase = "closed" /\ view.kind = "page" /\ view.cursor = None /\ view.page = <<>> /\ view.shown = <<>>
  BY DEF ListingInv, Ask, AskedInv
<1>1. /\ subject' = subject /\ now' = now /\ authority' = authority /\ rows' = rows /\ changes' = changes
      /\ reading' = reading /\ verdict' = verdict /\ events' = events
  BY DEF Ask, chainVars
<1>2. PICK f \in Filters[subject], kind \in {"page", "overview"} :
          /\ view' = [view EXCEPT !.phase = "next", !.kind = kind, !.filter = f, !.steady = MatchingNow(f)]
          /\ kind = "overview" => subject # "audit" /\ f = Counted[subject]
  <2>1. CASE \E f \in Filters[subject] :
                view' = [view EXCEPT !.phase = "next", !.filter = f, !.steady = MatchingNow(f)]
    <3>1. PICK f \in Filters[subject] :
                view' = [view EXCEPT !.phase = "next", !.filter = f, !.steady = MatchingNow(f)]
      BY <2>1
    <3>2. view' = [view EXCEPT !.phase = "next", !.kind = "page", !.filter = f, !.steady = MatchingNow(f)]
      BY <1>0, <3>1 DEF Typed, View
    <3> QED
      BY <3>2
  <2>2. CASE /\ subject # "audit"
             /\ view' = [view EXCEPT !.phase = "next", !.kind = "overview",
                                  !.filter = Counted[subject], !.steady = MatchingNow(Counted[subject])]
    <3>1. Counted[subject] \in Filters[subject]
      BY <1>0, <2>2 DEF Typed, Tables, Counted, Filters, GrantStates, JobStatuses
    <3> QED
      BY <2>2, <3>1
  <2> QED
    BY <2>1, <2>2 DEF Ask
<1>3. /\ view'.kind = kind /\ view'.phase = "next" /\ view'.filter = f
      /\ view'.cursor = None /\ view'.page = <<>> /\ view'.shown = <<>> /\ view'.steady = MatchingNow(f)
  BY <1>0, <1>2 DEF Typed, View
<1>4. MatchingNow(f)' = MatchingNow(f) /\ MatchingNow(f) \in SUBSET Ids
  BY <1>1 DEF MatchingNow, Matching, In
<1>5. Typed'
  <2>1. f \in GrantStates \cup JobStatuses \cup {"decided", "consumed", "any"}
    BY <1>0 DEF Typed, Tables, Filters, GrantStates, JobStatuses
  <2>2. view' \in View
    BY <1>0, <1>2, <1>4, <2>1 DEF Typed, View
  <2> QED
    BY <1>0, <1>1, <1>3, <2>2 DEF Typed
<1>6. RowsInv'
  BY <1>0, <1>1 DEF RowsInv
<1>7. AskedInv'
  BY <1>0, <1>1, <1>2, <1>3 DEF AskedInv
<1>8. SteadyInv'
  <2>1. MatchingNow(view.filter)' = MatchingNow(f)'
    BY <1>3 DEF MatchingNow, Matching, In
  <2> QED
    BY <1>3, <1>4, <2>1 DEF SteadyInv
<1>9. QueryInv' /\ CountInv'
  BY <1>3 DEF QueryInv, CountInv
<1>10. PageInv' /\ ShownWasTrue'
  BY <1>3 DEF PageInv, CursorInv, Descending, ShownWasTrue
<1>11. AuditInv'
  <2>1. AuditPagesContiguous'
    BY <1>3 DEF AuditPagesContiguous
  <2> QED
    BY <1>0, <1>1, <1>3, <2>1 DEF AuditInv
<1> QED
  BY <1>5, <1>6, <1>7, <1>8, <1>9, <1>10, <1>11 DEF ListingInv

\* A request reads the authority: the snapshot is of this moment.
LEMMA SnapshotKeeps ==
    ASSUME ListingInv, AuthoritySnapshot
    PROVE  ListingInv'
<1>0. /\ Typed /\ RowsInv /\ AskedInv /\ SteadyInv /\ PageInv
      /\ view.phase = "next" /\ subject # "audit"
  BY DEF ListingInv, AuthoritySnapshot
<1>1. /\ subject' = subject /\ now' = now /\ authority' = authority /\ rows' = rows /\ changes' = changes
  BY DEF AuthoritySnapshot
<1>2. view' = [view EXCEPT !.phase = "query", !.snap = Snapshot, !.page = <<>>,
                           !.present = MatchingNow("any"), !.ever = MatchingNow(view.filter)]
  BY DEF AuthoritySnapshot, Request
<1>3. /\ view'.kind = view.kind /\ view'.phase = "query" /\ view'.filter = view.filter
      /\ view'.cursor = view.cursor /\ view'.page = <<>> /\ view'.shown = view.shown
      /\ view'.steady = view.steady /\ view'.present = MatchingNow("any") /\ view'.ever = MatchingNow(view.filter)
      /\ view'.snap.authority = authority /\ view'.snap.now = now
  BY <1>0, <1>2 DEF Typed, View, Snapshot
<1>4. /\ MatchingNow(view.filter)' = MatchingNow(view.filter)
      /\ MatchingNow(view.filter) \in SUBSET Ids /\ MatchingNow("any") = {i \in Ids : rows[i] # None}
  <2>1. MatchingNow(view.filter)' = MatchingNow(view.filter)
    BY <1>1, <1>3 DEF MatchingNow, Matching, In
  <2>2. MatchingNow(view.filter) \in SUBSET Ids
    BY DEF MatchingNow, Matching
  <2>3. MatchingNow("any") = {i \in Ids : rows[i] # None}
    BY DEF MatchingNow, Matching, In
  <2> QED
    BY <2>1, <2>2, <2>3
<1>5. view.steady \subseteq MatchingNow(view.filter)
  BY <1>0 DEF SteadyInv, Open
<1>6. Typed'
  <2>1. Snapshot \in [authority : Authority, now : 0..MaxTime]
    BY <1>0 DEF Typed, Snapshot
  <2>a. MatchingNow("any") \in SUBSET Ids /\ << >> \in Seq(Item)
    BY <1>4
  <2>2. view' \in View
    BY <1>0, <1>2, <1>4, <2>1, <2>a DEF Typed, View
  <2>3. Len(view'.page) = 0 /\ Limit \in Nat
    BY <1>3, ViewAssumption
  <2> QED
    BY <1>0, <1>1, <2>2, <2>3 DEF Typed
<1>7. RowsInv' /\ AskedInv' /\ SteadyInv' /\ CountInv' /\ AuditInv'
  BY <1>0, <1>1, <1>3, <1>4, <1>5 DEF RowsInv, AskedInv, SteadyInv, CountInv, AuditInv
<1>8. PageInv' /\ ShownWasTrue'
  <2>1. Shown' = Shown /\ \A i \in Ids : ItemOf(i)' = ItemOf(i)
    BY <1>1, <1>3 DEF Shown, ItemOf
  <2>2. CursorInv => CursorInv'
    BY <1>0, <1>1, <1>3, <2>1, Fields DEF CursorInv
  <2> QED
    BY <1>0, <1>1, <1>3, <2>2 DEF PageInv, ShownWasTrue
<1>9. QueryInv'
  <2>1. authority.epoch \in Nat /\ now \in Nat
    BY <1>0, Fields
  <2>2. \A i \in Ids : In(rows[i], view.filter, view.snap.authority, view.snap.now)'
                        <=> In(rows[i], view.filter, authority, now)
    BY <1>1, <1>3 DEF In
  <2>3. \A i \in Ids : i \in MatchingNow(view.filter)
                        <=> rows[i] # None /\ In(rows[i], view.filter, authority, now)
    BY DEF MatchingNow, Matching
  <2>4. \A i \in view.steady : i \in Ids /\ rows[i] # None /\ In(rows[i], view.filter, authority, now)
    BY <1>5, <2>3, <1>4
  <2>5. \A i \in view'.present : i \in Ids /\ rows[i] # None /\ rows[i].epoch <= authority.epoch
    BY <1>0, <1>3, <1>4 DEF RowsInv
  <2>6. (\A i \in view.steady : i \in view.present /\ In(rows[i], view.filter, view.snap.authority, view.snap.now))'
    BY <1>3, <1>4, <2>2, <2>4
  <2>7. (\A i \in view.present :
            In(rows[i], view.filter, view.snap.authority, view.snap.now) => i \in view.ever)'
    BY <1>3, <2>2, <2>3, <2>5
  <2>8. (\A i \in Ids \ view.present : ~(rows[i] # None))'
    BY <1>1, <1>3, <1>4
  <2> QED
    BY <1>1, <1>3, <1>4, <2>1, <2>5, <2>6, <2>7, <2>8 DEF QueryInv
<1> QED
  BY <1>6, <1>7, <1>8, <1>9 DEF ListingInv

-----------------------------------------------------------------------------
(* Pages of rows *)

\* A page is the first items of the list, and the cursor its last when more are left.
PageMade(v, list) ==
    /\ v \in View /\ Len(v.page) <= Limit
    /\ v.kind = view.kind /\ v.filter = view.filter /\ v.snap = view.snap /\ v.present = view.present
    /\ v.count = view.count /\ v.steady = view.steady /\ v.ever = view.ever /\ v.bottom = view.bottom
    /\ v.page \in Seq(Item) /\ v.shown = view.shown \o v.page
    /\ \A k \in DOMAIN v.page : k \in DOMAIN list /\ v.page[k] = list[k]
    /\ Len(list) > Limit => /\ v.phase = "next" /\ Len(v.page) = Limit
                            /\ v.cursor = v.page[Limit] /\ Limit \in DOMAIN v.page
    /\ ~(Len(list) > Limit) => v.phase = "done" /\ v.page = list /\ v.cursor = None

\* FinishPage makes such a page of any list.
LEMMA PageFinished ==
    ASSUME Typed, NEW list \in Seq(Item)
    PROVE  PageMade(FinishPage(list), list)
<1> DEFINE v == FinishPage(list)
<1> DEFINE more == Len(list) > Limit
           page == IF more THEN SubSeq(list, 1, Limit) ELSE list
           cursor == IF more THEN Last(page) ELSE None
           phase == IF more THEN "next" ELSE "done"
<1>1. Limit \in Nat /\ Limit > 0 /\ Len(list) \in Nat /\ DOMAIN list = 1..Len(list)
  BY ViewAssumption
<1>2. /\ page \in Seq(Item) /\ Len(page) <= Limit
      /\ \A k \in DOMAIN page : k \in DOMAIN list /\ page[k] = list[k]
      /\ more => Len(page) = Limit /\ Limit \in DOMAIN page
  <2>1. CASE more
    <3>1. page = SubSeq(list, 1, Limit)
      BY <2>1
    <3>2. /\ SubSeq(list, 1, Limit) \in Seq(Item) /\ Len(SubSeq(list, 1, Limit)) = Limit
          /\ \A k \in 1..Limit : SubSeq(list, 1, Limit)[k] = list[k]
      <4>1. SubSeq(list, 1, Limit) = [k \in 1..Limit |-> list[k]]
        BY <1>1, <2>1
      <4>2. \A k \in 1..Limit : list[k] \in Item
        BY <1>1, <2>1
      <4> QED
        BY <1>1, <4>1, <4>2
    <3> QED
      BY <1>1, <2>1, <3>1, <3>2
  <2>2. CASE ~more
    <3>1. page = list /\ Len(list) <= Limit
      BY <1>1, <2>2
    <3> HIDE DEF page
    <3> QED
      BY <2>2, <3>1
  <2> QED
    BY <2>1, <2>2
<1>3. more => cursor = page[Limit]
  BY <1>2 DEF Last
<1>4. cursor \in Item \cup {None} /\ phase \in {"next", "done"}
  BY <1>2, <1>3
<1>5. v = [view EXCEPT !.page = page, !.shown = @ \o page, !.cursor = cursor, !.phase = phase]
  BY DEF FinishPage
<1>6. (more => phase = "next") /\ (~more => phase = "done" /\ cursor = None /\ page = list)
  OBVIOUS
<1> HIDE DEF page, cursor, phase, v
<1>7. view.shown \o page \in Seq(Item)
  BY <1>2, Fields
<1>8. v \in View
  BY <1>2, <1>4, <1>5, <1>7 DEF Typed, View
<1>9. /\ v.kind = view.kind /\ v.filter = view.filter /\ v.snap = view.snap /\ v.present = view.present
      /\ v.count = view.count /\ v.steady = view.steady /\ v.ever = view.ever /\ v.bottom = view.bottom
      /\ v.page = page /\ v.shown = view.shown \o page /\ v.cursor = cursor /\ v.phase = phase
  BY <1>5 DEF Typed, View
<1>10. PageMade(v, list)
  BY <1>2, <1>3, <1>6, <1>8, <1>9 DEF PageMade
<1> QED
  BY <1>10 DEF v

\* Two lists in order, the second after the first, make one list in order.
LEMMA JoinedLists ==
    ASSUME NEW a \in Seq(Item), NEW b \in Seq(Item), Descending(a), Descending(b),
           \A k \in DOMAIN a, l \in DOMAIN b : Later(a[k], b[l])
    PROVE  /\ Descending(a \o b) /\ Len(a \o b) = Len(a) + Len(b)
           /\ \A k \in DOMAIN a : k \in DOMAIN (a \o b) /\ (a \o b)[k] = a[k]
           /\ \A k \in DOMAIN b : Len(a) + k \in DOMAIN (a \o b) /\ (a \o b)[Len(a) + k] = b[k]
<1> DEFINE joined == a \o b
<1>1. /\ Len(a) \in Nat /\ Len(b) \in Nat /\ DOMAIN a = 1..Len(a) /\ DOMAIN b = 1..Len(b)
      /\ DOMAIN joined = 1..(Len(a) + Len(b)) /\ Len(joined) = Len(a) + Len(b)
      /\ \A k \in 1..(Len(a) + Len(b)) : joined[k] = IF k <= Len(a) THEN a[k] ELSE b[k - Len(a)]
  OBVIOUS
<1> HIDE DEF joined
<1>2. Descending(joined)
  <2> SUFFICES ASSUME NEW k \in DOMAIN joined, NEW l \in DOMAIN joined, k < l
               PROVE  Later(joined[k], joined[l])
    BY DEF Descending
  <2>1. CASE l <= Len(a)
    <3>1. k \in DOMAIN a /\ l \in DOMAIN a /\ joined[k] = a[k] /\ joined[l] = a[l]
      BY <1>1, <2>1
    <3> QED
      BY <3>1 DEF Descending
  <2>2. CASE k <= Len(a) /\ ~(l <= Len(a))
    <3>1. k \in DOMAIN a /\ l - Len(a) \in DOMAIN b /\ joined[k] = a[k] /\ joined[l] = b[l - Len(a)]
      BY <1>1, <2>2
    <3> QED
      BY <3>1
  <2>3. CASE ~(k <= Len(a))
    <3>1. /\ k - Len(a) \in DOMAIN b /\ l - Len(a) \in DOMAIN b /\ k - Len(a) < l - Len(a)
          /\ joined[k] = b[k - Len(a)] /\ joined[l] = b[l - Len(a)]
      BY <1>1, <2>3
    <3> QED
      BY <3>1 DEF Descending
  <2> QED
    BY <2>1, <2>2, <2>3
<1>3. /\ \A k \in DOMAIN a : k \in DOMAIN joined /\ joined[k] = a[k]
      /\ \A k \in DOMAIN b : Len(a) + k \in DOMAIN joined /\ joined[Len(a) + k] = b[k]
  BY <1>1
<1> QED
  BY <1>1, <1>2, <1>3 DEF joined

\* The rows that a query at clock t returns.
Chosen(t) == {i \in Ids : rows[i] # None /\ Derived(i, t)}

\* One item for every row that is returned.
LEMMA SelectedItems ==
    ASSUME Typed, NEW t
    PROVE  /\ Selected(t) \in SUBSET Item /\ IsFiniteSet(Selected(t))
           /\ Chosen(t) \in SUBSET Ids /\ Cardinality(Selected(t)) = Cardinality(Chosen(t))
           /\ \A x \in Selected(t) : x.id \in Chosen(t)
           /\ \A i \in Chosen(t) : ItemOf(i) \in Selected(t)
<1>1. Selected(t) = {ItemOf(i) : i \in Chosen(t)} /\ Chosen(t) \in SUBSET Ids
  BY DEF Selected, Chosen
<1>2. \A i \in Chosen(t) : ItemOf(i) \in Item /\ ItemOf(i).id = i
  BY ViewAssumption, Fields DEF Chosen, ItemOf, Item, Row
<1> DEFINE f == [i \in Chosen(t) |-> ItemOf(i)]
<1>3. f \in Bijection(Chosen(t), Selected(t))
  <2>1. f \in [Chosen(t) -> Selected(t)]
    BY <1>1
  <2>2. \A i, j \in Chosen(t) : f[i] = f[j] => i = j
    BY <1>2
  <2>3. \A x \in Selected(t) : \E i \in Chosen(t) : f[i] = x
    BY <1>1
  <2> QED
    BY <2>1, <2>2, <2>3 DEF Bijection, Injection, Surjection, IsInjective
<1>4. IsFiniteSet(Chosen(t))
  BY <1>1, ViewAssumption, FS_Subset
<1>5. IsFiniteSet(Selected(t)) /\ Cardinality(Selected(t)) = Cardinality(Chosen(t))
  BY <1>3, <1>4, FS_Bijection DEF ExistsBijection
<1> QED
  BY <1>1, <1>2, <1>5

\* The states of a grant.
LEMMA GrantIn ==
    ASSUME subject = "grants", NEW row, NEW auth, NEW time
    PROVE  /\ In(row, "any", auth, time)
           /\ In(row, "active", auth, time) <=>
                 /\ row.status # "revoked" /\ ~(time >= row.expires)
                 /\ ~(row.epoch < auth.epoch) /\ ~auth.disabled
           /\ In(row, "disabled", auth, time) <=>
                 /\ row.status # "revoked" /\ ~(time >= row.expires)
                 /\ ~(row.epoch < auth.epoch) /\ auth.disabled
           /\ In(row, "stale_epoch", auth, time) <=>
                 row.status # "revoked" /\ ~(time >= row.expires) /\ row.epoch < auth.epoch
           /\ In(row, "expired", auth, time) <=> row.status # "revoked" /\ time >= row.expires
           /\ In(row, "revoked", auth, time) <=> row.status = "revoked"
  BY DEF In

\* What a query returns: every row that stayed in the filter's state, and no row that
\* never was in it since the request began, but for grants issued since then.
LEMMA DerivedIn ==
    ASSUME ListingInv, view.phase = "query", NEW t \in Clocks
    PROVE  /\ view.steady \subseteq Chosen(t)
           /\ \A i \in Chosen(t) :
                 \/ i \in view.ever
                 \/ view.filter \in {"stale_epoch", "disabled"} /\ i \notin view.present
           /\ subject # "grants" => Chosen(t) = MatchingNow(view.filter)
           /\ view.filter = "active" => Chosen(t) \subseteq view.ever
<1> DEFINE f == view.filter
           auth == view.snap.authority
           time == view.snap.now
<1>0. Typed /\ RowsInv /\ AskedInv /\ SteadyInv /\ QueryInv /\ Open /\ subject # "audit"
  BY DEF ListingInv, Open, AskedInv
<1>1. /\ auth.epoch \in Nat /\ time \in Nat /\ authority.epoch \in Nat /\ now \in Nat
      /\ auth.epoch <= authority.epoch /\ f \in Filters[subject] /\ subject \in Tables
      /\ MatchingNow(f) \subseteq view.ever /\ view.steady \subseteq Ids /\ view.present \subseteq Ids
      /\ auth.disabled \in BOOLEAN
  BY <1>0, Fields DEF QueryInv, AskedInv, Typed, Authority
<1>2. t \in Nat /\ time <= t /\ t <= now
  BY <1>0, <1>1 DEF Clocks, QueryInv
<1>3. \A i \in Ids : i \in MatchingNow(f) <=> rows[i] # None /\ In(rows[i], f, authority, now)
  BY DEF MatchingNow, Matching
<1>4. \A i \in Ids : rows[i] # None => rows[i].expires \in Nat /\ rows[i].epoch \in Nat
  BY <1>0, Fields DEF Row
<1>5. ASSUME subject # "grants" PROVE Chosen(t) = MatchingNow(f)
  BY <1>5 DEF Chosen, Derived, MatchingNow, Matching, In
<1>6. ASSUME subject = "grants", NEW i \in view.steady PROVE i \in Chosen(t)
  <2>1. /\ i \in Ids /\ rows[i] # None /\ rows[i].epoch <= auth.epoch
        /\ In(rows[i], f, auth, time) /\ In(rows[i], f, authority, now)
    BY <1>0, <1>1, <1>3 DEF QueryInv, SteadyInv
  <2>2. f = "any" \/ DeriveGrantState(rows[i], auth, t) = f
    <3>0. rows[i].epoch \in Nat /\ rows[i].expires \in Nat
          /\ f \in {"any", "active", "disabled", "stale_epoch", "expired", "revoked"}
      BY <1>1, <1>4, <1>6, <2>1 DEF Filters, GrantStates
    <3>1. CASE f \in {"active", "disabled"}
      BY <1>1, <1>2, <1>6, <2>1, <3>0, <3>1, GrantIn DEF DeriveGrantState
    <3>2. CASE f = "stale_epoch"
      BY <1>1, <1>2, <1>6, <2>1, <3>0, <3>2, GrantIn DEF DeriveGrantState
    <3>3. CASE f \in {"expired", "revoked"}
      BY <1>1, <1>2, <1>6, <2>1, <3>0, <3>3, GrantIn DEF DeriveGrantState
    <3> QED
      BY <3>0, <3>1, <3>2, <3>3
  <2> QED
    BY <1>6, <2>1, <2>2 DEF Chosen, Derived
<1>7. ASSUME subject = "grants", NEW i \in Chosen(t)
      PROVE  i \in view.ever \/ (f \in {"stale_epoch", "disabled"} /\ i \notin view.present)
  <2>1. /\ i \in Ids /\ rows[i] # None /\ rows[i].epoch \in Nat /\ rows[i].expires \in Nat
        /\ f = "any" \/ DeriveGrantState(rows[i], auth, t) = f
    BY <1>4, <1>7 DEF Chosen, Derived
  <2>2. CASE f \in {"any", "revoked", "expired"}
    <3>1. In(rows[i], f, authority, now)
      BY <1>1, <1>2, <1>7, <2>1, <2>2, GrantIn DEF DeriveGrantState
    <3> QED
      BY <1>1, <1>3, <2>1, <3>1
  <2>3. CASE f \in {"active", "disabled", "stale_epoch"} /\ i \in view.present
    <3>1. rows[i].epoch <= auth.epoch
      BY <1>0, <2>3 DEF QueryInv
    <3>2. In(rows[i], f, auth, time)
      BY <1>1, <1>2, <1>7, <2>1, <2>3, <3>1, GrantIn DEF DeriveGrantState
    <3> QED
      BY <1>0, <1>7, <2>3, <3>2 DEF QueryInv
  <2>4. CASE f = "active" /\ i \notin view.present
    <3>1. rows[i].status # "revoked" /\ rows[i].epoch = auth.epoch /\ ~auth.disabled
      BY <1>1, <2>1, <2>4 DEF DeriveGrantState
    <3> QED
      BY <1>0, <1>7, <2>1, <2>4, <3>1 DEF QueryInv
  <2>5. f \in {"any", "revoked", "expired", "active", "disabled", "stale_epoch"}
    BY <1>1, <1>7 DEF Filters, GrantStates
  <2> QED
    BY <2>2, <2>3, <2>4, <2>5
<1>8. ASSUME subject # "grants"
      PROVE  view.steady \subseteq Chosen(t) /\ Chosen(t) \subseteq view.ever
  BY <1>0, <1>1, <1>5, <1>8 DEF SteadyInv
<1> QED
  BY <1>5, <1>6, <1>7, <1>8

\* A page: what it shows comes after all that was shown, and what it leaves out for
\* the next page comes after the cursor.
LEMMA PageKeeps ==
    ASSUME ListingInv, Page
    PROVE  ListingInv'
<1>0. /\ Typed /\ RowsInv /\ AskedInv /\ SteadyInv /\ PageInv
      /\ view.kind = "page" /\ view.phase = "query" /\ subject # "audit" /\ CursorInv /\ Descending(view.shown)
  BY DEF ListingInv, Page, PageInv
<1>1. /\ subject' = subject /\ now' = now /\ authority' = authority /\ rows' = rows /\ changes' = changes
  BY DEF Page
<1>2. PICK t \in Clocks :
          view' = FinishPage(NewestFirst({item \in Selected(t) :
                      view.cursor = None \/ BeforeTimeCursor(item, view.cursor)}))
  BY DEF Page
<1> DEFINE S == {item \in Selected(t) : view.cursor = None \/ BeforeTimeCursor(item, view.cursor)}
           list == NewestFirst(S)
<1>3. S \in SUBSET Item /\ IsFiniteSet(S)
  BY <1>0, SelectedItems, FS_Subset
<1>4. /\ list \in Seq(Item) /\ Descending(list) /\ \A k \in DOMAIN list : list[k] \in S
      /\ \A x \in S : \E k \in DOMAIN list : list[k] = x
  <2>1. /\ list \in Seq(S) /\ list \in Seq(Item) /\ Descending(list)
        /\ \A x \in S : \E k \in DOMAIN list : list[k] = x
    BY <1>3, NewestFirstLists
  <2> HIDE DEF list, S
  <2>2. \A k \in DOMAIN list : list[k] \in S
    BY <2>1
  <2> QED
    BY <2>1, <2>2
<1>5. view' = FinishPage(list)
  BY <1>2
<1>6. \A x \in S : x.id \in Chosen(t) /\ (view.cursor = None \/ BeforeTimeCursor(x, view.cursor))
  BY <1>0, SelectedItems
<1>7. \A i \in view.steady :
          /\ i \in Chosen(t) /\ ItemOf(i).id = i
          /\ view.cursor = None \/ BeforeTimeCursor(ItemOf(i), view.cursor) => ItemOf(i) \in S
  BY <1>0, SelectedItems, DerivedIn DEF ItemOf
<1> HIDE DEF list, S
<1>8. PageMade(view', list)
  BY <1>0, <1>4, <1>5, PageFinished
<1>9. Typed'
  BY <1>0, <1>1, <1>8 DEF PageMade, Typed
<1>10. RowsInv' /\ AskedInv' /\ QueryInv' /\ CountInv' /\ AuditInv'
  BY <1>0, <1>1, <1>8 DEF PageMade, RowsInv, AskedInv, QueryInv, CountInv, AuditInv
<1>11. SteadyInv'
  <2>1. MatchingNow(view.filter)' = MatchingNow(view.filter)
    BY <1>1, <1>8 DEF PageMade, MatchingNow, Matching, In
  <2> QED
    BY <1>0, <1>8, <2>1 DEF PageMade, SteadyInv, Open
<1>12. ShownWasTrue'
  <2> SUFFICES ASSUME NEW k \in DOMAIN view'.page
               PROVE  \/ view'.page[k].id \in view.ever
                      \/ view.filter \in {"stale_epoch", "disabled"} /\ view'.page[k].id \notin view.present
    BY <1>8 DEF PageMade, ShownWasTrue
  <2>1. view'.page[k].id \in Chosen(t)
    BY <1>4, <1>6, <1>8 DEF PageMade
  <2> QED
    BY <1>0, <2>1, DerivedIn
<1>13. /\ Descending(view'.shown) /\ Len(view'.shown) = Len(view.shown) + Len(view'.page)
       /\ \A k \in DOMAIN view.shown : k \in DOMAIN view'.shown /\ view'.shown[k] = view.shown[k]
       /\ \A k \in DOMAIN view'.page : /\ Len(view.shown) + k \in DOMAIN view'.shown
                                       /\ view'.shown[Len(view.shown) + k] = view'.page[k]
  <2>1. view.shown \in Seq(Item) /\ view.cursor \in Item \cup {None}
    BY <1>0, Fields
  <2>2. Descending(view'.page)
    BY <1>4, <1>8 DEF PageMade, Descending
  <2>3. ASSUME NEW k \in DOMAIN view.shown, NEW l \in DOMAIN view'.page
        PROVE  Later(view.shown[k], view'.page[l])
    <3>1. view.shown # <<>> /\ view.cursor = view.shown[Len(view.shown)] /\ Len(view.shown) \in DOMAIN view.shown
      BY <1>0, <2>1 DEF CursorInv, Last
    <3>2. view.cursor \in Item /\ view.cursor # None /\ view.shown[k] \in Item
      BY <2>1, <3>1, ItemAssumption
    <3>3. view'.page[l] \in Item /\ BeforeTimeCursor(view'.page[l], view.cursor)
      BY <1>3, <1>4, <1>6, <1>8, <3>2 DEF PageMade
    <3>4. Later(view.cursor, view'.page[l])
      BY <3>3 DEF BeforeTimeCursor, Later
    <3>5. view.shown[k] = view.cursor \/ Later(view.shown[k], view.cursor)
      BY <1>0, <2>1, <3>1 DEF Descending
    <3> QED
      BY <3>2, <3>3, <3>4, <3>5, LaterOrders
  <2>4. view'.page \in Seq(Item) /\ view'.shown = view.shown \o view'.page
    BY <1>8 DEF PageMade
  <2> DEFINE joined == view.shown \o view'.page
  <2>5. /\ Descending(joined) /\ Len(joined) = Len(view.shown) + Len(view'.page)
        /\ \A k \in DOMAIN view.shown : k \in DOMAIN joined /\ joined[k] = view.shown[k]
        /\ \A k \in DOMAIN view'.page : /\ Len(view.shown) + k \in DOMAIN joined
                                        /\ joined[Len(view.shown) + k] = view'.page[k]
    <3> HIDE DEF joined
    <3> QED
      BY <1>0, <2>1, <2>2, <2>3, <2>4, JoinedLists DEF joined
  <2>6. view'.shown = joined
    BY <2>4
  <2> HIDE DEF joined
  <2> QED
    BY <2>5, <2>6
<1>14. ASSUME NEW i \in view.steady
       PROVE  i \in Shown' \/ \E k \in DOMAIN list : list[k] = ItemOf(i)
  <2>1. i \in Shown => i \in Shown'
    BY <1>13 DEF Shown
  <2>2. i \in Shown \/ view.cursor = None \/ BeforeTimeCursor(ItemOf(i), view.cursor)
    BY <1>0 DEF CursorInv
  <2> QED
    BY <1>4, <1>7, <2>1, <2>2
<1>15. ASSUME NEW i \in view.steady, NEW k \in DOMAIN view'.page, view'.page[k] = ItemOf(i)
       PROVE  i \in Shown'
  BY <1>7, <1>13, <1>15 DEF Shown
<1>16. ASSUME Len(list) > Limit PROVE PageInv'
  <2>1. view'.phase = "next" /\ view'.shown # <<>> /\ view'.cursor = Last(view'.shown)
    <3>1. Limit \in DOMAIN view'.page /\ Len(view'.page) = Limit /\ view'.cursor = view'.page[Limit]
      BY <1>8, <1>16 DEF PageMade
    <3>2. view.shown \in Seq(Item) /\ Len(view'.shown) = Len(view.shown) + Limit
      BY <1>0, <1>13, <3>1, Fields
    <3>3. view'.shown[Len(view'.shown)] = view'.cursor /\ view'.shown # <<>>
      BY <1>13, <3>1, <3>2
    <3> QED
      BY <1>8, <1>16, <3>3 DEF PageMade, Last
  <2>2. ASSUME NEW i \in view.steady
        PROVE  i \in Shown' \/ BeforeTimeCursor(ItemOf(i), view'.cursor)
    <3>1. CASE \E k \in DOMAIN list : list[k] = ItemOf(i)
      <4>1. PICK k \in DOMAIN list : list[k] = ItemOf(i)
        BY <3>1
      <4>2. /\ DOMAIN list = 1..Len(list) /\ Len(list) \in Nat /\ Limit \in Nat /\ Limit \in DOMAIN list
            /\ view'.cursor = list[Limit] /\ DOMAIN view'.page = 1..Limit
        BY <1>4, <1>8, <1>16, ViewAssumption DEF PageMade
      <4>3. CASE k <= Limit
        <5>1. k \in DOMAIN view'.page /\ view'.page[k] = ItemOf(i)
          BY <1>8, <4>1, <4>2, <4>3 DEF PageMade
        <5> QED
          BY <1>15, <5>1
      <4>4. CASE Limit < k
        <5>1. Later(list[Limit], list[k])
          BY <1>4, <4>2, <4>4 DEF Descending
        <5> QED
          BY <4>1, <4>2, <5>1 DEF Later, BeforeTimeCursor
      <4> QED
        BY <4>2, <4>3, <4>4
    <3> QED
      BY <1>14, <3>1
  <2>3. CursorInv'
    <3>1. \A i \in view.steady : ItemOf(i)' = ItemOf(i)
      BY <1>1 DEF ItemOf
    <3> QED
      BY <1>8, <2>1, <2>2, <3>1 DEF PageMade, CursorInv
  <2>4. Descending(view'.shown)
    BY <1>13
  <2> QED
    BY <2>1, <2>3, <2>4 DEF PageInv
<1>17. ASSUME ~(Len(list) > Limit) PROVE PageInv'
  <2>1. view'.phase = "done" /\ view'.page = list
    BY <1>8, <1>17 DEF PageMade
  <2>2. view.steady \subseteq Shown'
    BY <1>14, <1>15, <2>1
  <2>3. Descending(view'.shown) /\ view'.steady = view.steady
    BY <1>8, <1>13 DEF PageMade
  <2> QED
    BY <2>1, <2>2, <2>3 DEF PageInv
<1> QED
  BY <1>9, <1>10, <1>11, <1>12, <1>16, <1>17 DEF ListingInv

-----------------------------------------------------------------------------
(* The overview *)

\* The smaller of two numbers.
LEMMA MinOfTwo ==
    ASSUME NEW m \in Nat, NEW n \in Nat
    PROVE  Min({m, n}) \in {m, n} /\ Min({m, n}) <= m /\ Min({m, n}) <= n
<1>1. \E x \in {m, n} : \A y \in {m, n} : x <= y
  OBVIOUS
<1> QED
  BY <1>1 DEF Min

\* The failures shown are as many as there are, up to the limit.
LEMMA RecentItems ==
    ASSUME Typed, NEW t, NEW n \in Nat, n <= Cardinality(Selected(t))
    PROVE  RecentOf(Selected(t)) \in Seq(Item) /\ Min({n, Recent}) <= Len(RecentOf(Selected(t)))
<1> DEFINE list == NewestFirst(Selected(t))
           size == Cardinality(Selected(t))
           shown == Min({Recent, size})
<1>1. list \in Seq(Item) /\ Len(list) = size /\ size \in Nat
  BY SelectedItems, NewestFirstLists
<1>2. RecentOf(Selected(t)) = SubSeq(list, 1, shown)
  BY DEF RecentOf
<1>3. Recent \in Nat /\ n <= size
  BY ViewAssumption
<1> HIDE DEF list, size
<1>4. shown \in Nat /\ shown <= size /\ (shown = Recent \/ shown = size)
  BY <1>1, <1>3, MinOfTwo
<1>5. Min({n, Recent}) <= n /\ Min({n, Recent}) <= Recent /\ Min({n, Recent}) \in Nat
  BY <1>3, MinOfTwo
<1> HIDE DEF shown
<1>6. SubSeq(list, 1, shown) \in Seq(Item) /\ Len(SubSeq(list, 1, shown)) = shown
  <2>1. SubSeq(list, 1, shown) = [k \in 1..shown |-> list[k]]
    BY <1>1, <1>4
  <2>2. \A k \in 1..shown : list[k] \in Item
    BY <1>1, <1>4
  <2> QED
    BY <1>4, <2>1, <2>2
<1> QED
  BY <1>1, <1>2, <1>3, <1>4, <1>5, <1>6

\* The overview counts what a query returns.
LEMMA OverviewKeeps ==
    ASSUME ViewInv, Overview
    PROVE  ListingInv'
<1>0. /\ ListingInv /\ Typed /\ RowsInv /\ AskedInv /\ SteadyInv /\ QueryInv
      /\ view.kind = "overview" /\ view.phase = "query" /\ subject # "audit"
      /\ view.filter = Counted[subject] /\ backend \in {"file", "postgres"}
  BY DEF ViewInv, ListingInv, ChainBounds, Overview, AskedInv
<1>1. /\ subject' = subject /\ now' = now /\ authority' = authority /\ rows' = rows /\ changes' = changes
  BY DEF Overview
<1>2. PICK t \in Clocks :
        view' = [view EXCEPT !.count = Cardinality(Selected(t)),
                             !.shown = IF backend = "file" /\ subject = "jobs" THEN RecentOf(Selected(t)) ELSE <<>>,
                             !.phase = IF backend = "postgres" /\ subject = "jobs" THEN "recent" ELSE "done"]
  BY DEF Overview
<1> DEFINE size == Cardinality(Selected(t))
           shown == IF backend = "file" /\ subject = "jobs" THEN RecentOf(Selected(t)) ELSE <<>>
           phase == IF backend = "postgres" /\ subject = "jobs" THEN "recent" ELSE "done"
<1>3. /\ size = Cardinality(Chosen(t)) /\ Chosen(t) \in SUBSET Ids /\ size \in Nat
      /\ view.steady \subseteq Chosen(t) /\ Chosen(t) \subseteq view.ever
      /\ subject = "jobs" => Chosen(t) = MatchingNow(view.filter)
  <2>1. size = Cardinality(Chosen(t)) /\ Chosen(t) \in SUBSET Ids
    BY <1>0, SelectedItems
  <2>2. size \in Nat
    BY <2>1, FewerRows
  <2>3. view.steady \subseteq Chosen(t) /\ (subject # "grants" => Chosen(t) = MatchingNow(view.filter))
        /\ (view.filter = "active" => Chosen(t) \subseteq view.ever)
    BY <1>0, DerivedIn
  <2>4. MatchingNow(view.filter) \subseteq view.ever /\ (subject = "grants" => view.filter = "active")
    BY <1>0 DEF QueryInv, Counted
  <2> QED
    BY <2>1, <2>2, <2>3, <2>4
<1>4. /\ shown \in Seq(Item)
      /\ backend = "file" /\ subject = "jobs" => Min({size, Recent}) <= Len(shown)
  <2>1. CASE backend = "file" /\ subject = "jobs"
    <3>1. shown = RecentOf(Selected(t))
      BY <2>1
    <3>2. size <= size
      BY <1>3
    <3> QED
      BY <1>0, <1>3, <3>1, <3>2, RecentItems
  <2>2. CASE ~(backend = "file" /\ subject = "jobs")
    <3>1. shown = << >>
      BY <2>2
    <3> HIDE DEF shown
    <3> QED
      BY <2>2, <3>1
  <2> QED
    BY <2>1, <2>2
<1>5. /\ phase \in {"recent", "done"} /\ (phase = "recent" => subject = "jobs")
      /\ phase = "done" /\ subject = "jobs" => backend = "file"
  BY <1>0
<1>6. view' = [view EXCEPT !.count = size, !.shown = shown, !.phase = phase]
  BY <1>2
<1> HIDE DEF size, shown, phase
<1>7. view' \in View
  BY <1>0, <1>3, <1>4, <1>5, <1>6 DEF Typed, View
<1>8. /\ view'.kind = view.kind /\ view'.filter = view.filter /\ view'.page = view.page
      /\ view'.steady = view.steady /\ view'.ever = view.ever
      /\ view'.count = size /\ view'.shown = shown /\ view'.phase = phase
  BY <1>0, <1>6 DEF Typed, View
<1>9. Typed'
  BY <1>0, <1>1, <1>7, <1>8 DEF Typed
<1>10. RowsInv' /\ AskedInv' /\ QueryInv' /\ PageInv' /\ ShownWasTrue' /\ AuditInv'
  BY <1>0, <1>1, <1>5, <1>8 DEF RowsInv, AskedInv, QueryInv, PageInv, ShownWasTrue, AuditInv
<1>11. MatchingNow(view.filter)' = MatchingNow(view.filter)
  BY <1>1, <1>8 DEF MatchingNow, Matching, In
<1>12. SteadyInv'
  BY <1>0, <1>8, <1>11 DEF SteadyInv, Open
<1>13. CountInv'
  <2>1. view.steady \in SUBSET Ids /\ view.ever \in SUBSET Ids
    BY <1>0, Fields
  <2>2. Cardinality(view.steady) <= size
    BY <1>3, FewerRows
  <2>3. size <= Cardinality(view.ever)
    BY <1>3, <2>1, FewerRows
  <2>4. phase = "recent" => size <= Cardinality(MatchingNow(view.filter))
    BY <1>3, <1>5
  <2> QED
    BY <1>1, <1>4, <1>5, <1>8, <1>11, <2>2, <2>3, <2>4 DEF CountInv
<1> QED
  BY <1>9, <1>10, <1>12, <1>13 DEF ListingInv

\* The second statement of PostgreSQL's overview.
LEMMA RecentKeeps ==
    ASSUME ListingInv, RecentFailures
    PROVE  ListingInv'
<1>0. /\ Typed /\ RowsInv /\ AskedInv /\ CountInv
      /\ view.phase = "recent" /\ view.kind = "overview" /\ subject = "jobs" /\ view.filter = "failed"
  BY DEF ListingInv, RecentFailures, AskedInv, Counted
<1>1. /\ subject' = subject /\ now' = now /\ authority' = authority /\ rows' = rows /\ changes' = changes
  BY DEF RecentFailures
<1> DEFINE shown == RecentOf(Selected(now))
<1>2. view' = [view EXCEPT !.shown = shown, !.phase = "done"]
  BY DEF RecentFailures
<1>3. Chosen(now) = MatchingNow(view.filter)
  BY <1>0 DEF Chosen, Derived, MatchingNow, Matching, In
<1>4. view.count \in Nat /\ view.count <= Cardinality(Selected(now))
  BY <1>0, <1>3, Fields, SelectedItems DEF CountInv
<1>5. shown \in Seq(Item) /\ Min({view.count, Recent}) <= Len(shown)
  BY <1>0, <1>4, RecentItems
<1> HIDE DEF shown
<1>6. view' \in View
  BY <1>0, <1>2, <1>5 DEF Typed, View
<1>7. /\ view'.kind = view.kind /\ view'.filter = view.filter /\ view'.page = view.page
      /\ view'.steady = view.steady /\ view'.ever = view.ever /\ view'.count = view.count
      /\ view'.shown = shown /\ view'.phase = "done"
  BY <1>0, <1>2 DEF Typed, View
<1>8. Typed'
  BY <1>0, <1>1, <1>6, <1>7 DEF Typed
<1>9. /\ RowsInv' /\ AskedInv' /\ QueryInv' /\ PageInv' /\ ShownWasTrue' /\ AuditInv'
      /\ SteadyInv'
  BY <1>0, <1>1, <1>7 DEF RowsInv, AskedInv, QueryInv, PageInv, ShownWasTrue, AuditInv, SteadyInv, Open
<1>10. CountInv'
  BY <1>0, <1>1, <1>5, <1>7 DEF CountInv
<1> QED
  BY <1>8, <1>9, <1>10 DEF ListingInv

-----------------------------------------------------------------------------
(* Pages of the audit log *)

\* What does not depend on the chain stays while the chain moves.
LEMMA SameView ==
    ASSUME ListingInv, UNCHANGED <<subject, now, authority, rows, changes, view>>
    PROVE  /\ Typed' /\ RowsInv' /\ AskedInv' /\ SteadyInv' /\ QueryInv'
           /\ PageInv' /\ ShownWasTrue' /\ CountInv'
<1>1. Typed' /\ RowsInv' /\ AskedInv' /\ ShownWasTrue'
  BY DEF ListingInv, Typed, RowsInv, AskedInv, ShownWasTrue
<1>2. SteadyInv' /\ QueryInv' /\ CountInv'
  <2>1. MatchingNow(view.filter)' = MatchingNow(view.filter)
    BY DEF MatchingNow, Matching, In
  <2>2. \A i \in Ids : In(rows[i], view.filter, view.snap.authority, view.snap.now)'
                          = In(rows[i], view.filter, view.snap.authority, view.snap.now)
    BY DEF In
  <2>3. SteadyInv' /\ CountInv'
    BY <2>1 DEF ListingInv, SteadyInv, CountInv, Open
  <2>4. QueryInv'
    BY <2>1, <2>2, Fields DEF ListingInv, QueryInv
  <2> QED
    BY <2>3, <2>4
<1>3. PageInv'
  BY DEF ListingInv, PageInv, CursorInv, Shown, ItemOf
<1> QED
  BY <1>1, <1>2, <1>3

\* A read keeps what it has taken while the chain moves on.
LEMMA ReadingStays ==
    ASSUME ChainTyped, ChainNext
    PROVE  /\ verdict' = verdict
           /\ reading' = None <=> reading = None
           /\ reading # None => reading'.chain = reading.chain
<1>1. CASE reading' = reading /\ verdict' = verdict
  BY <1>1
<1>2. CASE \E w \in Writers : CommitAppend(w)
  <2>1. verdict' = verdict /\ reading' = IF reading # None THEN [reading EXCEPT !.moved = TRUE] ELSE None
    BY <1>2 DEF CommitAppend
  <2>2. reading # None => [reading EXCEPT !.moved = TRUE] \in Reading
                          /\ [reading EXCEPT !.moved = TRUE].chain = reading.chain
    BY DEF ChainTyped, Reading
  <2> QED
    BY <2>1, <2>2, ReadingAssumption
<1> QED
  BY <1>1, <1>2 DEF ChainNext, FileAppend, FileAppendFails, FileCrash, FileOpen, BeginAppend, RollbackAppend, unread

\* Between pages the chain grows, and a read takes all of it.
LEMMA ChainKeepsListing ==
    ASSUME ViewInv, Chain \/ AuditRead, Len(events) <= Len(events')
    PROVE  ListingInv'
<1>0. /\ ListingInv /\ ChainTyped /\ AuditInv /\ subject = "audit" /\ Typed
      /\ Len(events) \in Nat /\ Len(events') \in Nat /\ view.phase \in {"closed", "next"}
  <2>1. Len(events) \in Nat /\ events \in Seq(Event)
    BY DEF ViewInv, ChainInv, ChainTyped
  <2>2. events' \in Seq(Event)
    <3>1. CASE Chain
      <4>1. [Next]_vars
        BY <3>1 DEF Next
      <4> QED
        BY <4>1, ChainKept DEF ViewInv, ChainInv, ChainTyped
    <3>2. CASE AuditRead
      BY <2>1, <3>2 DEF AuditRead, ReadNext, FileReadVerified, ReadEvents, ReadHead
    <3> QED
      BY <3>1, <3>2
  <2> QED
    BY <2>1, <2>2 DEF ViewInv, ListingInv, ChainInv, Chain, AuditRead
<1>1. UNCHANGED <<subject, now, authority, rows, changes, view>>
  BY DEF Chain, AuditRead
<1>2. AuditPagesContiguous'
  BY <1>0, <1>1 DEF AuditInv, AuditPagesContiguous
<1>3. view.phase = "next" /\ view.cursor # None => view.cursor.at \in Nat
  BY <1>0, Fields DEF Item
<1>4. /\ verdict' # "none" => reading' # None
      /\ reading' # None => Len(reading'.chain) <= Len(events')
      /\ reading' # None /\ verdict' # "corrupt" => Numbered(reading'.chain)
      /\ \A n \in 1..Len(events) :
             (reading # None => n <= Len(reading.chain)) => (reading' # None => n <= Len(reading'.chain))
  <2>1. CASE Chain
    <3>1. /\ verdict' = verdict /\ (reading' = None <=> reading = None)
          /\ reading # None => reading'.chain = reading.chain
      BY <1>0, <2>1, ReadingStays DEF Chain
    <3>2. reading # None => Len(reading.chain) \in Nat
      BY <1>0 DEF ChainTyped, Reading
    <3> QED
      BY <1>0, <3>1, <3>2 DEF AuditInv
  <2>2. CASE AuditRead
    <3>1. events' = events
      BY <2>2 DEF AuditRead, ReadNext, FileReadVerified, ReadEvents, ReadHead
    <3>2. CASE FileReadVerified \/ ReadEvents
      <4>1. /\ reading' = [chain |-> events, moved |-> FALSE]
            /\ verdict' # "corrupt" => Numbered(events)
        BY <3>2, VerifiesNumbered DEF FileReadVerified, ReadEvents
      <4>2. reading'.chain = events /\ reading' # None
        <5>1. [chain |-> events, moved |-> FALSE] \in Reading
          BY <1>0 DEF Reading, ChainTyped
        <5> QED
          BY <4>1, <5>1, ReadingAssumption
      <4> QED
        BY <1>0, <3>1, <4>1, <4>2
    <3>3. CASE ReadHead
      <4>1. reading' = reading /\ reading # None /\ verdict = "none"
        BY <3>3 DEF ReadHead
      <4> QED
        BY <1>0, <3>1, <4>1 DEF AuditInv
    <3> QED
      BY <2>2, <3>2, <3>3 DEF AuditRead, ReadNext
  <2> QED
    BY <2>1, <2>2
<1>5. AuditInv'
  BY <1>0, <1>1, <1>2, <1>3, <1>4 DEF AuditInv
<1> QED
  BY <1>0, <1>1, <1>5, SameView DEF ListingInv

\* A list of the events lo..hi.
Spans(list, lo, hi) ==
    /\ \A k \in DOMAIN list : list[k].at \in lo..hi /\ list[k].id = 0
    /\ \A s \in lo..hi : \E k \in DOMAIN list : list[k].at = s

\* Newest first, the items of the events lo..hi are a run of consecutive events from
\* hi down to lo: an event left out would have its place between two neighbours.
LEMMA RunOfItems ==
    ASSUME NEW lo \in Nat, NEW hi \in Int, NEW list \in Seq(Item), Descending(list), Spans(list, lo, hi)
    PROVE  /\ \A k \in 1..(Len(list) - 1) : list[k + 1].at = list[k].at - 1
           /\ list # <<>> => list[1].at = hi /\ list[Len(list)].at = lo
           /\ list = <<>> => hi < lo
<1>1. Len(list) \in Nat /\ DOMAIN list = 1..Len(list)
  OBVIOUS
<1>2. \A k \in DOMAIN list : list[k].at \in lo..hi /\ list[k].id = 0 /\ list[k].at \in Nat
  BY DEF Spans
<1>3. \A k, l \in DOMAIN list : k < l => list[l].at < list[k].at
  BY <1>2 DEF Descending, Later
<1>4. \A s \in lo..hi : \E k \in DOMAIN list : list[k].at = s
  BY DEF Spans
<1>5. ASSUME NEW k \in 1..(Len(list) - 1) PROVE list[k + 1].at = list[k].at - 1
  <2>1. /\ k \in DOMAIN list /\ k + 1 \in DOMAIN list /\ list[k + 1].at < list[k].at
        /\ list[k].at \in lo..hi /\ list[k + 1].at \in lo..hi
    <3>1. k \in DOMAIN list /\ k + 1 \in DOMAIN list /\ k < k + 1
      BY <1>1
    <3>2. list[k + 1].at < list[k].at
      BY <1>3, <3>1
    <3> QED
      BY <1>2, <3>1, <3>2
  <2>2. PICK j \in DOMAIN list : list[j].at = list[k].at - 1
    <3>1. list[k].at - 1 \in lo..hi
      BY <2>1
    <3> QED
      BY <1>4, <3>1
  <2>3. k < j /\ ~(k + 1 < j)
    <3>1. j < k => list[k].at < list[j].at
      BY <1>3, <2>1
    <3>2. k + 1 < j => list[j].at < list[k + 1].at
      BY <1>3, <2>1
    <3>3. k \in Nat /\ j \in Nat /\ list[k].at \in Nat /\ list[k + 1].at \in Nat /\ list[j].at \in Nat
      BY <1>1, <1>2, <2>1
    <3>4. ~(j < k) /\ j # k /\ ~(k + 1 < j)
      BY <2>1, <2>2, <3>1, <3>2, <3>3
    <3> QED
      BY <3>3, <3>4
  <2> QED
    BY <1>1, <2>1, <2>2, <2>3
<1>6. ASSUME list # <<>> PROVE list[1].at = hi /\ list[Len(list)].at = lo
  <2>1. 1 \in DOMAIN list /\ Len(list) \in DOMAIN list /\ lo <= hi
    BY <1>1, <1>2, <1>6
  <2>2. PICK j \in DOMAIN list : list[j].at = hi
    BY <1>4, <2>1
  <2>3. PICK l \in DOMAIN list : list[l].at = lo
    BY <1>4, <2>1
  <2>4. j = 1
    <3>1. 1 < j => list[j].at < list[1].at
      BY <1>3, <2>1
    <3>2. list[1].at \in lo..hi /\ list[1].at \in Nat
      BY <1>2, <2>1
    <3> QED
      BY <1>1, <2>2, <3>1, <3>2
  <2>5. l = Len(list)
    <3>1. l < Len(list) => list[Len(list)].at < list[l].at
      BY <1>3, <2>1
    <3>2. list[Len(list)].at \in lo..hi /\ list[Len(list)].at \in Nat
      BY <1>2, <2>1
    <3> QED
      BY <1>1, <2>3, <3>1, <3>2
  <2> QED
    BY <2>2, <2>3, <2>4, <2>5
<1>7. ASSUME list = <<>> PROVE hi < lo
  BY <1>4, <1>7
<1> QED
  BY <1>5, <1>6, <1>7

\* The list of the items of the events lo..hi.
LEMMA RunOfEvents ==
    ASSUME NEW lo \in Nat, NEW hi \in Int
    PROVE  LET list == NewestFirst({[at |-> s, id |-> 0] : s \in lo..hi}) IN
           /\ list \in Seq(Item)
           /\ \A k \in DOMAIN list : list[k].at \in lo..hi
           /\ \A k \in 1..(Len(list) - 1) : list[k + 1].at = list[k].at - 1
           /\ list # <<>> => list[1].at = hi /\ list[Len(list)].at = lo
           /\ list = <<>> => hi < lo
<1> DEFINE S == {[at |-> s, id |-> 0] : s \in lo..hi}
           list == NewestFirst(S)
<1>1. S \in SUBSET Item /\ IsFiniteSet(S)
  <2> DEFINE f == [s \in lo..hi |-> [at |-> s, id |-> 0]]
  <2>1. f \in Surjection(lo..hi, S)
    BY DEF Surjection
  <2>2. IsFiniteSet(lo..hi)
    BY FS_Interval
  <2>3. S \in SUBSET Item
    BY DEF Item
  <2> QED
    BY <2>1, <2>2, <2>3, FS_Surjection
<1>2. \A x \in S : x.at \in lo..hi /\ x.id = 0
  OBVIOUS
<1>3. \A s \in lo..hi : [at |-> s, id |-> 0] \in S /\ [at |-> s, id |-> 0].at = s
  OBVIOUS
<1> HIDE DEF S
<1>4. /\ list \in Seq(S) /\ list \in Seq(Item) /\ Descending(list)
      /\ \A x \in S : \E k \in DOMAIN list : list[k] = x
  BY <1>1, NewestFirstLists
<1> HIDE DEF list
<1>5. \A k \in DOMAIN list : list[k] \in S
  BY <1>4
<1>6. \A s \in lo..hi : \E k \in DOMAIN list : list[k].at = s
  BY <1>3, <1>4
<1>7. \A k \in DOMAIN list : list[k].at \in lo..hi /\ list[k].id = 0
  BY <1>2, <1>5
<1>8. /\ \A k \in 1..(Len(list) - 1) : list[k + 1].at = list[k].at - 1
      /\ list # <<>> => list[1].at = hi /\ list[Len(list)].at = lo
      /\ list = <<>> => hi < lo
  BY <1>4, <1>6, <1>7, RunOfItems DEF Spans
<1> QED
  BY <1>4, <1>7, <1>8 DEF list, S

\* The window of a numbered chain: its newest events, numbered down from the last.
LEMMA WindowOfChain ==
    ASSUME NEW chain \in Seq(Event), Numbered(chain)
    PROVE  \E w \in Nat :
              /\ w <= Len(chain) /\ (chain # <<>> => w > 0)
              /\ Newest(chain) \in Seq(Event) /\ Len(Newest(chain)) = w
              /\ \A k \in 1..w : Newest(chain)[k].seq = Len(chain) - k + 1
<1> DEFINE n == Len(chain)
           w == IF n < Window THEN n ELSE Window
           back == Reverse(chain)
<1>1. n \in Nat /\ Window \in Nat /\ Window > 0 /\ (chain # <<>> => n > 0)
  BY ChainAssumption
<1>2. w \in Nat /\ w <= n /\ (chain # <<>> => w > 0)
  BY <1>1
<1>3. /\ back = [k \in 1..n |-> chain[(n - k) + 1]]
      /\ \A k \in 1..n : (n - k) + 1 \in 1..n
  BY <1>1 DEF Reverse
<1>4. \A i \in 1..n : chain[i] \in Event /\ chain[i].seq = i
  BY DEF Numbered
<1> HIDE DEF n, back
<1>5. back \in Seq(Event) /\ Len(back) = n /\ \A k \in 1..n : back[k].seq = n - k + 1
  <2>1. \A k \in 1..n : back[k] = chain[(n - k) + 1] /\ back[k] \in Event /\ back[k].seq = n - k + 1
    BY <1>1, <1>3, <1>4
  <2>2. back \in [1..n -> Event]
    BY <1>3, <2>1
  <2> QED
    BY <1>1, <2>1, <2>2
<1>6. Newest(chain) = SubSeq(back, 1, w)
  BY DEF Newest, back, n
<1> HIDE DEF w
<1>7. SubSeq(back, 1, w) = [k \in 1..w |-> back[k]] /\ \A k \in 1..w : k \in 1..n
  BY <1>1, <1>2, <1>5
<1>8. /\ Newest(chain) \in Seq(Event) /\ Len(Newest(chain)) = w
      /\ \A k \in 1..w : Newest(chain)[k].seq = n - k + 1
  <2>1. \A k \in 1..w : back[k] \in Event
    BY <1>5, <1>7
  <2> QED
    BY <1>2, <1>5, <1>6, <1>7, <2>1
<1> QED
  BY <1>2, <1>8 DEF n

\* What is left of the window before the cursor is a run of events.
LEMMA RestOfWindow ==
    ASSUME ViewInv, AuditPage, verdict # "corrupt"
    PROVE  \E lo \in Nat, hi \in Int, bottom \in Nat :
              /\ view' = [FinishPage(NewestFirst({[at |-> s, id |-> 0] : s \in lo..hi})) EXCEPT !.bottom = bottom]
              /\ lo > 0 /\ hi <= Len(events) /\ (lo <= hi => bottom = lo)
              /\ view.cursor # None => hi = view.cursor.at - 1 /\ bottom = lo
<1>0. /\ AuditInv /\ subject = "audit" /\ view.phase = "next" /\ reading # None /\ Typed
      /\ reading.chain \in Seq(Event) /\ Numbered(reading.chain)
      /\ Len(reading.chain) <= Len(events) /\ Len(events) \in Nat /\ Len(reading.chain) \in Nat
  BY DEF ViewInv, ListingInv, ChainInv, ChainTyped, Reading, AuditInv, AuditPage
<1> DEFINE window == Newest(reading.chain)
           n == Len(reading.chain)
           kept == {l \in DOMAIN window : view.cursor = None \/ BeforeSequence(window[l], view.cursor)}
           rest == {window[k] : k \in kept}
           bottom == IF window = <<>> THEN 1 ELSE Last(window).seq
           hi == IF view.cursor = None THEN n ELSE view.cursor.at - 1
<1>1. view' = [FinishPage(NewestFirst({EventItem(e) : e \in rest})) EXCEPT !.bottom = bottom]
  BY DEF AuditPage
<1>2. view.cursor # None => view.cursor.at \in 1..n
  BY <1>0, ItemAssumption DEF AuditInv
<1>3. hi \in Int /\ hi <= n
  BY <1>0, <1>2
<1>4. PICK w \in Nat :
          /\ w <= n /\ (reading.chain # <<>> => w > 0)
          /\ window \in Seq(Event) /\ Len(window) = w
          /\ \A k \in 1..w : window[k].seq = n - k + 1
  BY <1>0, WindowOfChain
<1> DEFINE lo == n - w + 1
<1>5. lo \in Nat /\ lo > 0
  BY <1>0, <1>4
<1>6. n > 0 => window # <<>> /\ bottom = lo
  <2> SUFFICES ASSUME n > 0 PROVE window # <<>> /\ bottom = lo
    OBVIOUS
  <2>1. reading.chain # <<>> /\ w > 0
    BY <1>4
  <2>2. window # <<>> /\ Last(window) = window[w] /\ w \in 1..w
    BY <1>4, <2>1 DEF Last
  <2> QED
    BY <1>4, <2>2
<1>7. bottom \in Nat
  <2>1. CASE n > 0
    BY <1>5, <1>6, <2>1
  <2>2. CASE n = 0
    <3>1. window = <<>>
      BY <1>0, <1>4, <2>2
    <3> QED
      BY <3>1
  <2> QED
    BY <1>0, <2>1, <2>2
<1> HIDE DEF window, n, bottom, hi
<1>8. {EventItem(e) : e \in rest} = {[at |-> s, id |-> 0] : s \in lo..hi}
  <2>0. n \in Nat /\ DOMAIN window = 1..w
    BY <1>0, <1>4 DEF n
  <2>1. \A k \in 1..w : k \in kept <=> n - k + 1 \in lo..hi
    <3>1. CASE view.cursor = None
      <4>1. hi = n /\ kept = 1..w
        BY <2>0, <3>1 DEF hi
      <4> QED
        BY <1>4, <2>0, <4>1
    <3>2. CASE view.cursor # None
      <4>1. hi = view.cursor.at - 1 /\ view.cursor.at \in 1..n
        BY <1>2, <3>2 DEF hi
      <4>2. \A k \in 1..w : k \in kept <=> n - k + 1 < view.cursor.at
        BY <1>4, <2>0, <3>2 DEF BeforeSequence
      <4> QED
        BY <1>4, <2>0, <4>1, <4>2
    <3> QED
      BY <3>1, <3>2
  <2>2. \A k \in kept : k \in 1..w /\ EventItem(window[k]) = [at |-> n - k + 1, id |-> 0]
    BY <1>4, <2>0 DEF EventItem
  <2>3. ASSUME NEW s \in lo..hi
        PROVE  \E k \in kept : EventItem(window[k]) = [at |-> s, id |-> 0]
    <3>1. n - s + 1 \in 1..w /\ n - (n - s + 1) + 1 = s
      BY <1>3, <1>4, <1>5, <2>0
    <3>2. n - s + 1 \in kept
      BY <2>1, <3>1
    <3> QED
      BY <2>2, <3>1, <3>2
  <2>4. \A k \in kept : n - k + 1 \in lo..hi
    BY <2>1, <2>2
  <2> HIDE DEF kept, lo
  <2>5. \A k \in kept : EventItem(window[k]) \in {[at |-> s, id |-> 0] : s \in lo..hi}
    BY <2>2, <2>4
  <2>6. {EventItem(e) : e \in rest} = {EventItem(window[k]) : k \in kept}
    OBVIOUS
  <2>7. \A s \in lo..hi : [at |-> s, id |-> 0] \in {EventItem(window[k]) : k \in kept}
    BY <2>3
  <2> QED
    BY <2>5, <2>6, <2>7
<1>9. /\ hi <= Len(events) /\ (lo <= hi => bottom = lo)
      /\ view.cursor # None => hi = view.cursor.at - 1 /\ bottom = lo
  BY <1>0, <1>2, <1>3, <1>5, <1>6 DEF n, hi
<1> QED
  BY <1>1, <1>3, <1>5, <1>7, <1>8, <1>9

\* A run of consecutive events.
Consecutive(list) == \A k \in 1..(Len(list) - 1) : list[k + 1].at = list[k].at - 1

\* A run that goes on where another ended.
LEMMA JoinedRuns ==
    ASSUME NEW a \in Seq(Item), NEW b \in Seq(Item), Consecutive(a), Consecutive(b),
           a # <<>> /\ b # <<>> => b[1].at = a[Len(a)].at - 1
    PROVE  /\ Consecutive(a \o b) /\ a \o b \in Seq(Item) /\ Len(a \o b) = Len(a) + Len(b)
           /\ b # <<>> => a \o b # <<>> /\ Last(a \o b) = b[Len(b)]
           /\ b = <<>> => a \o b = a
<1> DEFINE joined == a \o b
<1>1. /\ Len(a) \in Nat /\ Len(b) \in Nat /\ joined \in Seq(Item) /\ Len(joined) = Len(a) + Len(b)
      /\ \A k \in 1..(Len(a) + Len(b)) : joined[k] = IF k <= Len(a) THEN a[k] ELSE b[k - Len(a)]
      /\ (a = <<>> => Len(a) = 0) /\ (b = <<>> => Len(b) = 0) /\ (b # <<>> => Len(b) > 0)
      /\ (a # <<>> => Len(a) > 0)
  OBVIOUS
<1>2. b = <<>> => joined = a
  OBVIOUS
<1> HIDE DEF joined
<1>3. Consecutive(joined)
  <2> SUFFICES ASSUME NEW k \in 1..(Len(joined) - 1)
               PROVE  joined[k + 1].at = joined[k].at - 1
    BY DEF Consecutive
  <2>1. CASE k < Len(a)
    <3>1. joined[k] = a[k] /\ joined[k + 1] = a[k + 1] /\ k \in 1..(Len(a) - 1)
      BY <1>1, <2>1
    <3> QED
      BY <3>1 DEF Consecutive
  <2>2. CASE k = Len(a)
    <3>1. /\ k \in 1..(Len(a) + Len(b)) /\ k + 1 \in 1..(Len(a) + Len(b))
          /\ k <= Len(a) /\ ~(k + 1 <= Len(a)) /\ (k + 1) - Len(a) = 1 /\ a # <<>> /\ b # <<>>
      BY <1>1, <2>2
    <3>2. joined[k] = a[Len(a)] /\ joined[k + 1] = b[1]
      BY <1>1, <2>2, <3>1
    <3> QED
      BY <3>1, <3>2
  <2>3. CASE Len(a) < k
    <3>1. /\ joined[k] = b[k - Len(a)] /\ joined[k + 1] = b[(k - Len(a)) + 1]
          /\ k - Len(a) \in 1..(Len(b) - 1)
      BY <1>1, <2>3
    <3> QED
      BY <3>1 DEF Consecutive
  <2> QED
    BY <1>1, <2>1, <2>2, <2>3
<1>4. b # <<>> => joined # <<>> /\ Last(joined) = b[Len(b)]
  BY <1>1 DEF Last
<1> QED
  BY <1>1, <1>2, <1>3, <1>4 DEF joined

\* A page of the audit log goes on where the last one ended, and the list ends at the
\* oldest event of the window.
LEMMA AuditPageKeeps ==
    ASSUME ViewInv, AuditPage
    PROVE  ListingInv'
<1>0. /\ ListingInv /\ Typed /\ RowsInv /\ AskedInv /\ AuditInv
      /\ subject = "audit" /\ view.phase = "next" /\ view.kind = "page" /\ events \in Seq(Event)
  <2>1. view.kind \in {"page", "overview"} /\ Typed /\ AskedInv /\ subject = "audit"
    BY Fields DEF ViewInv, ListingInv, AuditPage
  <2> QED
    BY <2>1 DEF ViewInv, ListingInv, ChainInv, ChainTyped, AuditPage, AskedInv
<1>1. /\ subject' = subject /\ now' = now /\ authority' = authority /\ rows' = rows /\ changes' = changes
      /\ reading' = None /\ verdict' = "none" /\ events' = events
  BY DEF AuditPage
<1>2. CASE verdict = "corrupt"
  <2>1. view' = [view EXCEPT !.phase = "failed"]
    BY <1>2 DEF AuditPage
  <2>2. /\ view' \in View /\ view'.phase = "failed" /\ view'.kind = "page" /\ view'.page = view.page
        /\ view'.filter = view.filter /\ view'.shown = view.shown
    BY <1>0, <2>1 DEF Typed, View
  <2>3. Typed' /\ RowsInv' /\ AskedInv' /\ SteadyInv' /\ QueryInv' /\ PageInv' /\ ShownWasTrue' /\ CountInv'
    BY <1>0, <1>1, <2>2 DEF Typed, RowsInv, AskedInv, SteadyInv, QueryInv, PageInv, ShownWasTrue, CountInv
  <2>4. AuditInv'
    BY <1>0, <1>1, <2>2 DEF AuditInv, AuditPagesContiguous
  <2> QED
    BY <2>3, <2>4 DEF ListingInv
<1>3. CASE verdict # "corrupt"
  <2>1. PICK lo \in Nat, hi \in Int, bottom \in Nat :
              /\ view' = [FinishPage(NewestFirst({[at |-> s, id |-> 0] : s \in lo..hi})) EXCEPT !.bottom = bottom]
              /\ lo > 0 /\ hi <= Len(events) /\ (lo <= hi => bottom = lo)
              /\ view.cursor # None => hi = view.cursor.at - 1 /\ bottom = lo
    BY <1>3, RestOfWindow
  <2> DEFINE list == NewestFirst({[at |-> s, id |-> 0] : s \in lo..hi})
             v == FinishPage(list)
  <2>2. /\ list \in Seq(Item)
        /\ \A k \in DOMAIN list : list[k].at \in lo..hi
        /\ Consecutive(list)
        /\ list # <<>> => list[1].at = hi /\ list[Len(list)].at = lo
        /\ list = <<>> => hi < lo
    BY RunOfEvents DEF Consecutive
  <2>3. view' = [v EXCEPT !.bottom = bottom]
    BY <2>1
  <2> HIDE DEF list
  <2>4. PageMade(v, list)
    BY <1>0, <2>2, PageFinished
  <2> HIDE DEF v
  <2>5. /\ view' \in View /\ view'.page = v.page /\ view'.kind = "page" /\ view'.filter = view.filter
        /\ view'.phase = v.phase /\ view'.shown = v.shown /\ view'.cursor = v.cursor /\ view'.bottom = bottom
    BY <1>0, <2>3, <2>4 DEF PageMade, View
  <2>6. /\ v.page \in Seq(Item) /\ v.shown = view.shown \o v.page /\ Len(v.page) <= Limit
        /\ view.shown \in Seq(Item) /\ v.phase \in {"next", "done"}
    BY <1>0, <2>4, Fields DEF PageMade
  <2>7. Typed' /\ RowsInv' /\ AskedInv' /\ SteadyInv' /\ QueryInv' /\ PageInv' /\ ShownWasTrue' /\ CountInv'
    BY <1>0, <1>1, <2>5, <2>6 DEF Typed, RowsInv, AskedInv, SteadyInv, QueryInv, PageInv, ShownWasTrue, CountInv
  <2>8. Consecutive(v.page) /\ (v.page # <<>> => list # <<>> /\ v.page[1].at = hi)
    <3>1. /\ Len(v.page) \in Nat /\ DOMAIN v.page = 1..Len(v.page) /\ Len(list) \in Nat /\ DOMAIN list = 1..Len(list)
          /\ \A k \in DOMAIN v.page : k \in DOMAIN list /\ v.page[k] = list[k]
      BY <2>2, <2>4, <2>6 DEF PageMade
    <3>2. \A k \in 1..(Len(v.page) - 1) : v.page[k + 1] = list[k + 1] /\ v.page[k] = list[k] /\ k \in 1..(Len(list) - 1)
      BY <3>1
    <3>3. v.page # <<>> => 1 \in DOMAIN v.page
      BY <2>6, <3>1
    <3>4. v.page # <<>> => list # <<>> /\ v.page[1] = list[1]
      BY <3>1, <3>3
    <3>5. Consecutive(v.page)
      BY <2>2, <3>2 DEF Consecutive
    <3> QED
      BY <2>2, <3>4, <3>5
  <2>9. /\ Consecutive(view.shown)
        /\ view.shown # <<>> => /\ view.cursor = view.shown[Len(view.shown)] /\ view.cursor # None
                                /\ view.cursor.at \in Nat
    <3>1. Consecutive(view.shown)
      BY <1>0 DEF AuditInv, AuditPagesContiguous, Consecutive
    <3>2. view.shown # <<>> => view.cursor = view.shown[Len(view.shown)] /\ view.cursor.at \in 1..Len(events)
      BY <1>0 DEF AuditInv, Last
    <3>3. view.shown # <<>> => view.shown[Len(view.shown)] \in Item
      BY <2>6
    <3> QED
      BY <3>1, <3>2, <3>3, ItemAssumption
  <2>10. /\ Consecutive(v.shown)
         /\ v.page # <<>> => v.shown # <<>> /\ Last(v.shown) = v.page[Len(v.page)]
         /\ v.page = <<>> => v.shown = view.shown
    <3>1. view.shown # <<>> /\ v.page # <<>> => v.page[1].at = view.shown[Len(view.shown)].at - 1
      BY <2>1, <2>8, <2>9
    <3> QED
      BY <2>6, <2>8, <2>9, <3>1, JoinedRuns
  <2>11. ASSUME v.phase = "next"
         PROVE  /\ v.shown # <<>> /\ v.cursor = Last(v.shown) /\ v.cursor.at \in 1..Len(events)
    <3>1. Len(list) > Limit
      BY <2>4, <2>11 DEF PageMade
    <3>2. /\ Len(v.page) = Limit /\ v.cursor = v.page[Limit] /\ Limit \in DOMAIN v.page
          /\ Limit \in DOMAIN list /\ v.page[Limit] = list[Limit]
      BY <2>4, <3>1 DEF PageMade
    <3>3. v.page # <<>>
      BY <3>2
    <3>4. v.cursor.at \in lo..hi
      BY <2>2, <3>2
    <3>5. Len(events) \in Nat
      BY <1>0
    <3> QED
      BY <2>1, <2>10, <3>2, <3>3, <3>4, <3>5
  <2>12. ASSUME v.phase = "done", v.shown # <<>>
         PROVE  Last(v.shown).at <= bottom
    <3>1. v.page = list
      BY <2>4, <2>12 DEF PageMade
    <3>2. CASE list # <<>>
      <4>1. Last(v.shown).at = lo
        BY <2>2, <2>10, <3>1, <3>2
      <4>2. lo <= hi
        <5>1. 1 \in DOMAIN list
          BY <2>2, <3>2
        <5> QED
          BY <2>2, <5>1
      <4> QED
        BY <2>1, <4>1, <4>2
    <3>3. CASE list = <<>>
      <4>1. view.shown # <<>> /\ v.shown = view.shown /\ hi < lo
        BY <2>2, <2>10, <2>12, <3>1, <3>3
      <4>2. Last(v.shown) = view.cursor /\ view.cursor.at \in Nat /\ hi = view.cursor.at - 1 /\ bottom = lo
        BY <2>1, <2>9, <4>1 DEF Last
      <4> QED
        BY <4>1, <4>2
    <3> QED
      BY <3>2, <3>3
  <2>13. AuditPagesContiguous'
    BY <2>5, <2>10, <2>12 DEF AuditPagesContiguous, Consecutive
  <2>14. AuditInv'
    BY <1>1, <2>5, <2>6, <2>11, <2>13 DEF AuditInv
  <2> QED
    BY <2>7, <2>14 DEF ListingInv
<1> QED
  BY <1>2, <1>3

-----------------------------------------------------------------------------
(* What an operator reads *)

\* Every step keeps the invariant, one case for each kind of step.
LEMMA ViewKept == ViewInv /\ [Next]_vars => ViewInv'
<1> SUFFICES ASSUME ViewInv, [Next]_vars PROVE ViewInv'
  OBVIOUS
<1>1. ChainInv' /\ ChainBounds' /\ Len(events) <= Len(events')
  BY ChainKept, ChainBoundsKept DEF ViewInv
<1>2. ListingInv
  BY DEF ViewInv
<1>3. ASSUME Tick \/ RevokeAll \/ Enable \/ \E i \in Ids : Insert(i) \/ Move(i) PROVE ListingInv'
  BY <1>2, <1>3, InsertDrifts, MoveDrifts, OthersDrift, DriftKeeps
<1>4. ASSUME Ask \/ AuthoritySnapshot \/ Page \/ Overview \/ RecentFailures PROVE ListingInv'
  BY <1>2, <1>4, AskKeeps, SnapshotKeeps, PageKeeps, OverviewKeeps, RecentKeeps
<1>5. ASSUME Chain \/ AuditRead \/ AuditPage PROVE ListingInv'
  BY <1>1, <1>5, ChainKeepsListing, AuditPageKeeps
<1>6. ASSUME UNCHANGED vars PROVE ListingInv'
  <2>1. UNCHANGED <<subject, now, authority, rows, changes, view>> /\ reading' = reading /\ verdict' = verdict
        /\ events' = events
    BY <1>6 DEF vars, chainVars
  <2>2. AuditInv'
    BY <1>2, <2>1 DEF ListingInv, AuditInv, AuditPagesContiguous
  <2> QED
    BY <1>2, <2>1, <2>2, SameView DEF ListingInv
<1>7. ListingInv'
  BY <1>3, <1>4, <1>5, <1>6 DEF Next
<1> QED
  BY <1>1, <1>7 DEF ViewInv

\* Pagination is stable for every table, page size and number of rows: rows come in
\* descending order, each once, and what stays in the filter's state is not skipped;
\* pages of the audit log are one run of events down to the end of the window.
THEOREM PaginationIsStable == Spec => []StablePages
<1>1. ViewInv => StablePages
  <2> SUFFICES ASSUME ViewInv PROVE StablePages
    OBVIOUS
  <2>1. RowPagesStable
    BY DEF ViewInv, ListingInv, PageInv, Descending, RowPagesStable
  <2>2. AuditPagesContiguous
    BY DEF ViewInv, ListingInv, AuditInv, AuditPagesContiguous
  <2> QED
    BY <2>1, <2>2 DEF StablePages
<1> QED
  BY <1>1, ViewStarts, ViewKept, PTL DEF Spec

\* What an operator sees was so: a row is shown in a state only if it was in it since
\* the request began, and the overview's counts and failures agree with the table.
THEOREM ViewIsTruthful == Spec => []TruthfulView
<1>1. ViewInv => TruthfulView
  <2> SUFFICES ASSUME ViewInv PROVE TruthfulView
    OBVIOUS
  <2>1. TypeOK
    BY ChainTypes DEF ViewInv, ListingInv, Typed, TypeOK
  <2>2. ShownWasTrue /\ OverviewWasTrue
    BY DEF ViewInv, ListingInv, CountInv, OverviewWasTrue
  <2> QED
    BY <2>1, <2>2 DEF TruthfulView
<1> QED
  BY <1>1, ViewStarts, ViewKept, PTL DEF Spec

=============================================================================

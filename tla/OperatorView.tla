---------------------------- MODULE OperatorView ----------------------------
(***************************************************************************)
(* What an operator reads: pages of grants, approvals, jobs or audit        *)
(* events, and the counts of the overview, while the system moves on.       *)
(*                                                                         *)
(* A listing is a chain of requests.  Each starts from the cursor of the    *)
(* one before, the time and id of the last row it returned, and sees the    *)
(* rows of its own moment.  A request for grants reads the authority first  *)
(* and the rows in another statement.  Both readers, of the files and of    *)
(* PostgreSQL, are modelled; they differ in the clock of a grant's state,   *)
(* in the overview and in the audit chain.  A behaviour is one listing or   *)
(* one overview of one table.                                               *)
(***************************************************************************)
EXTENDS AuditChain, FiniteSetsExt

CONSTANTS
    Ids,        \* row ids, drawn at random by the code: their order is not of time
    Limit,      \* rows of a page, after Normalized
    Recent,     \* failed jobs of the overview (5)
    TTL,        \* life of a grant
    JobStarts,  \* bound: the status of a job when the operator asks
    MaxTime,    \* bound: the clock
    MaxEpoch,   \* bound: revocations of everything
    MaxChanges  \* bound: changes to the table during the listing

JobStatuses == {"staged", "pending", "claimed", "running", "succeeded", "failed", "canceled", "expired"}

ASSUME ViewAssumption ==
    /\ Ids \subseteq Nat /\ IsFiniteSet(Ids)
    /\ Limit \in Nat \ {0} /\ Recent \in Nat \ {0}
    /\ JobStarts \subseteq JobStatuses
    /\ TTL \in Nat \ {0, 1}   \* 30 seconds or more: a grant outlives the transaction that inserts it
    /\ MaxTime \in Nat /\ TTL <= MaxTime /\ MaxEpoch \in Nat /\ MaxChanges \in Nat

VARIABLES
    subject,    \* the table that is read
    now,        \* the clock
    authority,  \* the global authority: epoch and kill switch
    rows,       \* rows[i]: a row of the table, or None
    changes,    \* changes to the table so far
    view        \* the listing

vars == <<chainVars, subject, now, authority, rows, changes, view>>

Tables == {"grants", "approvals", "jobs", "audit"}

GrantStates == {"active", "disabled", "stale_epoch", "revoked", "expired"}

\* How the status of a row may change.
Moves ==
    [grants    |-> {<<"issued", "revoked">>},
     approvals |-> {<<"pending", "decided">>, <<"decided", "consumed">>},
     jobs      |-> {<<"staged", "pending">>, <<"pending", "claimed">>, <<"claimed", "running">>,
                    <<"running", "succeeded">>, <<"running", "failed">>}
                   \cup ({"staged", "pending", "claimed", "running"} \X {"canceled", "expired"}),
     audit     |-> {}]

FirstStatus == [grants |-> "issued", approvals |-> "pending", jobs |-> "staged"]

\* Filters of a listing; "any" is the absent filter, which lists every row.
Filters == [grants    |-> GrantStates \cup {"any"},
            approvals |-> {"pending", "decided", "consumed", "any"},
            jobs      |-> JobStatuses \cup {"any"},
            audit     |-> {"any"}]

\* The count of the overview that is followed here.
Counted == [grants |-> "active", approvals |-> "pending", jobs |-> "failed"]

Row == [at : 0..MaxTime, status : JobStatuses \cup {"issued", "revoked", "decided", "consumed"},
        epoch : 0..MaxEpoch, expires : Nat]

Authority == [epoch : 0..MaxEpoch, disabled : BOOLEAN]

\* What a page shows of a row; for an event the time is its sequence number.
Item == [at : Nat, id : Nat]

\* The absent value is not a row, in the table or on a page.
ASSUME ItemAssumption == None \notin Row /\ None \notin Item

View ==
    [kind   : {"page", "overview"},
     phase  : {"closed", "next", "query", "recent", "done", "failed"},
     filter : GrantStates \cup JobStatuses \cup {"decided", "consumed", "any"},
     cursor : Item \cup {None},                            \* of the next request
     snap   : [authority : Authority, now : 0..MaxTime],  \* of this request
     present : SUBSET Ids,                                 \* history: rows at that moment
     page   : Seq(Item),                                   \* of the last request
     shown  : Seq(Item),                                   \* of all requests
     count  : Nat,
     steady : SUBSET Ids,   \* history: in the filter's state all along the listing
     ever   : SUBSET Ids,   \* history: in it at some moment since this request
     bottom : Nat]          \* history: the oldest event of the last read's window

Snapshot == [authority |-> authority, now |-> now]

Closed == [kind |-> "page", phase |-> "closed", filter |-> "any", cursor |-> None, snap |-> Snapshot, present |-> {},
           page |-> <<>>, shown |-> <<>>, count |-> 0, steady |-> {}, ever |-> {}, bottom |-> 1]

TypeOK ==
    /\ ChainTypeOK
    /\ subject \in Tables
    /\ now \in 0..MaxTime
    /\ authority \in Authority
    /\ rows \in [Ids -> Row \cup {None}]
    /\ changes \in 0..MaxChanges
    /\ view \in View
    /\ Len(view.page) <= Limit

\* A row as some earlier insertion and its later moves may have left it.  No grant
\* is issued while the authority is disabled.  The oldest grants have just expired.
Earlier == [at : {0, 1}, expires : {TTL, TTL + 1},
            epoch : IF subject = "grants" THEN 0..authority.epoch ELSE {0},
            status : CASE subject = "grants"    -> {"issued", "revoked"}
                       [] subject = "approvals" -> {"pending", "decided", "consumed"}
                       [] subject = "jobs"      -> JobStarts
                       [] subject = "audit"     -> {}]

Init ==
    /\ ChainInit
    /\ subject \in Tables
    /\ now = TTL
    /\ authority \in [epoch : IF subject = "grants" THEN 0..MaxEpoch ELSE {0}, disabled : BOOLEAN]
    /\ authority.disabled => authority.epoch > 0
    /\ rows \in [Ids -> {None} \cup {row \in Earlier :
            /\ row.expires = row.at + TTL
            /\ authority.disabled => row.epoch < authority.epoch}]
    /\ changes = 0
    /\ view = Closed

Open == view.phase \in {"next", "query", "recent"}

-----------------------------------------------------------------------------
(* The state of a grant: as Authenticate decides it, and as the view derives it *)

\* A row is in state s by what the rest of the system goes by.
In(row, s, auth, time) ==
    LET revoked == row.status = "revoked"
        expired == time >= row.expires
        old     == row.epoch < auth.epoch
    IN  \/ s = "any"
        \/ subject # "grants" /\ row.status = s
        \/ subject = "grants" /\ CASE s = "active"      -> ~revoked /\ ~expired /\ ~old /\ ~auth.disabled
                                   [] s = "disabled"    -> ~revoked /\ ~expired /\ ~old /\ auth.disabled
                                   [] s = "stale_epoch" -> ~revoked /\ ~expired /\ old
                                   [] s = "expired"     -> ~revoked /\ expired
                                   [] s = "revoked"     -> revoked

Matching(s, table, auth, time) == {i \in Ids : table[i] # None /\ In(table[i], s, auth, time)}

MatchingNow(s) == Matching(s, rows, authority, now)

DeriveGrantState(row, auth, time) ==
    IF row.status = "revoked" THEN "revoked"
    ELSE IF time >= row.expires THEN "expired"
    ELSE IF row.epoch # auth.epoch THEN "stale_epoch"
    ELSE IF auth.disabled THEN "disabled" ELSE "active"

-----------------------------------------------------------------------------
(* The system moves on *)

\* The history of the listing follows every change.
Follow ==
    LET matching == Matching(view.filter, rows', authority', now') IN
    view' = [view EXCEPT !.steady = @ \cap matching, !.ever = @ \cup matching]

\* The table changes while the listing is under way.
Change ==
    /\ Open /\ subject # "audit"
    /\ changes < MaxChanges /\ changes' = changes + 1

Tick ==
    /\ Change
    /\ now < MaxTime
    /\ now' = now + 1
    /\ UNCHANGED <<chainVars, subject, authority, rows>>
    /\ Follow

\* The time of a row is read before its transaction commits: a row may appear
\* behind one with a later time, and two may have the same.
Insert(i) ==
    /\ Change
    /\ rows[i] = None
    /\ subject = "grants" => ~authority.disabled
    /\ \E at \in {now, now - 1} \cap Nat :
        rows' = [rows EXCEPT ![i] =
            [at |-> at, expires |-> at + TTL, epoch |-> authority.epoch,
             status |-> FirstStatus[subject]]]
    /\ UNCHANGED <<chainVars, subject, now, authority>>
    /\ Follow

Move(i) ==
    /\ Change
    /\ rows[i] # None
    /\ \E m \in Moves[subject] :
        /\ rows[i].status = m[1]
        /\ rows' = [rows EXCEPT ![i].status = m[2]]
    /\ UNCHANGED <<chainVars, subject, now, authority>>
    /\ Follow

RevokeAll ==
    /\ Change
    /\ subject \in {"grants", "jobs"} /\ authority.epoch < MaxEpoch
    /\ authority' = [epoch |-> authority.epoch + 1, disabled |-> TRUE]
    /\ rows' = [i \in Ids |->
        IF rows[i] # None /\ rows[i].status \in {"staged", "pending", "claimed"}
        THEN [rows[i] EXCEPT !.status = "canceled"] ELSE rows[i]]
    /\ UNCHANGED <<chainVars, subject, now>>
    /\ Follow

Enable ==
    /\ Change
    /\ authority.disabled
    /\ authority' = [authority EXCEPT !.disabled = FALSE]
    /\ UNCHANGED <<chainVars, subject, now, rows>>
    /\ Follow

-----------------------------------------------------------------------------
(* Requests *)

\* The operator asks for a list, or for the overview.
Ask ==
    /\ view.phase = "closed"
    /\ \/ \E f \in Filters[subject] :
            view' = [view EXCEPT !.phase = "next", !.filter = f, !.steady = MatchingNow(f)]
       \/ /\ subject # "audit"
          /\ view' = [view EXCEPT !.phase = "next", !.kind = "overview",
                                  !.filter = Counted[subject], !.steady = MatchingNow(Counted[subject])]
    /\ UNCHANGED <<chainVars, subject, now, authority, rows, changes>>

Request(snap) == [view EXCEPT !.phase = "query", !.snap = snap, !.page = <<>>,
                              !.present = MatchingNow("any"), !.ever = MatchingNow(view.filter)]

FaultSnapshotOnce ==
    /\ view.phase = "next" /\ subject # "audit"
    /\ view' = Request(IF view.cursor = None THEN Snapshot ELSE view.snap)
    /\ UNCHANGED <<chainVars, subject, now, authority, rows, changes>>

\* A request starts; for grants and the overview it reads the authority.
AuthoritySnapshot ==
    /\ view.phase = "next" /\ subject # "audit"
    /\ view' = Request(Snapshot)
    /\ UNCHANGED <<chainVars, subject, now, authority, rows, changes>>

\* The clock of the states: PostgreSQL returns it with the authority, the file
\* reader reads it later.
Clocks == IF backend = "postgres" THEN {view.snap.now} ELSE view.snap.now..now

Later(a, b) == b.at < a.at \/ (b.at = a.at /\ b.id < a.id)

FaultTimeOnly(item, cursor) == item.at < cursor.at

\* beforeTimeCursor, and the same predicate in SQL.
BeforeTimeCursor(item, cursor) ==
    item.at < cursor.at \/ (item.at = cursor.at /\ item.id < cursor.id)

\* Derived(i, t): row i is returned for the filter, at clock t.
Derived(i, t) ==
    \/ view.filter = "any"
    \/ subject = "grants" /\ DeriveGrantState(rows[i], view.snap.authority, t) = view.filter
    \/ subject # "grants" /\ rows[i].status = view.filter

ItemOf(i) == [at |-> rows[i].at, id |-> i]

\* The rows that match the filter.
Selected(t) == {ItemOf(i) : i \in {j \in Ids : rows[j] # None /\ Derived(j, t)}}

\* The sort of the readers, and ORDER BY: the items as a list, newest first.
NewestFirst(items) ==
    CHOOSE list \in [1..Cardinality(items) -> items] :
        \A k, l \in DOMAIN list : k < l => Later(list[k], list[l])

FaultKeepsProbe(items) ==
    LET full == SubSeq(items, 1, Min({Limit + 1, Len(items)})) IN
    [view EXCEPT !.page = full, !.shown = @ \o full,
                 !.cursor = IF Len(items) > Limit THEN Last(full) ELSE None,
                 !.phase = IF Len(items) > Limit THEN "next" ELSE "done"]

\* One row more than the limit is fetched to see whether there is a next page; the
\* cursor is the last row that is shown.
FinishPage(items) ==
    LET more == Len(items) > Limit
        page == IF more THEN SubSeq(items, 1, Limit) ELSE items
    IN  [view EXCEPT !.page = page, !.shown = @ \o page,
                     !.cursor = IF more THEN Last(page) ELSE None,
                     !.phase = IF more THEN "next" ELSE "done"]

Page ==
    /\ view.kind = "page" /\ view.phase = "query" /\ subject # "audit"
    /\ \E t \in Clocks :
        view' = FinishPage(NewestFirst({item \in Selected(t) :
                    view.cursor = None \/ BeforeTimeCursor(item, view.cursor)}))
    /\ UNCHANGED <<chainVars, subject, now, authority, rows, changes>>

RecentOf(items) == SubSeq(NewestFirst(items), 1, Min({Recent, Cardinality(items)}))

FaultCountsExpired ==
    /\ view.kind = "overview" /\ view.phase = "query"
    /\ view' = [view EXCEPT !.phase = "done", !.count = Cardinality({i \in Ids :
                   rows[i] # None /\ IF subject = "grants" THEN rows[i].status = "issued" ELSE Derived(i, now)})]
    /\ UNCHANGED <<chainVars, subject, now, authority, rows, changes>>

\* Overview counts the rows.  The files' list of jobs also yields the recent
\* failures; PostgreSQL needs another statement.
Overview ==
    /\ view.kind = "overview" /\ view.phase = "query"
    /\ \E t \in Clocks :
        view' = [view EXCEPT !.count = Cardinality(Selected(t)),
                             !.shown = IF backend = "file" /\ subject = "jobs" THEN RecentOf(Selected(t)) ELSE <<>>,
                             !.phase = IF backend = "postgres" /\ subject = "jobs" THEN "recent" ELSE "done"]
    /\ UNCHANGED <<chainVars, subject, now, authority, rows, changes>>

RecentFailures ==
    /\ view.phase = "recent"
    /\ view' = [view EXCEPT !.shown = RecentOf(Selected(now)), !.phase = "done"]
    /\ UNCHANGED <<chainVars, subject, now, authority, rows, changes>>

-----------------------------------------------------------------------------
(* Audit pages *)

AuditRead ==
    /\ subject = "audit" /\ view.phase = "next"
    /\ ReadNext
    /\ UNCHANGED <<subject, now, authority, rows, changes, view>>

FaultAtSequence(event, cursor) == event.seq <= cursor.at

BeforeSequence(event, cursor) == event.seq < cursor.at

EventItem(event) == [at |-> event.seq, id |-> 0]

\* The page is cut from the window of newest events; a chain that does not verify
\* is an error.  The order of a verified chain is that of its numbers.
AuditPage ==
    /\ subject = "audit" /\ view.phase = "next" /\ verdict # "none"
    /\ LET window == Newest(reading.chain)
           rest   == {window[k] : k \in {l \in DOMAIN window :
                        view.cursor = None \/ BeforeSequence(window[l], view.cursor)}}
       IN  view' = IF verdict = "corrupt" THEN [view EXCEPT !.phase = "failed"]
                   ELSE [FinishPage(NewestFirst({EventItem(e) : e \in rest}))
                             EXCEPT !.bottom = IF window = <<>> THEN 1 ELSE Last(window).seq]
    /\ reading' = None /\ verdict' = "none"
    /\ UNCHANGED <<backend, events, head, ragged, up, pending, built, failures, acked, littered>>
    /\ UNCHANGED <<subject, now, authority, rows, changes>>

Chain == subject = "audit" /\ view.phase \in {"closed", "next"} /\ ChainNext /\ UNCHANGED <<subject, now, authority, rows, changes, view>>

Next ==
    \/ Tick \/ RevokeAll \/ Enable
    \/ \E i \in Ids : Insert(i) \/ Move(i)
    \/ Ask \/ AuthoritySnapshot \/ Page \/ Overview \/ RecentFailures
    \/ Chain \/ AuditRead \/ AuditPage

Spec == Init /\ [][Next]_vars

-----------------------------------------------------------------------------
(* Properties *)

Shown == {view.shown[k].id : k \in DOMAIN view.shown}

\* Pagination is stable (docs/OPERATOR_UI.md): whatever is inserted or changed
\* between the requests, rows come in strictly descending order, none twice, and
\* when the list ends every row that was there at its start and stayed in the
\* filter's state has been shown.
RowPagesStable ==
    view.kind = "page" /\ subject # "audit" =>
        /\ \A k, l \in DOMAIN view.shown : k < l => Later(view.shown[k], view.shown[l])
        /\ view.phase = "done" => view.steady \subseteq Shown

\* The authority and the rows are read at different moments, but a row is shown in a
\* state only if it was in that state at some moment of the request.  The one
\* exception is a grant issued since the authority was read, which may be shown as
\* disabled or stale; nothing is shown as active that never was.
ShownWasTrue ==
    view.kind = "page" /\ subject # "audit" =>
        \A k \in DOMAIN view.page :
            LET i == view.page[k].id IN
            \/ i \in view.ever
            \/ view.filter \in {"stale_epoch", "disabled"} /\ i \notin view.present

\* A count of the overview lies between the rows that were in the counted state all
\* along and those that were in it at some moment, and the failures shown beside the
\* count of failed jobs are no fewer than it.
OverviewWasTrue ==
    view.kind = "overview" /\ view.phase = "done" =>
        /\ Cardinality(view.steady) <= view.count /\ view.count <= Cardinality(view.ever)
        /\ subject = "jobs" => Min({view.count, Recent}) <= Len(view.shown)

\* What an operator sees was so: the two properties above, over well-typed states.
TruthfulView ==
    /\ TypeOK
    /\ ShownWasTrue
    /\ OverviewWasTrue

\* Pages of the audit log are one run of consecutive events, newest first, however
\* many are appended between the requests; when the list ends it has reached the
\* oldest event of the window the last request could see.
AuditPagesContiguous ==
    subject = "audit" =>
        /\ \A k \in 1..(Len(view.shown) - 1) : view.shown[k + 1].at = view.shown[k].at - 1
        /\ view.phase = "done" /\ view.shown # <<>> => Last(view.shown).at <= view.bottom

\* Pagination is stable, for the tables and for the audit log: a page never
\* repeats or skips what stays in its list.
StablePages == RowPagesStable /\ AuditPagesContiguous

=============================================================================

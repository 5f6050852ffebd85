---------------------------- MODULE IssueLifecycle ----------------------------
(***************************************************************************)
(* The life of the issues of one house in issue-service: creation,         *)
(* confirmations by neighbours, status changes, versioned statements, the  *)
(* timeline, the detailed view and the paged list.                         *)
(*                                                                         *)
(* A command is a PostgreSQL transaction (READ COMMITTED): it locks the    *)
(* row of the issue with FOR UPDATE, reads, and commits what it writes.    *)
(* Nothing is read before the lock, so a command begins when it gets it.   *)
(* CreateIssue has no row to lock, and takes its time before.  The list    *)
(* runs without a transaction, a statement for each page.                  *)
(*                                                                         *)
(* emit writes the outbox row together with the timeline row, with the     *)
(* same contents; one record stands for both.  Photos are in               *)
(* AttachmentUpload.  Requests for another house are refused.              *)
(***************************************************************************)
EXTENDS Naturals, FiniteSets

CONSTANTS
    Users,
    Issues,         \* ids, in their order
    Requests,       \* requests in progress at the same time
    MaxTime,        \* bound: last value of the clock
    MaxLists,       \* bound: lists read at the same time; they do not meet
    PageSize

ASSUME IssuesAssumption == Issues \subseteq Nat \ {0}
ASSUME BoundsAssumption == MaxTime \in Nat /\ MaxLists \in Nat
ASSUME PageAssumption == PageSize \in Nat \ {0}
ASSUME FiniteAssumption == IsFiniteSet(Users) /\ IsFiniteSet(Issues)

VARIABLES
    issue,          \* issues, with their confirmations_count
    confirmed,      \* confirmations: pairs of an issue and a user
    timeline,       \* timeline_events (and outbox_events)
    statements,     \* statement_drafts
    request,        \* requests: transaction, lock and local variables
    clock,          \* now() of the service
    due             \* history: open issues a list must show

vars == <<issue, confirmed, timeline, statements, request, clock, due>>
tables == <<issue, confirmed, timeline, statements>>

Roles == {"RESIDENT", "CHAIRMAN", "ADMIN"}
Successor == [DETECTED |-> "CONFIRMING", CONFIRMING |-> "READY_FOR_APPEAL",
              READY_FOR_APPEAL |-> "HANDED_TO_CHAIRMAN",
              HANDED_TO_CHAIRMAN |-> "MARKED_SENT",
              MARKED_SENT |-> "WAITING_RESULT", WAITING_RESULT |-> "RESOLVED",
              RESOLVED |-> "NONE"]

CanManage(role) == role \in {"CHAIRMAN", "ADMIN"}

\* The statuses a manager may choose next.
Transition(status, role) ==
    ({Successor[status]} \ {"NONE"})
    \cup (IF status \in {"DETECTED", "CONFIRMING"} THEN {"RESOLVED"} ELSE {})
    \cup (IF role = "ADMIN" /\ status = "RESOLVED" THEN {"CONFIRMING"} ELSE {})

NoIssue == [status |-> "NONE", by |-> "NONE", count |-> 0, createdAt |-> 0, resolvedAt |-> 0]
Exists(i) == issue[i].status # "NONE"

\* Timeline rows; n is the count of a confirmation, the version of a statement.
Created(i, at) == [issue |-> i, type |-> "issue.created", at |-> at,
                   from |-> "NONE", to |-> "DETECTED", n |-> 0]
Confirmed(i, at, n) == [issue |-> i, type |-> "issue.confirmed", at |-> at,
                        from |-> "NONE", to |-> "NONE", n |-> n]
StatusChanged(i, at, from, to) == [issue |-> i, type |-> "issue.status_changed",
                                   at |-> at, from |-> from, to |-> to, n |-> 0]
Generated(i, at, n) == [issue |-> i, type |-> "statement.generated", at |-> at,
                        from |-> "NONE", to |-> "NONE", n |-> n]

Of(i, type) == {e \in timeline : e.issue = i /\ e.type = type}

\* A request: the operation, its place in it, the issue, what it read of it,
\* and what it is about to return.  Who changes a status or asks for a
\* statement makes no difference beyond the role.
Idle == [op |-> "none", pc |-> "idle", issue |-> 0, user |-> "NONE", now |-> 0,
         status |-> "NONE", count |-> 0, target |-> "NONE", version |-> 0,
         mine |-> FALSE, seen |-> {}, again |-> FALSE, cursor |-> 0]

\* Fault: a reader of the details does not hold its lock.
HoldsToWrite(q, i) == /\ request[q].issue = i /\ request[q].pc # "idle"
                      /\ request[q].op \in {"confirm", "status", "statement"}

\* Fault: the row is read without FOR UPDATE.
HoldsNothing(q, i) == FALSE

\* Request q holds the lock of issue i.
Holds(q, i) == /\ request[q].issue = i /\ request[q].pc # "idle"
               /\ request[q].op \in {"confirm", "status", "statement", "details"}

\* lookupIssue: request r locks issue i and reads it.
Lookup(r, i) ==
    /\ request[r] = Idle
    /\ Exists(i)
    /\ \A q \in Requests \ {r} : ~Holds(q, i)

Locked(op, i, u) ==
    [Idle EXCEPT !.op = op, !.pc = "locked", !.issue = i, !.user = u,
                 !.status = issue[i].status, !.count = issue[i].count]

Tick == clock < MaxTime /\ clock' = clock + 1

-----------------------------------------------------------------------------
(* CreateIssue.                                                            *)

\* The time is taken before the transaction; two issues may have the same.
BeginCreate(r, i, u) ==
    /\ request[r] = Idle
    /\ ~Exists(i) /\ \A q \in Requests : request[q].issue # i
    /\ \/ Tick
       \/ clock > 0 /\ UNCHANGED clock
    /\ request' = [request EXCEPT ![r] = [Idle EXCEPT !.op = "create", !.pc = "locked",
                                             !.issue = i, !.user = u, !.now = clock']]
    /\ UNCHANGED <<tables, due>>

CommitCreate(r) ==
    LET k == request[r] IN
    /\ k.op = "create"
    /\ issue' = [issue EXCEPT ![k.issue] =
                    [NoIssue EXCEPT !.status = "DETECTED", !.by = k.user, !.createdAt = k.now]]
    /\ timeline' = timeline \cup {Created(k.issue, k.now)}
    /\ request' = [request EXCEPT ![r] = Idle]
    /\ UNCHANGED <<confirmed, statements, clock, due>>

-----------------------------------------------------------------------------
(* ConfirmIssue.                                                           *)

BeginConfirm(r, i, u) ==
    /\ Lookup(r, i)
    /\ issue[i].by # u
    /\ Tick
    /\ request' = [request EXCEPT ![r] = [Locked("confirm", i, u) EXCEPT !.now = clock']]
    /\ UNCHANGED <<tables, due>>

\* Fault: no primary key.
NeverConfirmed(i, u) == FALSE

\* The primary key of confirmations refuses the INSERT.
AlreadyConfirmed(i, u) == <<i, u>> \in confirmed

\* AddConfirmation increments the stored count, it does not write the one read.
CommitConfirm(r) ==
    LET k == request[r]
        n == issue[k.issue].count + 1 IN
    /\ k.op = "confirm"
    /\ ~AlreadyConfirmed(k.issue, k.user)
    /\ confirmed' = confirmed \cup {<<k.issue, k.user>>}
    /\ issue' = [issue EXCEPT ![k.issue].count = n]
    /\ timeline' = timeline \cup {Confirmed(k.issue, k.now, n)}
    /\ request' = [request EXCEPT ![r] = Idle]
    /\ UNCHANGED <<statements, clock, due>>

-----------------------------------------------------------------------------
(* UpdateIssueStatus.                                                      *)

BeginStatus(r, i) ==
    /\ Lookup(r, i)
    /\ Tick
    /\ \E role \in {role \in Roles : CanManage(role)} :
         \E target \in Transition(issue[i].status, role) :
           request' = [request EXCEPT ![r] = [Locked("status", i, "NONE") EXCEPT
                                                !.now = clock', !.target = target]]
    /\ UNCHANGED <<tables, due>>

ResolvedAt(k) == IF k.target = "RESOLVED" THEN k.now ELSE 0

\* ChangeStatus writes the status chosen from the one read.
CommitStatus(r) ==
    LET k == request[r] IN
    /\ k.op = "status"
    /\ issue' = [issue EXCEPT ![k.issue].status = k.target,
                              ![k.issue].resolvedAt = ResolvedAt(k)]
    /\ timeline' = timeline \cup {StatusChanged(k.issue, k.now, k.status, k.target)}
    /\ due' = IF k.target = "RESOLVED" THEN [q \in Requests |-> due[q] \ {k.issue}] ELSE due
    /\ request' = [request EXCEPT ![r] = Idle]
    /\ UNCHANGED <<confirmed, statements, clock>>

-----------------------------------------------------------------------------
(* GenerateStatement.                                                      *)

Versions(i) == {s.version : s \in {s \in statements : s.issue = i}}

\* Fault: the latest statement of any issue.
LatestOfAll(i) ==
    IF statements = {} THEN 0
    ELSE CHOOSE v \in {s.version : s \in statements} : \A s \in statements : s.version <= v

LatestStatement(i) ==
    IF Versions(i) = {} THEN 0 ELSE CHOOSE v \in Versions(i) : \A w \in Versions(i) : w <= v

NextVersion(i) == LatestStatement(i) + 1

\* A manager asks for it.
BeginStatement(r, i) ==
    /\ Lookup(r, i)
    /\ Tick
    /\ request' = [request EXCEPT ![r] = [Locked("statement", i, "NONE") EXCEPT
                                             !.now = clock', !.version = NextVersion(i)]]
    /\ UNCHANGED <<tables, due>>

\* UNIQUE(issue_id, version) refuses a number that is taken.
CommitStatement(r) ==
    LET k == request[r] IN
    /\ k.op = "statement"
    /\ k.version \notin Versions(k.issue)
    /\ statements' = statements \cup
           {[issue |-> k.issue, version |-> k.version, count |-> k.count, at |-> k.now]}
    /\ timeline' = timeline \cup {Generated(k.issue, k.now, k.version)}
    /\ request' = [request EXCEPT ![r] = Idle]
    /\ UNCHANGED <<issue, confirmed, clock, due>>

-----------------------------------------------------------------------------
(* GetIssue: a statement for each part of the details, under the lock.     *)

BeginDetails(r, i, u) ==
    /\ Lookup(r, i)
    /\ request' = [request EXCEPT ![r] = Locked("details", i, u)]
    /\ UNCHANGED <<tables, clock, due>>

ReadConfirmed(r) ==
    LET k == request[r] IN
    /\ k.op = "details" /\ k.pc = "locked"
    /\ request' = [request EXCEPT ![r].mine = <<k.issue, k.user>> \in confirmed,
                                  ![r].pc = "confirmed"]
    /\ UNCHANGED <<tables, clock, due>>

ReadTimeline(r) ==
    LET k == request[r] IN
    /\ k.op = "details" /\ k.pc = "confirmed"
    /\ request' = [request EXCEPT ![r].seen = {e \in timeline : e.issue = k.issue},
                                  ![r].pc = "timeline"]
    /\ UNCHANGED <<tables, clock, due>>

ReadStatement(r) ==
    LET k == request[r] IN
    /\ k.op = "details" /\ k.pc = "timeline"
    /\ request' = [request EXCEPT ![r].version = LatestStatement(k.issue), ![r].pc = "done"]
    /\ UNCHANGED <<tables, clock, due>>

-----------------------------------------------------------------------------
(* ListIssues, the queue of the chairman: issues that are not resolved,    *)
(* the newest first, PageSize at a time.                                   *)

Newer(i, j) == \/ issue[i].createdAt > issue[j].createdAt
               \/ issue[i].createdAt = issue[j].createdAt /\ i > j

Open(i) == issue[i].status \notin {"NONE", "RESOLVED"}

\* Fault: the cursor holds the time only.
AfterTime(i, j) == issue[i].createdAt < issue[j].createdAt

\* (created_at, id) < cursor.
After(i, j) == Newer(j, i)

BeginList(r) ==
    /\ request[r] = Idle
    /\ Cardinality({q \in Requests : request[q].op = "list"}) < MaxLists
    /\ request' = [request EXCEPT ![r] = [Idle EXCEPT !.op = "list", !.pc = "page"]]
    /\ due' = [due EXCEPT ![r] = {i \in Issues : Open(i)}]
    /\ UNCHANGED <<tables, clock>>

\* The rows of the list after the cursor; no cursor on the first page.
Rest(cursor) == {i \in Issues : Open(i) /\ (cursor # 0 => After(i, cursor))}

\* A page, the newest of the rest, and the cursor: its last row, or none if
\* nothing follows.
NextPage(r) ==
    LET rest == Rest(request[r].cursor)
        page == {i \in rest : Cardinality({j \in rest : Newer(j, i)}) < PageSize}
        more == rest # page IN
    /\ request[r].op = "list" /\ request[r].pc = "page"
    /\ request' = [request EXCEPT
           ![r].seen = @ \cup page,
           ![r].again = @ \/ request[r].seen \cap page # {},
           ![r].cursor = IF more THEN CHOOSE i \in page : \A j \in page \ {i} : Newer(j, i) ELSE 0,
           ![r].pc = IF more THEN "page" ELSE "done"]
    /\ UNCHANGED <<tables, clock, due>>

-----------------------------------------------------------------------------
\* The request ends: its result was returned, a constraint or another error
\* rolled it back, or it was cancelled.
End(r) ==
    /\ request[r] # Idle
    /\ request' = [request EXCEPT ![r] = Idle]
    /\ due' = [due EXCEPT ![r] = {}]
    /\ UNCHANGED <<tables, clock>>

LifecycleInit ==
    /\ issue = [i \in Issues |-> NoIssue]
    /\ confirmed = {}
    /\ timeline = {}
    /\ statements = {}
    /\ request = [r \in Requests |-> Idle]
    /\ clock = 0
    /\ due = [r \in Requests |-> {}]

Commands(r) ==
    \E i \in Issues :
        \/ BeginStatus(r, i) \/ BeginStatement(r, i)
        \/ \E u \in Users : BeginCreate(r, i, u) \/ BeginConfirm(r, i, u) \/ BeginDetails(r, i, u)

Commits(r) == CommitCreate(r) \/ CommitConfirm(r) \/ CommitStatus(r) \/ CommitStatement(r)
Reads(r) == ReadConfirmed(r) \/ ReadTimeline(r) \/ ReadStatement(r)

LifecycleNext ==
    \E r \in Requests : Commands(r) \/ Commits(r) \/ Reads(r) \/ BeginList(r)
                        \/ NextPage(r) \/ End(r)

LifecycleSpec == LifecycleInit /\ [][LifecycleNext]_vars

-----------------------------------------------------------------------------
(* Safety.                                                                 *)

\* The stored counter is the number of neighbours who confirmed, none of them
\* the author, whatever runs at the same time (services/issue-service/README.md:73).
CountIsConfirmations ==
    \A i \in Issues :
        /\ issue[i].count = Cardinality({u \in Users : <<i, u>> \in confirmed})
        /\ Exists(i) => <<i, issue[i].by>> \notin confirmed

Last(S) == CHOOSE e \in S : \A f \in S : f.at <= e.at
Before(e, S) == {f \in S : f.at < e.at}

\* The timeline, in the order in which it is shown, tells how the issue came to
\* its status: every change starts from where the one before it ended, and
\* resolved_at is the time of the last step while it resolved the issue, and
\* empty after a reopening.
TimelineTellsTheStatus ==
    \A i \in Issues : Exists(i) =>
        LET steps == Of(i, "issue.created") \cup Of(i, "issue.status_changed") IN
        /\ issue[i].status = Last(steps).to
        /\ issue[i].resolvedAt = IF issue[i].status = "RESOLVED" THEN Last(steps).at ELSE 0
        /\ \A e \in Of(i, "issue.status_changed") :
               Before(e, steps) # {} /\ e.from = Last(Before(e, steps)).to

\* The statements of an issue are numbered without gaps in the order in which
\* they were made, and each quotes the number of confirmations of its time.
StatementsFollowTheIssue ==
    \A s \in statements :
        LET earlier == {t \in statements : t.issue = s.issue /\ t.at < s.at} IN
        /\ s.version = Cardinality(earlier) + 1
        /\ s.count = Cardinality({e \in Of(s.issue, "issue.confirmed") : e.at < s.at})

\* "All mutators lock the issue, so details and counters form a consistent
\* snapshot" (usecase/get_issue.go:15): status, counter, own confirmation,
\* timeline and statement of one answer belong together.
DetailsAreConsistent ==
    \A r \in Requests : request[r].op = "details" /\ request[r].pc = "done" =>
        LET k == request[r]
            steps == {e \in k.seen : e.type \in {"issue.created", "issue.status_changed"}}
            confirmations == {e \in k.seen : e.type = "issue.confirmed"}
            drafts == {e \in k.seen : e.type = "statement.generated"} IN
        /\ k.status = Last(steps).to
        /\ k.count = Cardinality(confirmations)
        /\ k.mine => k.count > 0
        /\ k.version = Cardinality(drafts)

\* A list read to its end shows every issue that was open all the time, and
\* none twice, although issues are created, resolved and reopened meanwhile.
ListIsComplete ==
    \A r \in Requests : request[r].op = "list" =>
        /\ ~request[r].again
        /\ request[r].pc = "done" => due[r] \subseteq request[r].seen
=============================================================================

-------------------------- MODULE IssueLifecycleProofs --------------------------
(***************************************************************************)
(* Proofs about issues, for any number of users, issues, requests, lists   *)
(* and clock readings.                                                     *)
(*                                                                         *)
(* IssueOK says of an issue that its row, its confirmations, its timeline  *)
(* and its statements tell the same story; RequestOK what a request knows  *)
(* of the issue it works on.  Exclusive, no two requests work on the same  *)
(* issue, is what FOR UPDATE is for: a commit changes one issue, and all   *)
(* that other requests know is about other issues.                         *)
(*                                                                         *)
(* ListOK is the argument for the list: its cursor is an issue that        *)
(* exists, and what the list owes and has not shown comes after it.        *)
(***************************************************************************)
EXTENDS IssueLifecycle, FiniteSetTheorems, WellFoundedInduction, TLAPS

Statuses == DOMAIN Successor
Types == {"issue.created", "issue.confirmed", "issue.status_changed", "statement.generated"}
Rows ==
    [status : Statuses \cup {"NONE"}, by : Users \cup {"NONE"}, count : Nat,
     createdAt : Nat, resolvedAt : Nat]
Events ==
    [issue : Issues, type : Types, at : Nat, from : Statuses \cup {"NONE"},
     to : Statuses \cup {"NONE"}, n : Nat]
Drafts == [issue : Issues, version : Nat, count : Nat, at : Nat]

TablesOK ==
    /\ issue \in [Issues -> Rows]
    /\ confirmed \subseteq Issues \X Users
    /\ timeline \subseteq Events /\ IsFiniteSet(timeline)
    /\ statements \subseteq Drafts /\ IsFiniteSet(statements)

\* What a list collects is not said.
RequestRecord(k) ==
    k \in [op : {"none", "create", "confirm", "status", "statement", "details", "list"},
           pc : {"idle", "locked", "confirmed", "timeline", "done", "page"},
           issue : Nat, user : Users \cup {"NONE"}, now : Nat,
           status : Statuses \cup {"NONE"}, count : Nat, target : Statuses \cup {"NONE"},
           version : Nat, mine : BOOLEAN, seen : {k.seen}, again : {k.again},
           cursor : {k.cursor}]

History(i) == {e \in timeline : e.issue = i}
StatementsOf(i) == {s \in statements : s.issue = i}
Steps(i) == Of(i, "issue.created") \cup Of(i, "issue.status_changed")
Confirmers(i) == {u \in Users : <<i, u>> \in confirmed}

-----------------------------------------------------------------------------
(* What holds of an issue.                                                 *)

NothingYet(i) ==
    ~Exists(i) => /\ History(i) = {} /\ StatementsOf(i) = {} /\ Confirmers(i) = {}
                  /\ issue[i].count = 0

Counted(i) ==
    /\ issue[i].count = Cardinality(Confirmers(i))
    /\ issue[i].count = Cardinality(Of(i, "issue.confirmed"))
    /\ Exists(i) => issue[i].by \notin Confirmers(i)

Told(i) ==
    Exists(i) =>
        /\ Steps(i) # {}
        /\ issue[i].status = Last(Steps(i)).to
        /\ issue[i].resolvedAt = IF issue[i].status = "RESOLVED" THEN Last(Steps(i)).at ELSE 0
        /\ \A e \in Of(i, "issue.status_changed") :
               Before(e, Steps(i)) # {} /\ e.from = Last(Before(e, Steps(i))).to

Numbered(i) ==
    /\ Versions(i) = 1..Cardinality(StatementsOf(i))
    /\ Cardinality(StatementsOf(i)) = Cardinality(Of(i, "statement.generated"))
    /\ \A s \in StatementsOf(i) :
           /\ s.version = Cardinality({t \in StatementsOf(i) : t.at < s.at}) + 1
           /\ s.count = Cardinality({e \in Of(i, "issue.confirmed") : e.at < s.at})

Dated(i) ==
    /\ \A e \in History(i) : e.at <= clock
    /\ \A s \in StatementsOf(i) : s.at <= clock

IssueOK(i) == NothingYet(i) /\ Counted(i) /\ Told(i) /\ Numbered(i) /\ Dated(i)

-----------------------------------------------------------------------------
(* What a request knows.                                                   *)

Locks(k) == k.op \in {"confirm", "status", "statement", "details"}
Works(k) == Locks(k) \/ k.op = "create"

\* Its clock reading is later than all that is written about the issue.
IsLatest(k) ==
    /\ \A e \in History(k.issue) : e.at < k.now
    /\ \A s \in StatementsOf(k.issue) : s.at < k.now

WorkerOK(k) ==
    /\ k.pc # "idle" /\ k.issue \in Issues /\ k.now <= clock
    /\ k.op = "create" => k.user \in Users /\ ~Exists(k.issue)
    /\ Locks(k) => /\ Exists(k.issue)
                   /\ k.status = issue[k.issue].status /\ k.count = issue[k.issue].count
    /\ k.op \in {"confirm", "status", "statement"} => IsLatest(k)
    /\ k.op = "confirm" => k.user \in Users /\ k.user # issue[k.issue].by
    /\ k.op = "status" => k.target \in Statuses
    /\ k.op = "statement" => k.version = Cardinality(StatementsOf(k.issue)) + 1

DetailsOK(k) ==
    /\ k.mine = TRUE => k.user \in Confirmers(k.issue)
    /\ k.pc \in {"timeline", "done"} => k.seen = History(k.issue)
    /\ k.pc = "done" => k.version = Cardinality(StatementsOf(k.issue))

RequestOK(k) ==
    /\ Works(k) => WorkerOK(k)
    /\ k.op = "details" => DetailsOK(k)

\* The lock of an issue, and the primary key of a new one.
Exclusive ==
    \A q, r \in Requests :
        q # r /\ Works(request[q]) /\ Works(request[r]) => request[q].issue # request[r].issue

LifecycleInv ==
    /\ TablesOK
    /\ clock \in Nat
    /\ DOMAIN request = Requests
    /\ \A r \in Requests : RequestRecord(request[r]) /\ RequestOK(request[r])
    /\ Exclusive
    /\ \A i \in Issues : IssueOK(i)

-----------------------------------------------------------------------------
(* Sets of events.                                                         *)

\* The last of a set of events is the one that comes after all others.
LEMMA LastIs ==
    ASSUME NEW S \in SUBSET Events, NEW e \in S, \A f \in S \ {e} : f.at < e.at
    PROVE  Last(S) = e
  <1>1. \A f \in S : f.at \in Nat
    BY DEF Events
  <1>2. \A f \in S : f.at <= e.at
    BY <1>1
  <1>3. \A d \in S : (\A f \in S : f.at <= d.at) => d = e
    BY <1>1
  <1> QED
    BY <1>2, <1>3 DEF Last

\* One element more.
LEMMA OneMore ==
    ASSUME NEW S, IsFiniteSet(S), NEW e, e \notin S
    PROVE  IsFiniteSet(S \cup {e}) /\ Cardinality(S \cup {e}) = Cardinality(S) + 1
           /\ Cardinality(S) \in Nat
  BY FS_AddElement, FS_CardinalityType

LEMMA FiniteParts ==
    ASSUME TablesOK, NEW i
    PROVE  /\ IsFiniteSet(History(i)) /\ IsFiniteSet(StatementsOf(i)) /\ IsFiniteSet(Confirmers(i))
           /\ \A type : IsFiniteSet(Of(i, type))
  <1>1. History(i) \in SUBSET timeline /\ StatementsOf(i) \in SUBSET statements
        /\ Confirmers(i) \in SUBSET Users
    BY DEF History, StatementsOf, Confirmers
  <1>2. \A type : Of(i, type) \in SUBSET timeline
    BY DEF Of
  <1> QED
    BY <1>1, <1>2, FiniteAssumption, FS_Subset DEF TablesOK

\* The highest version is the number of statements.
LEMMA LatestIsCount ==
    ASSUME TablesOK, NEW i, Versions(i) = 1..Cardinality(StatementsOf(i))
    PROVE  LatestStatement(i) = Cardinality(StatementsOf(i))
  <1>1. PICK n \in Nat : n = Cardinality(StatementsOf(i))
    BY FiniteParts, FS_CardinalityType
  <1>2. PICK V : V = Versions(i)
    OBVIOUS
  <1>3. LatestStatement(i) = IF V = {} THEN 0 ELSE CHOOSE v \in V : \A w \in V : w <= v
    BY <1>2 DEF LatestStatement
  <1>4. V = 1..n
    BY <1>1, <1>2, Zenon
  <1>5. CASE n = 0
    BY <1>1, <1>3, <1>4, <1>5
  <1>6. CASE n # 0
    <2>1. n \in V /\ (\A w \in V : w <= n) /\ (\A v \in V : (\A w \in V : w <= v) => v = n)
      BY <1>4, <1>6
    <2>2. n = CHOOSE v \in V : \A w \in V : w <= v
      BY <2>1
    <2> QED
      BY <1>1, <1>3, <2>1, <2>2
  <1> QED
    BY <1>5, <1>6

-----------------------------------------------------------------------------
(* Steps of a request.                                                     *)

\* The tables stay, the clock may advance, and request r becomes x.
LEMMA RequestStep ==
    ASSUME LifecycleInv, UNCHANGED tables, clock' \in Nat, clock <= clock',
           NEW r \in Requests, NEW x, request' = [request EXCEPT ![r] = x],
           RequestRecord(x), RequestOK(x)',
           Works(x) => \A q \in Requests \ {r} :
                           Works(request[q]) => request[q].issue # x.issue
    PROVE  LifecycleInv'
  <1>1. \A q \in Requests : request'[q] = IF q = r THEN x ELSE request[q]
    BY DEF LifecycleInv
  <1>2. ASSUME NEW k, RequestRecord(k), RequestOK(k) PROVE RequestOK(k)'
    <2>1. k.now \in Nat
      BY <1>2 DEF RequestRecord
    <2>2. WorkerOK(k) => WorkerOK(k)'
      BY <2>1 DEF WorkerOK, Locks, Exists, IsLatest, History, StatementsOf, tables, LifecycleInv
    <2>3. DetailsOK(k) => DetailsOK(k)'
      BY DEF DetailsOK, Confirmers, History, StatementsOf, tables
    <2> QED
      BY <1>2, <2>2, <2>3 DEF RequestOK, Works, Locks
  <1>3. ASSUME NEW q \in Requests PROVE RequestRecord(request[q])' /\ RequestOK(request[q])'
    <2>1. CASE q = r
      <3>1. x = request'[q]
        BY <1>1, <2>1
      <3> QED
        BY <3>1 DEF RequestRecord, RequestOK, Works, Locks, WorkerOK, DetailsOK, IsLatest, Exists,
                    History, StatementsOf, Confirmers
    <2>2. CASE q # r
      <3>1. PICK k : k = request[q]
        OBVIOUS
      <3>2. k = request'[q] /\ RequestRecord(k) /\ RequestOK(k)
        BY <1>1, <2>2, <3>1 DEF LifecycleInv
      <3>3. RequestOK(k)'
        BY <1>2, <3>2
      <3> QED
        BY <3>2, <3>3 DEF RequestRecord, RequestOK, Works, Locks, WorkerOK, DetailsOK, IsLatest,
                          Exists, History, StatementsOf, Confirmers
    <2> QED
      BY <2>1, <2>2
  <1>4. Exclusive'
    <2> SUFFICES ASSUME NEW p \in Requests, NEW q \in Requests, p # q,
                        Works(request'[p]), Works(request'[q])
                 PROVE  request'[p].issue # request'[q].issue
      BY DEF Exclusive, Works, Locks
    <2>1. CASE p = r
      BY <1>1, <2>1
    <2>2. CASE q = r
      BY <1>1, <2>2
    <2>3. CASE p # r /\ q # r
      BY <1>1, <2>3 DEF LifecycleInv, Exclusive
    <2> QED
      BY <2>1, <2>2, <2>3
  <1>5. ASSUME NEW i \in Issues PROVE IssueOK(i)'
    <2>1. Dated(i)'
      BY DEF LifecycleInv, IssueOK, Dated, History, StatementsOf, tables, TablesOK, Events, Drafts
    <2>2. NothingYet(i)' /\ Counted(i)'
      BY DEF LifecycleInv, IssueOK, NothingYet, Counted, Exists, History, StatementsOf, Confirmers,
             Of, tables
    <2>3. Told(i)'
      BY DEF LifecycleInv, IssueOK, Told, Exists, Steps, Of, tables
    <2>4. Numbered(i)'
      BY DEF LifecycleInv, IssueOK, Numbered, Versions, StatementsOf, Of, tables
    <2> QED
      BY <2>1, <2>2, <2>3, <2>4 DEF IssueOK
  <1>6. TablesOK' /\ DOMAIN request' = Requests
    BY DEF LifecycleInv, TablesOK, tables
  <1> QED
    BY <1>3, <1>4, <1>5, <1>6 DEF LifecycleInv

\* A request that gets the lock of an issue.
LEMMA LockStep ==
    ASSUME LifecycleInv, UNCHANGED tables, clock' \in Nat, clock <= clock',
           NEW r \in Requests, NEW i \in Issues, Lookup(r, i),
           NEW x, request' = [request EXCEPT ![r] = x],
           RequestRecord(x), Locks(x), x.issue = i, x.pc = "locked", x.now <= clock',
           x.status = issue[i].status, x.count = issue[i].count, x.mine = FALSE,
           x.op # "details" => clock < clock' /\ x.now = clock',
           x.op = "confirm" => x.user \in Users /\ x.user # issue[i].by,
           x.op = "status" => x.target \in Statuses,
           x.op = "statement" => x.version = Cardinality(StatementsOf(i)) + 1
    PROVE  LifecycleInv'
  <1>1. \A q \in Requests \ {r} : Works(request[q]) => request[q].issue # i
    BY DEF Lookup, Works, Locks, Holds, LifecycleInv, RequestOK, WorkerOK
  <1>2. IsLatest(x) \/ x.op = "details"
    <2>1. \A e \in History(i) : e.at \in Nat /\ e.at <= clock
      BY DEF LifecycleInv, TablesOK, History, Events, IssueOK, Dated
    <2>2. \A s \in StatementsOf(i) : s.at \in Nat /\ s.at <= clock
      BY DEF LifecycleInv, TablesOK, StatementsOf, Drafts, IssueOK, Dated
    <2>3. clock \in Nat
      BY DEF LifecycleInv
    <2> QED
      BY <2>1, <2>2, <2>3 DEF IsLatest
  <1>3. RequestOK(x)'
    <2>1. IsLatest(x)' \/ x.op = "details"
      BY <1>2 DEF IsLatest, History, StatementsOf, tables
    <2>2. WorkerOK(x)'
      BY <2>1 DEF WorkerOK, Locks, Lookup, Exists, StatementsOf, tables
    <2>3. DetailsOK(x)'
      BY DEF DetailsOK
    <2> QED
      BY <2>2, <2>3 DEF RequestOK
  <1> QED
    BY <1>1, <1>3, RequestStep

\* A manager chooses a status.
LEMMA TransitionIsStatus ==
    ASSUME NEW s \in Statuses, NEW role
    PROVE  Transition(s, role) \subseteq Statuses
  <1>1. Statuses = {"DETECTED", "CONFIRMING", "READY_FOR_APPEAL", "HANDED_TO_CHAIRMAN",
                    "MARKED_SENT", "WAITING_RESULT", "RESOLVED"}
    BY DEF Statuses, Successor
  <1>2. Successor[s] \in Statuses \cup {"NONE"}
    BY <1>1 DEF Successor
  <1> QED
    BY <1>1, <1>2 DEF Transition

LEMMA TickAdvances ==
    ASSUME clock \in Nat, Tick
    PROVE  clock' \in Nat /\ clock < clock' /\ clock <= clock'
  BY DEF Tick

LEMMA BeginSteps ==
    ASSUME LifecycleInv, NEW r \in Requests, Commands(r)
    PROVE  LifecycleInv'
  <1> SUFFICES ASSUME NEW i \in Issues,
                      \/ BeginStatus(r, i) \/ BeginStatement(r, i)
                      \/ \E u \in Users : \/ BeginCreate(r, i, u) \/ BeginConfirm(r, i, u)
                                          \/ BeginDetails(r, i, u)
               PROVE  LifecycleInv'
    BY DEF Commands
  <1>1. clock \in Nat /\ i \in Nat /\ issue[i] \in Rows
    BY IssuesAssumption DEF LifecycleInv, TablesOK
  <1>2. Cardinality(StatementsOf(i)) \in Nat
    BY FiniteParts, FS_CardinalityType DEF LifecycleInv
  <1>3. ASSUME BeginStatus(r, i) PROVE LifecycleInv'
    <2>1. Tick /\ Lookup(r, i) /\ UNCHANGED tables
      BY <1>3 DEF BeginStatus
    <2>2. PICK role \in Roles : \E target \in Transition(issue[i].status, role) :
              request' = [request EXCEPT ![r] = [Locked("status", i, "NONE") EXCEPT
                                                   !.now = clock', !.target = target]]
      BY <1>3 DEF BeginStatus
    <2>3. PICK target \in Transition(issue[i].status, role) :
              request' = [request EXCEPT ![r] = [Locked("status", i, "NONE") EXCEPT
                                                   !.now = clock', !.target = target]]
      BY <2>2
    <2>4. target \in Statuses
      BY <1>1, <2>1, <2>3, TransitionIsStatus DEF Rows, Lookup, Exists
    <2>5. PICK y : y = Locked("status", i, "NONE")
      OBVIOUS
    <2>6. PICK x : x = [y EXCEPT !.now = clock', !.target = target]
      OBVIOUS
    <2>7. clock' \in Nat /\ clock < clock' /\ clock <= clock'
      BY <1>1, <2>1, TickAdvances
    <2>8. /\ RequestRecord(y) /\ y.op = "status" /\ y.issue = i /\ y.pc = "locked"
            /\ y.status = issue[i].status /\ y.count = issue[i].count /\ y.mine = FALSE
      BY <1>1, <2>5 DEF RequestRecord, Locked, Idle, Rows
    <2>9. /\ RequestRecord(x) /\ x.op = "status" /\ x.issue = i /\ x.pc = "locked"
          /\ x.now = clock' /\ x.status = issue[i].status /\ x.count = issue[i].count
          /\ x.mine = FALSE /\ x.target = target
      BY <1>1, <2>4, <2>5, <2>6, <2>7, <2>8 DEF RequestRecord
    <2>10. Locks(x) /\ request' = [request EXCEPT ![r] = x] /\ x.now <= clock'
      BY <2>3, <2>5, <2>6, <2>7, <2>9 DEF Locks
    <2> QED
      BY <2>1, <2>4, <2>7, <2>9, <2>10, LockStep
  <1>4. ASSUME BeginStatement(r, i) PROVE LifecycleInv'
    <2>1. Tick /\ Lookup(r, i) /\ UNCHANGED tables
      BY <1>4 DEF BeginStatement
    <2>2. NextVersion(i) = Cardinality(StatementsOf(i)) + 1
      BY LatestIsCount DEF NextVersion, LifecycleInv, IssueOK, Numbered
    <2>3. PICK y : y = Locked("statement", i, "NONE")
      OBVIOUS
    <2>4. PICK v \in Nat : v = NextVersion(i)
      BY <1>2, <2>2
    <2>5. PICK x : x = [y EXCEPT !.now = clock', !.version = v]
      OBVIOUS
    <2>6. clock' \in Nat /\ clock < clock' /\ clock <= clock'
      BY <1>1, <2>1, TickAdvances
    <2>7. /\ RequestRecord(y) /\ y.op = "statement" /\ y.issue = i /\ y.pc = "locked"
            /\ y.status = issue[i].status /\ y.count = issue[i].count /\ y.mine = FALSE
      BY <1>1, <2>3 DEF RequestRecord, Locked, Idle, Rows
    <2>8. /\ RequestRecord(x) /\ x.op = "statement" /\ x.issue = i /\ x.pc = "locked"
          /\ x.now = clock' /\ x.status = issue[i].status /\ x.count = issue[i].count
          /\ x.mine = FALSE /\ x.version = Cardinality(StatementsOf(i)) + 1
      BY <2>2, <2>4, <2>5, <2>6, <2>7 DEF RequestRecord
    <2>9. Locks(x) /\ request' = [request EXCEPT ![r] = x] /\ x.now <= clock'
      BY <1>4, <2>3, <2>4, <2>5, <2>6, <2>8 DEF Locks, BeginStatement
    <2> QED
      BY <2>1, <2>6, <2>8, <2>9, LockStep
  <1>5. ASSUME NEW u \in Users, BeginConfirm(r, i, u) PROVE LifecycleInv'
    <2>1. Tick /\ Lookup(r, i) /\ UNCHANGED tables /\ issue[i].by # u
      BY <1>5 DEF BeginConfirm
    <2>2. PICK y : y = Locked("confirm", i, u)
      OBVIOUS
    <2>3. PICK x : x = [y EXCEPT !.now = clock']
      OBVIOUS
    <2>4. clock' \in Nat /\ clock < clock' /\ clock <= clock'
      BY <1>1, <2>1, TickAdvances
    <2>5. /\ RequestRecord(y) /\ y.op = "confirm" /\ y.issue = i /\ y.pc = "locked"
            /\ y.status = issue[i].status /\ y.count = issue[i].count
            /\ y.mine = FALSE /\ y.user = u
      BY <1>1, <2>2 DEF RequestRecord, Locked, Idle, Rows
    <2>6. /\ RequestRecord(x) /\ x.op = "confirm" /\ x.issue = i /\ x.pc = "locked"
          /\ x.now = clock' /\ x.status = issue[i].status /\ x.count = issue[i].count
          /\ x.mine = FALSE /\ x.user = u
      BY <1>1, <2>2, <2>3, <2>4, <2>5 DEF RequestRecord
    <2>7. Locks(x) /\ request' = [request EXCEPT ![r] = x] /\ x.now <= clock'
      BY <1>5, <2>2, <2>3, <2>4, <2>6 DEF Locks, BeginConfirm
    <2> QED
      BY <2>1, <2>4, <2>6, <2>7, LockStep
  <1>6. ASSUME NEW u \in Users, BeginDetails(r, i, u) PROVE LifecycleInv'
    <2>1. clock' = clock /\ Lookup(r, i) /\ UNCHANGED tables
      BY <1>6 DEF BeginDetails
    <2>2. PICK x : x = Locked("details", i, u)
      OBVIOUS
    <2>3. /\ RequestRecord(x) /\ x.op = "details" /\ x.issue = i /\ x.pc = "locked"
          /\ x.now = 0 /\ x.status = issue[i].status /\ x.count = issue[i].count
          /\ x.mine = FALSE
      BY <1>1, <2>2 DEF RequestRecord, Locked, Idle, Rows
    <2>4. clock' \in Nat /\ clock <= clock' /\ x.now <= clock'
      BY <1>1, <2>1, <2>3
    <2>5. Locks(x) /\ request' = [request EXCEPT ![r] = x]
      BY <1>6, <2>2, <2>3 DEF Locks, BeginDetails
    <2> QED
      BY <2>1, <2>3, <2>4, <2>5, LockStep
  <1>7. ASSUME NEW u \in Users, BeginCreate(r, i, u) PROVE LifecycleInv'
    <2>1. PICK x : x = [Idle EXCEPT !.op = "create", !.pc = "locked", !.issue = i,
                                    !.user = u, !.now = clock']
      OBVIOUS
    <2>2. /\ Tick \/ clock' = clock
          /\ UNCHANGED tables /\ request' = [request EXCEPT ![r] = x]
          /\ ~Exists(i) /\ \A q \in Requests : request[q].issue # i
      BY <1>7, <2>1 DEF BeginCreate
    <2>3. clock' \in Nat /\ clock <= clock'
      BY <1>1, <2>2, TickAdvances
    <2>4. RequestRecord(x) /\ x.op = "create" /\ x.issue = i /\ x.pc = "locked"
          /\ x.now = clock' /\ x.user = u
      BY <1>1, <2>1, <2>3 DEF RequestRecord, Idle
    <2>5. RequestOK(x)'
      BY <1>1, <2>2, <2>3, <2>4 DEF RequestOK, WorkerOK, Works, Locks, Exists, tables
    <2> QED
      BY <2>2, <2>3, <2>4, <2>5, RequestStep
  <1> QED
    BY <1>3, <1>4, <1>5, <1>6, <1>7

\* A request ends, without a trace in the tables.
LEMMA IdleIsFine == RequestRecord(Idle) /\ ~Works(Idle) /\ RequestOK(Idle)
  BY DEF RequestRecord, Idle, Works, Locks, RequestOK

Mine(i, u) == <<i, u>> \in confirmed

LEMMA ReadSteps ==
    ASSUME LifecycleInv, NEW r \in Requests, Reads(r) \/ BeginList(r) \/ NextPage(r) \/ End(r)
    PROVE  LifecycleInv'
  <1> DEFINE k == request[r]
  <1>1. clock \in Nat /\ UNCHANGED tables /\ clock' = clock
    BY DEF LifecycleInv, Reads, ReadConfirmed, ReadTimeline, ReadStatement, BeginList, NextPage,
           End, tables
  <1>2. RequestRecord(k) /\ RequestOK(k) /\ UNCHANGED tables /\ clock' = clock
        /\ clock' \in Nat /\ clock <= clock'
    BY <1>1 DEF LifecycleInv
  <1>3. \A q \in Requests \ {r} : Works(k) /\ Works(request[q]) => request[q].issue # k.issue
    BY DEF LifecycleInv, Exclusive
  <1>4. ASSUME Reads(r) PROVE LifecycleInv'
    <2>1. k.op = "details" /\ Works(k) /\ WorkerOK(k) /\ DetailsOK(k)
      BY <1>2, <1>4 DEF Reads, ReadConfirmed, ReadTimeline, ReadStatement, Works, Locks, RequestOK
    <2>2. ASSUME NEW x, RequestRecord(x), x.op = k.op, x.pc # "idle", x.issue = k.issue,
                 x.now = k.now, x.status = k.status, x.count = k.count, DetailsOK(x),
                 request' = [request EXCEPT ![r] = x]
          PROVE  LifecycleInv'
      <3>1. WorkerOK(x)'
        BY <1>2, <2>1, <2>2 DEF WorkerOK, Locks, Exists, tables
      <3>2. DetailsOK(x)'
        BY <1>2, <2>2 DEF DetailsOK, Confirmers, History, StatementsOf, tables
      <3>3. RequestOK(x)'
        BY <3>1, <3>2 DEF RequestOK
      <3> QED
        BY <1>2, <1>3, <2>1, <2>2, <3>3, RequestStep
    <2>3. CASE ReadConfirmed(r)
      <3>1. PICK b : b = Mine(k.issue, k.user)
        OBVIOUS
      <3>2. b \in BOOLEAN /\ (b = TRUE => <<k.issue, k.user>> \in confirmed)
        <4>1. Mine(k.issue, k.user) \in BOOLEAN
          BY DEF Mine
        <4>2. Mine(k.issue, k.user) => <<k.issue, k.user>> \in confirmed
          BY DEF Mine
        <4> QED
          BY <3>1, <4>1, <4>2
      <3>3. PICK x : x = [k EXCEPT !.mine = b, !.pc = "confirmed"]
        OBVIOUS
      <3>4. /\ RequestRecord(x) /\ x.op = k.op /\ x.pc = "confirmed" /\ x.issue = k.issue
            /\ x.now = k.now /\ x.status = k.status /\ x.count = k.count /\ x.user = k.user
            /\ x.mine = b
        BY <1>2, <3>2, <3>3 DEF RequestRecord
      <3>5. DetailsOK(x)
        BY <1>2, <3>2, <3>4 DEF DetailsOK, Confirmers, LifecycleInv, TablesOK
      <3>6. request' = [request EXCEPT ![r].mine = b, ![r].pc = "confirmed"]
        BY <2>3, <3>1, Zenon DEF ReadConfirmed, Mine
      <3>7. request' = [request EXCEPT ![r] = x]
        BY <3>3, <3>6 DEF LifecycleInv
      <3> QED
        BY <2>2, <3>4, <3>5, <3>7
    <2>4. CASE ReadTimeline(r)
      <3>1. PICK x : x = [k EXCEPT !.seen = History(k.issue), !.pc = "timeline"]
        OBVIOUS
      <3>2. /\ RequestRecord(x) /\ x.op = k.op /\ x.pc = "timeline" /\ x.issue = k.issue
            /\ x.now = k.now /\ x.status = k.status /\ x.count = k.count /\ x.user = k.user
            /\ x.mine = k.mine /\ x.seen = History(k.issue)
        BY <1>2, <3>1 DEF RequestRecord
      <3>3. DetailsOK(x)
        BY <2>1, <3>2 DEF DetailsOK
      <3> QED
        BY <2>2, <2>4, <3>1, <3>2, <3>3 DEF ReadTimeline, History
    <2>5. CASE ReadStatement(r)
      <3>1. PICK x : x = [k EXCEPT !.version = LatestStatement(k.issue), !.pc = "done"]
        OBVIOUS
      <3>2. LatestStatement(k.issue) = Cardinality(StatementsOf(k.issue))
            /\ LatestStatement(k.issue) \in Nat
        BY <2>1, LatestIsCount, FiniteParts, FS_CardinalityType
           DEF WorkerOK, LifecycleInv, IssueOK, Numbered
      <3>3. /\ RequestRecord(x) /\ x.op = k.op /\ x.pc = "done" /\ x.issue = k.issue
            /\ x.now = k.now /\ x.status = k.status /\ x.count = k.count /\ x.user = k.user
            /\ x.mine = k.mine /\ x.seen = k.seen /\ x.version = LatestStatement(k.issue)
        BY <1>2, <3>1, <3>2 DEF RequestRecord
      <3>4. DetailsOK(x)
        BY <2>1, <2>5, <3>2, <3>3 DEF DetailsOK, ReadStatement
      <3> QED
        BY <2>2, <2>5, <3>1, <3>3, <3>4 DEF ReadStatement
    <2> QED
      BY <1>4, <2>3, <2>4, <2>5 DEF Reads
  <1>5. ASSUME NEW x, RequestRecord(x), x.op = "list", request' = [request EXCEPT ![r] = x]
        PROVE  LifecycleInv'
    <2>1. ~Works(x) /\ RequestOK(x)'
      BY <1>5 DEF Works, Locks, RequestOK
    <2> QED
      BY <1>2, <1>5, <2>1, RequestStep
  <1>6. ASSUME BeginList(r) PROVE LifecycleInv'
    <2>1. PICK x : x = [Idle EXCEPT !.op = "list", !.pc = "page"]
      OBVIOUS
    <2>2. RequestRecord(x) /\ x.op = "list"
      BY <2>1 DEF RequestRecord, Idle
    <2> QED
      BY <1>5, <1>6, <2>1, <2>2 DEF BeginList
  <1>7. ASSUME NextPage(r) PROVE LifecycleInv'
    <2>1. PICK seen, again, cursor, pc :
              /\ pc \in {"page", "done"}
              /\ request' = [request EXCEPT ![r] = [k EXCEPT !.seen = seen, !.again = again,
                                                             !.cursor = cursor, !.pc = pc]]
      <3>1. PICK seen, again, cursor, more :
              request' = [request EXCEPT ![r].seen = seen, ![r].again = again,
                              ![r].cursor = cursor, ![r].pc = IF more THEN "page" ELSE "done"]
        BY <1>7, Zenon DEF NextPage
      <3>2. PICK pc : pc = IF more THEN "page" ELSE "done"
        OBVIOUS
      <3>3. pc \in {"page", "done"}
        BY <3>2
      <3>4. request' = [request EXCEPT ![r].seen = seen, ![r].again = again,
                                       ![r].cursor = cursor, ![r].pc = pc]
        BY <3>1, <3>2, Zenon
      <3>5. request' = [request EXCEPT ![r] = [k EXCEPT !.seen = seen, !.again = again,
                                                        !.cursor = cursor, !.pc = pc]]
        BY <3>4 DEF LifecycleInv
      <3> QED
        BY <3>3, <3>5, Zenon
    <2>2. PICK x : x = [k EXCEPT !.seen = seen, !.again = again, !.cursor = cursor, !.pc = pc]
      OBVIOUS
    <2>3. RequestRecord(x) /\ x.op = "list"
      BY <1>2, <1>7, <2>1, <2>2 DEF RequestRecord, NextPage
    <2> QED
      BY <1>5, <2>1, <2>2, <2>3
  <1>8. ASSUME End(r) PROVE LifecycleInv'
    <2>1. PICK x : x = Idle
      OBVIOUS
    <2>2. RequestRecord(x) /\ ~Works(x) /\ request' = [request EXCEPT ![r] = x]
      BY <1>8, <2>1, IdleIsFine DEF End
    <2>3. RequestOK(x)'
      BY <2>1, <2>2 DEF RequestOK, Works, Locks, Idle
    <2> QED
      BY <1>2, <2>2, <2>3, RequestStep
  <1> QED
    BY <1>4, <1>6, <1>7, <1>8

-----------------------------------------------------------------------------
(* Commits.                                                                *)

Untouched(j) ==
    /\ issue'[j] = issue[j]
    /\ History(j)' = History(j) /\ StatementsOf(j)' = StatementsOf(j)
    /\ Confirmers(j)' = Confirmers(j)

LEMMA OfHistory ==
    /\ \A j, type : Of(j, type) = {e \in History(j) : e.type = type}
    /\ \A j : Versions(j) = {s.version : s \in StatementsOf(j)}
  BY DEF Of, History, Versions, StatementsOf

\* Request r writes about its issue and ends.
LEMMA CommitStep ==
    ASSUME LifecycleInv, TablesOK', clock' = clock,
           NEW r \in Requests, Works(request[r]), request' = [request EXCEPT ![r] = Idle],
           NEW i \in Issues, i = request[r].issue, \A j \in Issues \ {i} : Untouched(j), IssueOK(i)'
    PROVE  LifecycleInv'
  <1>0. /\ \A j, type : Of(j, type)' = {e \in History(j)' : e.type = type}
        /\ \A j : Versions(j)' = {s.version : s \in StatementsOf(j)'}
    BY DEF Of, History, Versions, StatementsOf
  <1>1. \A q \in Requests : request'[q] = IF q = r THEN Idle ELSE request[q]
    BY DEF LifecycleInv
  <1>2. \A q \in Requests \ {r} : Works(request[q]) => request[q].issue # i
    BY DEF LifecycleInv, Exclusive
  <1>3. ASSUME NEW j \in Issues PROVE IssueOK(j)'
    <2>1. CASE j = i
      BY <2>1
    <2>2. CASE j # i
      <3>1. Untouched(j) /\ IssueOK(j)
        BY <2>2 DEF LifecycleInv
      <3>2. \A type : Of(j, type)' = Of(j, type)
        BY <1>0, <3>1, OfHistory DEF Untouched
      <3>3. Versions(j)' = Versions(j)
        BY <1>0, <3>1, OfHistory DEF Untouched
      <3>4. NothingYet(j)' /\ Counted(j)' /\ Dated(j)'
        BY <3>1, <3>2 DEF Untouched, IssueOK, NothingYet, Counted, Dated, Exists
      <3>7. Steps(j)' = Steps(j)
        BY <3>2 DEF Steps
      <3>5. Told(j)'
        BY <3>1, <3>2, <3>7 DEF Untouched, IssueOK, Told, Exists
      <3>6. Numbered(j)'
        BY <3>1, <3>2, <3>3 DEF Untouched, IssueOK, Numbered
      <3> QED
        BY <3>4, <3>5, <3>6 DEF IssueOK
    <2> QED
      BY <2>1, <2>2
  <1>4. ASSUME NEW q \in Requests PROVE RequestRecord(request[q])' /\ RequestOK(request[q])'
    <2>1. CASE q = r
      <3>1. request'[q] = Idle
        BY <1>1, <2>1
      <3> QED
        BY <3>1, IdleIsFine DEF RequestRecord, RequestOK, Works, Locks, Idle
    <2>2. CASE q # r
      <3>1. PICK k : k = request[q]
        OBVIOUS
      <3>2. k = request'[q] /\ RequestRecord(k) /\ RequestOK(k)
        BY <1>1, <2>2, <3>1 DEF LifecycleInv
      <3>3. Works(k) => Untouched(k.issue)
        BY <1>2, <2>2, <3>1, <3>2 DEF RequestOK, WorkerOK
      <3>4. Works(k) => WorkerOK(k)'
        BY <3>2, <3>3 DEF RequestOK, WorkerOK, Locks, Exists, IsLatest, Untouched
      <3>5. k.op = "details" => DetailsOK(k)'
        BY <3>2, <3>3 DEF RequestOK, DetailsOK, Untouched, Works, Locks
      <3>6. RequestOK(k)'
        BY <3>4, <3>5 DEF RequestOK, Works, Locks
      <3> QED
        BY <3>2, <3>6 DEF RequestRecord, RequestOK, Works, Locks, WorkerOK, DetailsOK, IsLatest,
                          Exists, History, StatementsOf, Confirmers
    <2> QED
      BY <2>1, <2>2
  <1>5. Exclusive'
    BY <1>1, IdleIsFine DEF LifecycleInv, Exclusive, Works, Locks
  <1> QED
    BY <1>1, <1>3, <1>4, <1>5 DEF LifecycleInv

\* An event that comes after all others of its issue.
LEMMA NewEvent ==
    ASSUME TablesOK, NEW i \in Issues, NEW e \in Events, e.issue = i,
           \A f \in History(i) : f.at < e.at, timeline' = timeline \cup {e}
    PROVE  /\ timeline' \subseteq Events /\ IsFiniteSet(timeline')
           /\ \A j \in Issues \ {i} : History(j)' = History(j)
           /\ History(i)' = History(i) \cup {e}
           /\ Of(i, e.type)' = Of(i, e.type) \cup {e}
           /\ \A type : type # e.type => Of(i, type)' = Of(i, type)
           /\ Cardinality(Of(i, e.type)') = Cardinality(Of(i, e.type)) + 1
  <1>1. e \notin History(i)
    BY DEF Events
  <1>2. e \notin Of(i, e.type) /\ IsFiniteSet(Of(i, e.type))
    <2>1. e \notin Of(i, e.type)
      BY <1>1 DEF Of, History
    <2> QED
      BY <2>1, FiniteParts
  <1>3. IsFiniteSet(timeline')
    BY FS_AddElement DEF TablesOK
  <1>4. Of(i, e.type)' = Of(i, e.type) \cup {e}
    BY DEF Of
  <1>5. \A type : type # e.type => Of(i, type)' = Of(i, type)
    BY DEF Of
  <1>6. History(i)' = History(i) \cup {e} /\ \A j \in Issues \ {i} : History(j)' = History(j)
    BY DEF History
  <1> QED
    BY <1>2, <1>3, <1>4, <1>5, <1>6, OneMore DEF TablesOK

\* A story goes on with a change from the status it has come to.
LEMMA StoryGoesOn ==
    ASSUME NEW S \in SUBSET Events, S # {}, NEW C \in SUBSET S, NEW e \in Events,
           \A f \in S : f.at < e.at, e.from = Last(S).to,
           \A d \in C : Before(d, S) # {} /\ d.from = Last(Before(d, S)).to
    PROVE  /\ Last(S \cup {e}) = e
           /\ \A d \in C \cup {e} : /\ Before(d, S \cup {e}) # {}
                                    /\ d.from = Last(Before(d, S \cup {e})).to
  <1>1. Last(S \cup {e}) = e
    BY LastIs
  <1>2. \A d \in C : Before(d, S \cup {e}) = Before(d, S)
    BY DEF Before, Events
  <1>3. Before(e, S \cup {e}) = S
    BY DEF Before, Events
  <1> QED
    BY <1>1, <1>2, <1>3

LEMMA CreateStep ==
    ASSUME LifecycleInv, NEW r \in Requests, CommitCreate(r)
    PROVE  LifecycleInv'
  <1>1. PICK k : k = request[r]
    OBVIOUS
  <1>2. PICK i : i = k.issue
    OBVIOUS
  <1>3. /\ k.op = "create" /\ Works(k) /\ RequestRecord(k) /\ RequestOK(k)
        /\ clock' = clock /\ clock \in Nat /\ request' = [request EXCEPT ![r] = Idle]
        /\ confirmed' = confirmed /\ statements' = statements
    BY <1>1 DEF CommitCreate, Works, LifecycleInv
  <1>4. i \in Issues /\ k.user \in Users /\ k.now \in Nat /\ k.now <= clock /\ ~Exists(i)
        /\ IssueOK(i) /\ TablesOK
    BY <1>2, <1>3 DEF RequestOK, WorkerOK, RequestRecord, LifecycleInv
  <1>5. PICK e : e = Created(i, k.now)
    OBVIOUS
  <1>6. /\ e \in Events /\ e.issue = i /\ e.type = "issue.created" /\ e.at = k.now
        /\ e.to = "DETECTED"
    BY <1>4, <1>5 DEF Created, Events, Types, Statuses, Successor
  <1>7. timeline' = timeline \cup {e}
    BY <1>1, <1>2, <1>5 DEF CommitCreate
  <1>8. /\ History(i) = {} /\ StatementsOf(i) = {} /\ Confirmers(i) = {}
        /\ \A type : Of(i, type) = {}
    BY <1>4 DEF IssueOK, NothingYet, Of, History
  <1>9. PICK row : row = [NoIssue EXCEPT !.status = "DETECTED", !.by = k.user, !.createdAt = k.now]
    OBVIOUS
  <1>10. /\ row \in Rows /\ row.status = "DETECTED" /\ row.count = 0 /\ row.resolvedAt = 0
         /\ row.by = k.user
    BY <1>4, <1>9 DEF NoIssue, Rows, Statuses, Successor
  <1>11. issue' = [issue EXCEPT ![i] = row]
    BY <1>1, <1>2, <1>9 DEF CommitCreate
  <1>12. /\ timeline' \subseteq Events /\ IsFiniteSet(timeline')
         /\ \A j \in Issues \ {i} : History(j)' = History(j)
         /\ History(i)' = {e} /\ Of(i, "issue.created")' = {e}
         /\ \A type : type # "issue.created" => Of(i, type)' = {}
    BY <1>4, <1>6, <1>7, <1>8, NewEvent
  <1>13. StatementsOf(i)' = {} /\ Confirmers(i)' = {}
         /\ \A j : StatementsOf(j)' = StatementsOf(j) /\ Confirmers(j)' = Confirmers(j)
    BY <1>3, <1>8 DEF StatementsOf, Confirmers
  <1>14. issue'[i] = row /\ issue' \in [Issues -> Rows]
         /\ \A j \in Issues \ {i} : issue'[j] = issue[j]
    BY <1>4, <1>10, <1>11 DEF TablesOK
  <1>15. TablesOK'
    BY <1>3, <1>4, <1>12, <1>14 DEF TablesOK
  <1>16. \A j \in Issues \ {i} : Untouched(j)
    BY <1>12, <1>13, <1>14 DEF Untouched
  <1>17. IssueOK(i)'
    <2>1. NothingYet(i)'
      BY <1>10, <1>14 DEF NothingYet, Exists
    <2>2. Counted(i)'
      BY <1>10, <1>12, <1>13, <1>14, FS_EmptySet DEF Counted
    <2>3. Steps(i)' = {e}
      BY <1>12 DEF Steps
    <2>4. Last({e}) = e
      BY <1>6, LastIs
    <2>5. Told(i)'
      BY <1>6, <1>10, <1>12, <1>14, <2>3, <2>4 DEF Told
    <2>6. Versions(i)' = {}
      BY <1>13 DEF Versions, StatementsOf
    <2>7. Numbered(i)'
      BY <1>12, <1>13, <2>6, FS_EmptySet DEF Numbered
    <2>8. Dated(i)'
      BY <1>3, <1>4, <1>6, <1>12, <1>13 DEF Dated
    <2> QED
      BY <2>1, <2>2, <2>5, <2>7, <2>8 DEF IssueOK
  <1> QED
    BY <1>1, <1>2, <1>3, <1>4, <1>15, <1>16, <1>17, CommitStep

\* What a commit that holds a lock finds.
LEMMA LockedCommit ==
    ASSUME LifecycleInv, NEW r \in Requests, NEW k, k = request[r], NEW i, i = k.issue,
           k.op \in {"confirm", "status", "statement"}
    PROVE  /\ Works(k) /\ i \in Issues /\ Exists(i) /\ issue[i] \in Rows /\ IssueOK(i) /\ TablesOK
           /\ k.now \in Nat /\ clock \in Nat /\ k.now <= clock
           /\ k.status = issue[i].status /\ k.count = issue[i].count
           /\ \A f \in History(i) : f \in Events /\ f.at < k.now
           /\ \A s \in StatementsOf(i) : s \in Drafts /\ s.at < k.now
           /\ k.op = "confirm" => k.user \in Users /\ k.user # issue[i].by
           /\ k.op = "status" => k.target \in Statuses
           /\ k.op = "statement" => k.version = Cardinality(StatementsOf(i)) + 1
  <1>1. Works(k) /\ Locks(k) /\ RequestRecord(k) /\ RequestOK(k)
    BY DEF LifecycleInv, Works, Locks
  <1>2. WorkerOK(k)
    BY <1>1 DEF RequestOK
  <1>3. k.now \in Nat
    BY <1>1 DEF RequestRecord
  <1>4. i \in Issues /\ issue[i] \in Rows /\ TablesOK /\ IssueOK(i) /\ clock \in Nat
    BY <1>2 DEF LifecycleInv, TablesOK, WorkerOK
  <1>5. (\A f \in History(i) : f \in Events) /\ (\A s \in StatementsOf(i) : s \in Drafts)
    BY <1>4 DEF TablesOK, History, StatementsOf
  <1> QED
    BY <1>1, <1>2, <1>3, <1>4, <1>5 DEF WorkerOK, IsLatest

LEMMA ConfirmStep ==
    ASSUME LifecycleInv, NEW r \in Requests, CommitConfirm(r)
    PROVE  LifecycleInv'
  <1>1. PICK k : k = request[r]
    OBVIOUS
  <1>2. PICK i : i = k.issue
    OBVIOUS
  <1>3. PICK n : n = issue[i].count + 1
    OBVIOUS
  <1>4. /\ k.op = "confirm" /\ clock' = clock /\ request' = [request EXCEPT ![r] = Idle]
        /\ statements' = statements /\ <<i, k.user>> \notin confirmed
        /\ confirmed' = confirmed \cup {<<i, k.user>>}
        /\ issue' = [issue EXCEPT ![i].count = n]
        /\ timeline' = timeline \cup {Confirmed(i, k.now, n)}
    BY <1>1, <1>2, <1>3 DEF CommitConfirm, AlreadyConfirmed
  <1>5. /\ Works(k) /\ i \in Issues /\ Exists(i) /\ issue[i] \in Rows /\ IssueOK(i) /\ TablesOK
        /\ k.now \in Nat /\ clock \in Nat /\ k.now <= clock
        /\ \A f \in History(i) : f \in Events /\ f.at < k.now
        /\ \A s \in StatementsOf(i) : s \in Drafts /\ s.at < k.now
        /\ k.user \in Users /\ k.user # issue[i].by
    BY <1>1, <1>2, <1>4, LockedCommit
  <1>6. n \in Nat
    BY <1>3, <1>5 DEF Rows
  <1>7. PICK e : e = Confirmed(i, k.now, n)
    OBVIOUS
  <1>8. e \in Events /\ e.issue = i /\ e.type = "issue.confirmed" /\ e.at = k.now
    BY <1>5, <1>6, <1>7 DEF Confirmed, Events, Types
  <1>9. /\ timeline' \subseteq Events /\ IsFiniteSet(timeline')
        /\ \A j \in Issues \ {i} : History(j)' = History(j)
        /\ History(i)' = History(i) \cup {e}
        /\ Of(i, "issue.confirmed")' = Of(i, "issue.confirmed") \cup {e}
        /\ \A type : type # "issue.confirmed" => Of(i, type)' = Of(i, type)
        /\ Cardinality(Of(i, "issue.confirmed")') = Cardinality(Of(i, "issue.confirmed")) + 1
    BY <1>4, <1>5, <1>7, <1>8, NewEvent
  <1>10. /\ issue' \in [Issues -> Rows]
         /\ \A j \in Issues \ {i} : issue'[j] = issue[j]
         /\ issue'[i].count = n /\ issue'[i].status = issue[i].status /\ issue'[i].by = issue[i].by
         /\ issue'[i].resolvedAt = issue[i].resolvedAt
    BY <1>4, <1>5, <1>6 DEF TablesOK, Rows
  <1>11. /\ \A j : StatementsOf(j)' = StatementsOf(j) /\ Versions(j)' = Versions(j)
         /\ \A j \in Issues \ {i} : Confirmers(j)' = Confirmers(j)
         /\ Confirmers(i)' = Confirmers(i) \cup {k.user} /\ k.user \notin Confirmers(i)
    BY <1>4, <1>5 DEF StatementsOf, Confirmers, Versions
  <1>12. TablesOK'
    BY <1>4, <1>5, <1>9, <1>10 DEF TablesOK
  <1>13. \A j \in Issues \ {i} : Untouched(j)
    BY <1>9, <1>10, <1>11 DEF Untouched
  <1>14. IssueOK(i)'
    <2>1. NothingYet(i)'
      BY <1>5, <1>10 DEF NothingYet, Exists
    <2>2. Counted(i)'
      <3>1. Cardinality(Confirmers(i)') = Cardinality(Confirmers(i)) + 1
        BY <1>5, <1>11, FiniteParts, OneMore
      <3> QED
        BY <1>3, <1>5, <1>9, <1>10, <1>11, <3>1 DEF Counted, IssueOK, Exists
    <2>3. Steps(i)' = Steps(i)
      BY <1>9 DEF Steps
    <2>4. Told(i)'
      BY <1>5, <1>9, <1>10, <2>3 DEF Told, IssueOK, Exists
    <2>5. \A s \in StatementsOf(i) :
              {f \in Of(i, "issue.confirmed")' : f.at < s.at}
                = {f \in Of(i, "issue.confirmed") : f.at < s.at}
      BY <1>5, <1>8, <1>9 DEF Drafts
    <2>6. Numbered(i)'
      BY <1>5, <1>9, <1>11, <2>5 DEF Numbered, IssueOK
    <2>7. Dated(i)'
      BY <1>4, <1>5, <1>8, <1>9, <1>11 DEF Dated, IssueOK
    <2> QED
      BY <2>1, <2>2, <2>4, <2>6, <2>7 DEF IssueOK
  <1> QED
    BY <1>1, <1>2, <1>4, <1>5, <1>12, <1>13, <1>14, CommitStep

LEMMA StatusStep ==
    ASSUME LifecycleInv, NEW r \in Requests, CommitStatus(r)
    PROVE  LifecycleInv'
  <1>1. PICK k : k = request[r]
    OBVIOUS
  <1>2. PICK i : i = k.issue
    OBVIOUS
  <1>3. PICK at : at = ResolvedAt(k)
    OBVIOUS
  <1>4. /\ k.op = "status" /\ clock' = clock /\ request' = [request EXCEPT ![r] = Idle]
        /\ statements' = statements /\ confirmed' = confirmed
        /\ issue' = [issue EXCEPT ![i].status = k.target, ![i].resolvedAt = at]
        /\ timeline' = timeline \cup {StatusChanged(i, k.now, k.status, k.target)}
    BY <1>1, <1>2, <1>3 DEF CommitStatus
  <1>5. /\ Works(k) /\ i \in Issues /\ Exists(i) /\ issue[i] \in Rows /\ IssueOK(i) /\ TablesOK
        /\ k.now \in Nat /\ clock \in Nat /\ k.now <= clock /\ k.status = issue[i].status
        /\ \A f \in History(i) : f \in Events /\ f.at < k.now
        /\ \A s \in StatementsOf(i) : s \in Drafts /\ s.at < k.now
        /\ k.target \in Statuses
    BY <1>1, <1>2, <1>4, LockedCommit
  <1>6. at \in Nat /\ at = IF k.target = "RESOLVED" THEN k.now ELSE 0
    BY <1>3, <1>5 DEF ResolvedAt
  <1>7. PICK e : e = StatusChanged(i, k.now, k.status, k.target)
    OBVIOUS
  <1>8. /\ e \in Events /\ e.issue = i /\ e.type = "issue.status_changed" /\ e.at = k.now
        /\ e.from = k.status /\ e.to = k.target
    BY <1>5, <1>7 DEF StatusChanged, Events, Types, Rows
  <1>9. /\ timeline' \subseteq Events /\ IsFiniteSet(timeline')
        /\ \A j \in Issues \ {i} : History(j)' = History(j)
        /\ History(i)' = History(i) \cup {e}
        /\ Of(i, "issue.status_changed")' = Of(i, "issue.status_changed") \cup {e}
        /\ \A type : type # "issue.status_changed" => Of(i, type)' = Of(i, type)
    BY <1>4, <1>5, <1>7, <1>8, NewEvent
  <1>10. /\ issue' \in [Issues -> Rows]
         /\ \A j \in Issues \ {i} : issue'[j] = issue[j]
         /\ issue'[i].count = issue[i].count /\ issue'[i].status = k.target
         /\ issue'[i].by = issue[i].by /\ issue'[i].resolvedAt = at
    BY <1>4, <1>5, <1>6 DEF TablesOK, Rows
  <1>11. \A j : /\ StatementsOf(j)' = StatementsOf(j) /\ Versions(j)' = Versions(j)
                /\ Confirmers(j)' = Confirmers(j)
    BY <1>4 DEF StatementsOf, Confirmers, Versions
  <1>12. TablesOK'
    BY <1>4, <1>5, <1>9, <1>10 DEF TablesOK
  <1>13. \A j \in Issues \ {i} : Untouched(j)
    BY <1>9, <1>10, <1>11 DEF Untouched
  <1>14. IssueOK(i)'
    <2>1. Exists(i)' /\ NothingYet(i)'
      BY <1>5, <1>10 DEF NothingYet, Exists, Statuses, Successor
    <2>2. Counted(i)'
      BY <1>5, <1>9, <1>10, <1>11 DEF Counted, IssueOK
    <2>3. Steps(i)' = Steps(i) \cup {e}
      BY <1>9 DEF Steps
    <2>4. Told(i)'
      <3>1. PICK S : S = Steps(i)
        OBVIOUS
      <3>2. PICK C : C = Of(i, "issue.status_changed")
        OBVIOUS
      <3>3. S \in SUBSET Events /\ C \in SUBSET S /\ \A f \in S : f.at < e.at
        BY <1>5, <1>8, <3>1, <3>2 DEF Steps, Of, History
      <3>4. /\ S # {} /\ e.from = Last(S).to
            /\ \A d \in C : Before(d, S) # {} /\ d.from = Last(Before(d, S)).to
        BY <1>5, <1>8, <3>1, <3>2 DEF IssueOK, Told
      <3>5. /\ Last(S \cup {e}) = e
            /\ \A d \in C \cup {e} : /\ Before(d, S \cup {e}) # {}
                                     /\ d.from = Last(Before(d, S \cup {e})).to
        BY <1>8, <3>3, <3>4, StoryGoesOn
      <3>6. Steps(i)' = S \cup {e} /\ Of(i, "issue.status_changed")' = C \cup {e}
        BY <1>9, <2>3, <3>1, <3>2
      <3>7. \A d \in Of(i, "issue.status_changed")' :
                Before(d, Steps(i)') # {} /\ d.from = Last(Before(d, Steps(i)')).to
        BY <3>5, <3>6
      <3>8. /\ Steps(i)' # {} /\ issue'[i].status = Last(Steps(i)').to
            /\ issue'[i].resolvedAt =
                 IF issue'[i].status = "RESOLVED" THEN Last(Steps(i)').at ELSE 0
        BY <1>6, <1>8, <1>10, <3>5, <3>6
      <3> QED
        BY <3>7, <3>8 DEF Told, Before
    <2>5. Numbered(i)'
      BY <1>5, <1>9, <1>11 DEF Numbered, IssueOK
    <2>6. Dated(i)'
      BY <1>4, <1>5, <1>8, <1>9, <1>11 DEF Dated, IssueOK
    <2> QED
      BY <2>1, <2>2, <2>4, <2>5, <2>6 DEF IssueOK
  <1> QED
    BY <1>1, <1>2, <1>4, <1>5, <1>12, <1>13, <1>14, CommitStep

LEMMA StatementStep ==
    ASSUME LifecycleInv, NEW r \in Requests, CommitStatement(r)
    PROVE  LifecycleInv'
  <1>1. PICK k : k = request[r]
    OBVIOUS
  <1>2. PICK i : i = k.issue
    OBVIOUS
  <1>3. PICK s : s = [issue |-> i, version |-> k.version, count |-> k.count, at |-> k.now]
    OBVIOUS
  <1>4. /\ k.op = "statement" /\ clock' = clock /\ request' = [request EXCEPT ![r] = Idle]
        /\ issue' = issue /\ confirmed' = confirmed /\ statements' = statements \cup {s}
        /\ timeline' = timeline \cup {Generated(i, k.now, k.version)}
    BY <1>1, <1>2, <1>3 DEF CommitStatement
  <1>5. /\ Works(k) /\ i \in Issues /\ Exists(i) /\ issue[i] \in Rows /\ IssueOK(i) /\ TablesOK
        /\ k.now \in Nat /\ clock \in Nat /\ k.now <= clock /\ k.count = issue[i].count
        /\ \A f \in History(i) : f \in Events /\ f.at < k.now
        /\ \A t \in StatementsOf(i) : t \in Drafts /\ t.at < k.now
        /\ k.version = Cardinality(StatementsOf(i)) + 1
    BY <1>1, <1>2, <1>4, LockedCommit
  <1>6. PICK n \in Nat : n = Cardinality(StatementsOf(i))
    BY <1>5, FiniteParts, FS_CardinalityType
  <1>7. PICK e : e = Generated(i, k.now, k.version)
    OBVIOUS
  <1>8. /\ e \in Events /\ e.issue = i /\ e.type = "statement.generated" /\ e.at = k.now
        /\ s \in Drafts /\ s.issue = i /\ s.at = k.now /\ s.version = n + 1
        /\ s.count = issue[i].count
    BY <1>3, <1>5, <1>6, <1>7 DEF Generated, Events, Types, Drafts, Rows
  <1>9. /\ timeline' \subseteq Events /\ IsFiniteSet(timeline')
        /\ \A j \in Issues \ {i} : History(j)' = History(j)
        /\ History(i)' = History(i) \cup {e}
        /\ \A type : type # "statement.generated" => Of(i, type)' = Of(i, type)
        /\ Cardinality(Of(i, "statement.generated")') = Cardinality(Of(i, "statement.generated")) + 1
    BY <1>4, <1>5, <1>7, <1>8, NewEvent
  <1>10. /\ \A j \in Issues \ {i} : StatementsOf(j)' = StatementsOf(j)
         /\ \A j : Confirmers(j)' = Confirmers(j)
         /\ StatementsOf(i)' = StatementsOf(i) \cup {s} /\ s \notin StatementsOf(i)
         /\ Versions(i)' = Versions(i) \cup {n + 1}
    BY <1>4, <1>5, <1>8 DEF StatementsOf, Confirmers, Versions, Drafts
  <1>11. TablesOK'
    BY <1>4, <1>5, <1>8, <1>9, FS_AddElement DEF TablesOK
  <1>12. \A j \in Issues \ {i} : Untouched(j)
    BY <1>4, <1>9, <1>10 DEF Untouched
  <1>13. IssueOK(i)'
    <2>1. NothingYet(i)'
      BY <1>4, <1>5 DEF NothingYet, Exists
    <2>2. Counted(i)'
      BY <1>4, <1>5, <1>9, <1>10 DEF Counted, IssueOK, Exists
    <2>3. Steps(i)' = Steps(i)
      BY <1>9 DEF Steps
    <2>4. Told(i)'
      BY <1>4, <1>5, <1>9, <2>3 DEF Told, IssueOK, Exists
    <2>5. Cardinality(StatementsOf(i)') = n + 1
      BY <1>5, <1>6, <1>10, FiniteParts, OneMore
    <2>6. Versions(i)' = 1..(n + 1)
      <3>1. PICK V : V = Versions(i)
        OBVIOUS
      <3>2. V = 1..n
        BY <1>5, <1>6, <3>1, Zenon DEF IssueOK, Numbered
      <3>3. V \cup {n + 1} = 1..(n + 1)
        BY <3>2
      <3> QED
        BY <1>10, <3>1, <3>3
    <2>7. \A t \in StatementsOf(i) :
              {u \in StatementsOf(i)' : u.at < t.at} = {u \in StatementsOf(i) : u.at < t.at}
      BY <1>5, <1>8, <1>10 DEF Drafts
    <2>8. {u \in StatementsOf(i)' : u.at < s.at} = StatementsOf(i)
      BY <1>5, <1>8, <1>10 DEF Drafts
    <2>9. {f \in Of(i, "issue.confirmed") : f.at < s.at} = Of(i, "issue.confirmed")
      BY <1>5, <1>8 DEF Of, History
    <2>10. issue[i].count = Cardinality(Of(i, "issue.confirmed"))
           /\ n = Cardinality(Of(i, "statement.generated"))
      BY <1>5, <1>6 DEF IssueOK, Counted, Numbered
    <2>11. ASSUME NEW t \in StatementsOf(i)'
           PROVE  /\ t.version = Cardinality({u \in StatementsOf(i)' : u.at < t.at}) + 1
                  /\ t.count = Cardinality({f \in Of(i, "issue.confirmed") : f.at < t.at})
      <3>1. CASE t = s
        BY <1>6, <1>8, <2>8, <2>9, <2>10, <3>1
      <3>2. CASE t \in StatementsOf(i)
        BY <1>5, <2>7, <3>2 DEF IssueOK, Numbered
      <3> QED
        BY <1>10, <3>1, <3>2
    <2>12. Numbered(i)'
      BY <1>9, <2>5, <2>6, <2>10, <2>11 DEF Numbered
    <2>13. Dated(i)'
      BY <1>4, <1>5, <1>8, <1>9, <1>10 DEF Dated, IssueOK
    <2> QED
      BY <2>1, <2>2, <2>4, <2>12, <2>13 DEF IssueOK
  <1> QED
    BY <1>1, <1>2, <1>4, <1>5, <1>11, <1>12, <1>13, CommitStep

-----------------------------------------------------------------------------
(* The theorems.                                                           *)

LEMMA InitLifecycle == LifecycleInit => LifecycleInv
  <1> SUFFICES ASSUME LifecycleInit PROVE LifecycleInv
    OBVIOUS
  <1>1. TablesOK /\ clock \in Nat /\ DOMAIN request = Requests
    BY FS_EmptySet DEF LifecycleInit, TablesOK, NoIssue, Rows
  <1>2. \A r \in Requests : request[r] = Idle
    BY DEF LifecycleInit
  <1>3. \A r \in Requests : RequestRecord(request[r]) /\ RequestOK(request[r]) /\ ~Works(request[r])
    BY <1>2, IdleIsFine
  <1>4. ASSUME NEW i \in Issues PROVE IssueOK(i)
    <2>1. History(i) = {} /\ StatementsOf(i) = {} /\ Confirmers(i) = {} /\ Versions(i) = {}
          /\ \A type : Of(i, type) = {}
      BY DEF LifecycleInit, History, StatementsOf, Confirmers, Versions, Of
    <2>2. issue[i].status = "NONE" /\ issue[i].count = 0
      BY DEF LifecycleInit, NoIssue
    <2>3. NothingYet(i) /\ Counted(i) /\ Told(i) /\ Dated(i)
      BY <2>1, <2>2, FS_EmptySet DEF NothingYet, Counted, Told, Dated, Exists
    <2>4. Numbered(i)
      BY <2>1, FS_EmptySet DEF Numbered
    <2> QED
      BY <2>3, <2>4 DEF IssueOK
  <1> QED
    BY <1>1, <1>3, <1>4 DEF LifecycleInv, Exclusive

LEMMA StepLifecycle == LifecycleInv /\ [LifecycleNext]_vars => LifecycleInv'
  <1>1. ASSUME LifecycleInv, NEW r \in Requests,
               Commands(r) \/ Commits(r) \/ Reads(r) \/ BeginList(r) \/ NextPage(r) \/ End(r)
        PROVE  LifecycleInv'
    BY <1>1, BeginSteps, ReadSteps, CreateStep, ConfirmStep, StatusStep, StatementStep DEF Commits
  <1>2. ASSUME LifecycleInv, UNCHANGED vars PROVE LifecycleInv'
    <2> USE <1>2 DEF vars, tables
    <2>1. TablesOK' /\ clock' \in Nat /\ DOMAIN request' = Requests /\ Exclusive'
      BY DEF LifecycleInv, TablesOK, Exclusive, Works, Locks
    <2>2. ASSUME NEW r \in Requests PROVE RequestRecord(request[r])' /\ RequestOK(request[r])'
      <3>1. RequestRecord(request[r])'
        BY DEF LifecycleInv, RequestRecord
      <3>2. WorkerOK(request[r]) => WorkerOK(request[r])'
        BY DEF WorkerOK, Locks, Exists, IsLatest, History, StatementsOf
      <3>3. DetailsOK(request[r]) => DetailsOK(request[r])'
        BY DEF DetailsOK, Confirmers, History, StatementsOf
      <3> QED
        BY <3>1, <3>2, <3>3 DEF LifecycleInv, RequestOK, Works, Locks
    <2>3. ASSUME NEW i \in Issues PROVE IssueOK(i)'
      <3>1. Dated(i)' /\ NothingYet(i)' /\ Counted(i)'
        BY DEF LifecycleInv, IssueOK, Dated, NothingYet, Counted, Exists, History, StatementsOf,
               Confirmers, Of
      <3>2. Told(i)'
        BY DEF LifecycleInv, IssueOK, Told, Exists, Steps, Of
      <3>3. Numbered(i)'
        BY DEF LifecycleInv, IssueOK, Numbered, Versions, StatementsOf, Of
      <3> QED
        BY <3>1, <3>2, <3>3 DEF IssueOK
    <2> QED
      BY <2>1, <2>2, <2>3 DEF LifecycleInv
  <1> QED
    BY <1>1, <1>2 DEF LifecycleNext

LEMMA LifecycleInvariant == LifecycleSpec => []LifecycleInv
  BY InitLifecycle, StepLifecycle, PTL DEF LifecycleSpec

\* The counter of an issue is the number of neighbours who confirmed it, none
\* of them its author.
THEOREM CounterIsRight == LifecycleSpec => []CountIsConfirmations
  <1>1. LifecycleInv => CountIsConfirmations
    BY DEF LifecycleInv, TablesOK, IssueOK, Counted, Confirmers, CountIsConfirmations
  <1> QED
    BY <1>1, LifecycleInvariant, PTL

\* The timeline tells how every issue came to its status.
THEOREM TimelineIsTrue == LifecycleSpec => []TimelineTellsTheStatus
  <1>1. LifecycleInv => TimelineTellsTheStatus
    BY DEF LifecycleInv, IssueOK, Told, Steps, TimelineTellsTheStatus
  <1> QED
    BY <1>1, LifecycleInvariant, PTL

\* Statements are numbered without gaps in the order in which they were made,
\* and quote the confirmations of their time.
THEOREM StatementsInOrder == LifecycleSpec => []StatementsFollowTheIssue
  <1>1. ASSUME LifecycleInv PROVE StatementsFollowTheIssue
    <2> SUFFICES ASSUME NEW s \in statements
                 PROVE  /\ s.version = Cardinality({t \in statements : t.issue = s.issue
                                                                       /\ t.at < s.at}) + 1
                        /\ s.count = Cardinality({e \in Of(s.issue, "issue.confirmed") : e.at < s.at})
      BY DEF StatementsFollowTheIssue
    <2>1. s.issue \in Issues
      BY <1>1 DEF LifecycleInv, TablesOK, Drafts
    <2>2. s \in StatementsOf(s.issue) /\ Numbered(s.issue)
      BY <1>1, <2>1 DEF LifecycleInv, IssueOK, StatementsOf
    <2>3. {t \in StatementsOf(s.issue) : t.at < s.at}
            = {t \in statements : t.issue = s.issue /\ t.at < s.at}
      BY DEF StatementsOf
    <2> QED
      BY <2>2, <2>3 DEF Numbered
  <1> QED
    BY <1>1, LifecycleInvariant, PTL

\* The parts of a detailed view belong together, although each is read by a
\* statement of its own.
THEOREM DetailsBelongTogether == LifecycleSpec => []DetailsAreConsistent
  <1>1. ASSUME LifecycleInv PROVE DetailsAreConsistent
    <2> SUFFICES ASSUME NEW r \in Requests, NEW k, k = request[r],
                        k.op = "details", k.pc = "done"
                 PROVE  /\ k.status = Last({e \in k.seen : e.type \in {"issue.created",
                                                               "issue.status_changed"}}).to
                        /\ k.count = Cardinality({e \in k.seen : e.type = "issue.confirmed"})
                        /\ k.mine => k.count > 0
                        /\ k.version = Cardinality({e \in k.seen : e.type = "statement.generated"})
      BY DEF DetailsAreConsistent
    <2>1. WorkerOK(k) /\ DetailsOK(k) /\ RequestRecord(k)
      BY <1>1 DEF LifecycleInv, RequestOK, Works, Locks
    <2>2. PICK i \in Issues : i = k.issue
      BY <2>1 DEF WorkerOK
    <2>3. IssueOK(i) /\ Exists(i) /\ k.status = issue[i].status /\ k.count = issue[i].count
          /\ k.seen = History(i) /\ k.version = Cardinality(StatementsOf(i))
      BY <1>1, <2>1, <2>2 DEF LifecycleInv, WorkerOK, DetailsOK, Locks
    <2>4. /\ {e \in k.seen : e.type \in {"issue.created", "issue.status_changed"}} = Steps(i)
          /\ {e \in k.seen : e.type = "issue.confirmed"} = Of(i, "issue.confirmed")
          /\ {e \in k.seen : e.type = "statement.generated"} = Of(i, "statement.generated")
      BY <2>3 DEF History, Steps, Of
    <2>5. k.mine => k.count > 0
      <3>1. SUFFICES ASSUME k.mine PROVE k.count > 0
        OBVIOUS
      <3>2. k.mine = TRUE
        BY <2>1, <3>1 DEF RequestRecord
      <3>3. Confirmers(i) # {}
        BY <2>1, <2>2, <3>2 DEF DetailsOK
      <3>4. IsFiniteSet(Confirmers(i))
        BY <1>1, FiniteParts DEF LifecycleInv
      <3>5. Cardinality(Confirmers(i)) \in Nat /\ Cardinality(Confirmers(i)) # 0
        BY <3>3, <3>4, FS_CardinalityType, FS_EmptySet
      <3> QED
        BY <2>3, <3>5 DEF IssueOK, Counted
    <2> QED
      BY <2>3, <2>4, <2>5 DEF IssueOK, Told, Counted, Numbered
  <1> QED
    BY <1>1, LifecycleInvariant, PTL

-----------------------------------------------------------------------------
(* The list.                                                               *)

\* Of the elements of a set, one has the least number.
LEMMA FewestExists ==
    ASSUME NEW S, S # {}, NEW f, \A x \in S : f[x] \in Nat
    PROVE  \E x \in S : \A y \in S : f[x] <= f[y]
  <1> DEFINE T == {f[x] : x \in S}
  <1>1. T \subseteq Nat /\ T # {}
    OBVIOUS
  <1>2. PICK m \in T : \A n \in T : ~ (<<n, m>> \in OpToRel(<, Nat))
    <2> HIDE DEF T
    <2> QED
      BY <1>1, WFMin, NatLessThanWellFounded
  <1>3. \A n \in T : m <= n
    <2>1. \A n \in T : ~ (n < m)
      BY <1>1, <1>2 DEF OpToRel
    <2> QED
      BY <1>1, <2>1
  <1> QED
    BY <1>3

\* A finite set has an element that comes first in a strict order: one with the
\* fewest before it has none.
LEMMA FirstExists ==
    ASSUME NEW S, S # {}, IsFiniteSet(S), NEW R,
           \A x \in S : <<x, x>> \notin R,
           \A x, y, z \in S : <<x, y>> \in R /\ <<y, z>> \in R => <<x, z>> \in R
    PROVE  \E x \in S : \A y \in S : <<y, x>> \notin R
  <1> DEFINE B(x) == {y \in S : <<y, x>> \in R}
             f == [x \in S |-> Cardinality(B(x))]
  <1>1. \A x \in S : IsFiniteSet(B(x)) /\ Cardinality(B(x)) \in Nat
    <2>1. \A x \in S : B(x) \in SUBSET S
      OBVIOUS
    <2> QED
      BY <2>1, FS_Subset, FS_CardinalityType
  <1>2. \A x \in S : f[x] = Cardinality(B(x)) /\ f[x] \in Nat
    BY <1>1
  <1>3. PICK x \in S : \A y \in S : f[x] <= f[y]
    <2> HIDE DEF f
    <2> QED
      BY <1>2, FewestExists
  <1>4. ASSUME NEW y \in S, <<y, x>> \in R PROVE FALSE
    <2>1. B(y) \in SUBSET B(x) /\ y \in B(x) /\ y \notin B(y)
      BY <1>4
    <2>2. /\ Cardinality(B(y)) <= Cardinality(B(x))
          /\ Cardinality(B(x)) = Cardinality(B(y)) => B(x) = B(y)
      <3> HIDE DEF B
      <3> QED
        BY <1>1, <2>1, FS_Subset
    <2>3. Cardinality(B(y)) < Cardinality(B(x))
      BY <1>1, <2>1, <2>2
    <2> QED
      BY <1>1, <1>2, <1>3, <2>3
  <1> QED
    BY <1>4

\* Newest first is a strict total order.
LEMMA NewerOrders ==
    ASSUME issue \in [Issues -> Rows]
    PROVE  /\ \A i \in Issues : ~Newer(i, i)
           /\ \A i, j, l \in Issues : Newer(i, j) /\ Newer(j, l) => Newer(i, l)
           /\ \A i, j \in Issues : i # j => Newer(i, j) \/ Newer(j, i)
  <1>1. \A i \in Issues : i \in Nat /\ issue[i].createdAt \in Nat
    BY IssuesAssumption DEF Rows
  <1> QED
    BY <1>1 DEF Newer

PageOf(S) == {i \in S : Cardinality({j \in S : Newer(j, i)}) < PageSize}

\* What is left when a page was taken is older than the whole page.
LEMMA PageIsNewest ==
    ASSUME issue \in [Issues -> Rows], NEW S \in SUBSET Issues, PageOf(S) # S
    PROVE  LET c == CHOOSE i \in PageOf(S) : \A j \in PageOf(S) \ {i} : Newer(j, i) IN
           /\ c \in PageOf(S)
           /\ \A j \in PageOf(S) \ {c} : Newer(j, c)
           /\ \A j \in S \ PageOf(S) : Newer(c, j)
  <1> DEFINE R == {p \in Issues \X Issues : Newer(p[1], p[2])}
             Q == {p \in Issues \X Issues : Newer(p[2], p[1])}
             B(x) == {j \in S : Newer(j, x)}
  <1>1. IsFiniteSet(S) /\ IsFiniteSet(PageOf(S)) /\ S # {}
    BY FiniteAssumption, FS_Subset DEF PageOf
  <1>2. \A x \in S : IsFiniteSet(B(x)) /\ Cardinality(B(x)) \in Nat
    <2>1. \A x \in S : B(x) \in SUBSET S
      OBVIOUS
    <2> QED
      BY <1>1, <2>1, FS_Subset, FS_CardinalityType
  <1>3. PageOf(S) # {}
    <2>1. \E x \in S : \A y \in S : <<y, x>> \notin R
      <3>1. /\ \A x \in S : <<x, x>> \notin R
            /\ \A x, y, z \in S : <<x, y>> \in R /\ <<y, z>> \in R => <<x, z>> \in R
        BY NewerOrders
      <3> HIDE DEF R
      <3> QED
        BY <1>1, <3>1, FirstExists
    <2>2. PICK x \in S : B(x) = {}
      BY <2>1
    <2>3. Cardinality(B(x)) = 0 /\ 0 < PageSize
      BY <2>2, FS_EmptySet, PageAssumption
    <2> QED
      BY <2>3 DEF PageOf
  <1>4. \E x \in PageOf(S) : \A y \in PageOf(S) \ {x} : Newer(y, x)
    <2>1. PageOf(S) \in SUBSET Issues
      BY DEF PageOf
    <2>2. PICK x \in PageOf(S) : \A y \in PageOf(S) : <<y, x>> \notin Q
      <3>1. /\ \A x \in PageOf(S) : <<x, x>> \notin Q
            /\ \A x, y, z \in PageOf(S) : <<x, y>> \in Q /\ <<y, z>> \in Q => <<x, z>> \in Q
        BY <2>1, NewerOrders
      <3> HIDE DEF Q
      <3> QED
        BY <1>1, <1>3, <3>1, FirstExists
    <2> QED
      BY <2>1, <2>2, NewerOrders
  <1>5. PICK c : c = CHOOSE i \in PageOf(S) : \A j \in PageOf(S) \ {i} : Newer(j, i)
    OBVIOUS
  <1>6. c \in PageOf(S) /\ \A j \in PageOf(S) \ {c} : Newer(j, c)
    BY <1>4, <1>5
  <1>7. ASSUME NEW j \in S \ PageOf(S), ~Newer(c, j) PROVE FALSE
    <2>1. c \in S /\ c # j /\ Newer(j, c)
      BY <1>6, <1>7, NewerOrders DEF PageOf
    <2>2. B(j) \in SUBSET B(c)
      BY <2>1, NewerOrders
    <2>3. Cardinality(B(j)) <= Cardinality(B(c))
      <3> HIDE DEF B
      <3> QED
        BY <1>2, <2>1, <2>2, FS_Subset
    <2>4. Cardinality(B(c)) < PageSize /\ ~(Cardinality(B(j)) < PageSize)
      BY <1>6, <1>7 DEF PageOf
    <2> HIDE DEF B
    <2> QED
      BY <1>2, <2>1, <2>3, <2>4, PageAssumption
  <1> QED
    BY <1>5, <1>6, <1>7

\* A reader of the list has seen the rows up to its cursor; what it owes and has
\* not seen comes after the cursor.
ListOK(k, d) ==
    k.op = "list" =>
        /\ k.again = FALSE
        /\ \A i \in d : i \in Issues /\ Open(i)
        /\ k.pc = "done" => d \subseteq k.seen
        /\ k.pc = "page" =>
            /\ k.cursor \in Issues \cup {0} /\ k.seen \subseteq Issues
            /\ k.cursor = 0 => k.seen = {}
            /\ k.cursor # 0 => \A s \in k.seen : s = k.cursor \/ Newer(s, k.cursor)
            /\ \A s \in k.seen \cup ({k.cursor} \ {0}) : Exists(s)
            /\ d \ k.seen \subseteq Rest(k.cursor)

ListInv == /\ DOMAIN due = Requests
           /\ \A r \in Requests : ListOK(request[r], due[r])

\* Issues come and go from the list, but their dates stay.
LEMMA ListStays ==
    ASSUME \A i \in Issues : Exists(i) => Exists(i)' /\ issue'[i].createdAt = issue[i].createdAt,
           NEW k, NEW d, NEW e, ListOK(k, d), e \subseteq d, \A i \in e : Open(i)'
    PROVE  ListOK(k, e)'
  <1> SUFFICES ASSUME k.op = "list", k.pc = "page"
               PROVE  /\ k.cursor # 0 => \A s \in k.seen : s = k.cursor \/ Newer(s, k.cursor)'
                      /\ \A s \in k.seen \cup ({k.cursor} \ {0}) : Exists(s)'
                      /\ e \ k.seen \subseteq Rest(k.cursor)'
    BY DEF ListOK
  <1>1. k.cursor # 0 => \A s \in k.seen : s = k.cursor \/ Newer(s, k.cursor)'
    BY DEF ListOK, Newer
  <1>2. \A s \in k.seen \cup ({k.cursor} \ {0}) : Exists(s)'
    BY DEF ListOK
  <1>3. ASSUME NEW i \in e \ k.seen PROVE i \in Rest(k.cursor)'
    <2>1. i \in Issues /\ Open(i) /\ Exists(i) /\ i \in Rest(k.cursor)
      BY DEF ListOK, Open, Exists
    <2>2. k.cursor # 0 => After(i, k.cursor)'
      BY <2>1 DEF ListOK, Rest, After, Newer
    <2> QED
      BY <2>1, <2>2 DEF Rest
  <1> QED
    BY <1>1, <1>2, <1>3

Oldest(page) == CHOOSE i \in page : \A j \in page \ {i} : Newer(j, i)

\* The next page: nothing again, and all that is owed until then.
LEMMA PageStep ==
    ASSUME LifecycleInv, NEW k, NEW d, ListOK(k, d), k.op = "list", k.pc = "page"
    PROVE  LET rest == Rest(k.cursor)
               page == PageOf(rest)
               seen == k.seen \cup page
               c == Oldest(page) IN
           /\ k.seen \cap page = {}
           /\ rest = page => d \subseteq seen
           /\ rest # page => /\ c \in Issues /\ c # 0 /\ seen \subseteq Issues
                             /\ \A s \in seen : s = c \/ Newer(s, c)
                             /\ \A s \in seen \cup {c} : Exists(s)
                             /\ d \ seen \subseteq Rest(c)
  <1>1. PICK rest : rest = Rest(k.cursor)
    OBVIOUS
  <1>2. PICK page : page = PageOf(rest)
    OBVIOUS
  <1>3. PICK seen : seen = k.seen \cup page
    OBVIOUS
  <1>4. PICK c : c = Oldest(page)
    OBVIOUS
  <1>5. issue \in [Issues -> Rows]
    BY DEF LifecycleInv, TablesOK
  <1>6. rest \subseteq Issues /\ page \subseteq rest /\ \A i \in rest : Open(i) /\ Exists(i)
    BY <1>1, <1>2 DEF Rest, PageOf, Open, Exists
  <1>7. \A s \in k.seen : \A i \in rest : s \in Issues /\ Newer(s, i)
    <2>1. \A i \in rest : k.cursor # 0 => k.cursor \in Issues /\ Newer(k.cursor, i)
      BY <1>1 DEF Rest, After, ListOK
    <2> QED
      BY <1>5, <1>6, <2>1, NewerOrders DEF ListOK
  <1>8. k.seen \cap page = {}
    BY <1>5, <1>6, <1>7, NewerOrders
  <1>9. rest = page => d \subseteq seen
    BY <1>1, <1>3 DEF ListOK
  <1>10. ASSUME rest # page
        PROVE  /\ c \in Issues /\ c # 0 /\ seen \subseteq Issues
               /\ \A s \in seen : s = c \/ Newer(s, c)
               /\ \A s \in seen \cup {c} : Exists(s)
               /\ d \ seen \subseteq Rest(c)
    <2>1. c \in page /\ (\A j \in page \ {c} : Newer(j, c)) /\ \A j \in rest \ page : Newer(c, j)
      BY <1>2, <1>4, <1>5, <1>6, <1>10, PageIsNewest DEF Oldest
    <2>2. c \in Issues /\ c # 0 /\ seen \subseteq Issues
      BY <1>3, <1>6, <2>1, IssuesAssumption DEF ListOK
    <2>3. \A s \in seen : s = c \/ Newer(s, c)
      BY <1>3, <1>6, <1>7, <2>1
    <2>4. \A s \in seen \cup {c} : Exists(s)
      BY <1>3, <1>6, <2>1 DEF ListOK
    <2>5. ASSUME NEW i \in d \ seen PROVE i \in Rest(c)
      <3>1. i \in rest \ page
        BY <1>1, <1>3 DEF ListOK
      <3> QED
        BY <1>6, <2>1, <3>1 DEF Rest, After
    <2> QED
      BY <2>2, <2>3, <2>4, <2>5
  <1> QED
    BY <1>1, <1>2, <1>3, <1>4, <1>8, <1>9, <1>10

\* A step of a request that is no list afterwards, and closes no issue that is
\* owed.
LEMMA OtherStep ==
    ASSUME LifecycleInv, ListInv, NEW r \in Requests,
           NEW x, x.op # "list", request' = [request EXCEPT ![r] = x],
           \A i \in Issues : Exists(i) => Exists(i)' /\ issue'[i].createdAt = issue[i].createdAt,
           DOMAIN due' = DOMAIN due, \A q \in Requests : due'[q] \subseteq due[q],
           \A q \in Requests : \A i \in due'[q] : i \in Issues /\ Open(i) => Open(i)'
    PROVE  ListInv'
  <1>1. \A q \in Requests : request'[q] = IF q = r THEN x ELSE request[q]
    BY DEF LifecycleInv
  <1>2. ASSUME NEW q \in Requests, q # r, request[q].op = "list"
        PROVE  ListOK(request[q], due[q])'
    <2>1. PICK k, d, e : k = request[q] /\ d = due[q] /\ e = due'[q]
      OBVIOUS
    <2>2. ListOK(k, d) /\ e \subseteq d
      BY <2>1 DEF ListInv
    <2>3. k = request'[q]
      BY <1>1, <1>2, <2>1
    <2>4. \A i \in e : Open(i)'
      BY <1>2, <2>1, <2>2 DEF ListOK
    <2>5. ListOK(k, e)'
      BY <2>2, <2>4, ListStays
    <2> QED
      BY <2>1, <2>3, <2>5 DEF ListOK, Open, Exists, Newer, Rest, After
  <1>3. ASSUME NEW q \in Requests PROVE ListOK(request[q], due[q])'
    BY <1>1, <1>2 DEF ListOK
  <1> QED
    BY <1>3 DEF ListInv

\* No command but the change of a status closes an issue.
LEMMA CommandsKeepLists ==
    ASSUME LifecycleInv, ListInv, NEW r \in Requests,
           Commands(r) \/ Reads(r) \/ Commits(r) \/ End(r)
    PROVE  ListInv'
  <1>1. \A i \in Issues : issue[i] \in Rows
    BY DEF LifecycleInv, TablesOK
  <1>2. RequestRecord(request[r]) /\ RequestOK(request[r])
    BY DEF LifecycleInv
  <1>3. ASSUME NEW x, x.op # "list", request' = [request EXCEPT ![r] = x],
               UNCHANGED issue, DOMAIN due' = DOMAIN due,
               \A q \in Requests : due'[q] \subseteq due[q]
        PROVE  ListInv'
    BY <1>3, OtherStep DEF Exists, Open
  <1>4. CASE Commands(r)
    <2>1. PICK i \in Issues :
              \/ BeginStatus(r, i) \/ BeginStatement(r, i)
              \/ \E u \in Users : \/ BeginCreate(r, i, u) \/ BeginConfirm(r, i, u)
                                  \/ BeginDetails(r, i, u)
      BY <1>4 DEF Commands
    <2>2. ASSUME BeginStatus(r, i) PROVE ListInv'
      <3>1. PICK target : request' = [request EXCEPT ![r] = [Locked("status", i, "NONE") EXCEPT
                                                         !.now = clock', !.target = target]]
        BY <2>2 DEF BeginStatus
      <3>2. PICK x : x = [Locked("status", i, "NONE") EXCEPT !.now = clock', !.target = target]
        OBVIOUS
      <3>3. x.op # "list"
        BY <3>2 DEF Locked, Idle
      <3> QED
        BY <1>3, <2>2, <3>1, <3>2, <3>3 DEF BeginStatus, tables
    <2>3. ASSUME BeginStatement(r, i) PROVE ListInv'
      <3>1. PICK x : x = [Locked("statement", i, "NONE") EXCEPT !.now = clock',
                                                                !.version = NextVersion(i)]
        OBVIOUS
      <3>2. x.op # "list"
        BY <3>1 DEF Locked, Idle
      <3> QED
        BY <1>3, <2>3, <3>1, <3>2 DEF BeginStatement, tables
    <2>4. ASSUME NEW u \in Users, BeginCreate(r, i, u) PROVE ListInv'
      <3>1. PICK x : x = [Idle EXCEPT !.op = "create", !.pc = "locked", !.issue = i,
                                      !.user = u, !.now = clock']
        OBVIOUS
      <3>2. x.op # "list"
        BY <3>1 DEF Idle
      <3> QED
        BY <1>3, <2>4, <3>1, <3>2 DEF BeginCreate, tables
    <2>5. ASSUME NEW u \in Users, BeginConfirm(r, i, u) PROVE ListInv'
      <3>1. PICK x : x = [Locked("confirm", i, u) EXCEPT !.now = clock']
        OBVIOUS
      <3>2. x.op # "list"
        BY <3>1 DEF Locked, Idle
      <3> QED
        BY <1>3, <2>5, <3>1, <3>2 DEF BeginConfirm, tables
    <2>6. ASSUME NEW u \in Users, BeginDetails(r, i, u) PROVE ListInv'
      <3>1. PICK x : x = Locked("details", i, u)
        OBVIOUS
      <3>2. x.op # "list"
        BY <3>1 DEF Locked, Idle
      <3> QED
        BY <1>3, <2>6, <3>1, <3>2 DEF BeginDetails, tables
    <2> QED
      BY <2>1, <2>2, <2>3, <2>4, <2>5, <2>6
  <1>5. CASE Reads(r)
    <2>1. UNCHANGED <<issue, due>>
      BY <1>5 DEF Reads, ReadConfirmed, ReadTimeline, ReadStatement, tables
    <2>2. request'[r].op # "list"
      BY <1>2, <1>5 DEF Reads, ReadConfirmed, ReadTimeline, ReadStatement, LifecycleInv,
                        RequestRecord
    <2>3. PICK x : x = request'[r]
      OBVIOUS
    <2>4. request' = [request EXCEPT ![r] = x]
      BY <1>5, <2>3 DEF Reads, ReadConfirmed, ReadTimeline, ReadStatement, LifecycleInv
    <2> QED
      BY <1>3, <2>1, <2>2, <2>3, <2>4
  <1>6. CASE Commits(r)
    <2>1. PICK k, x : k = request[r] /\ x = Idle
      OBVIOUS
    <2>2. x.op # "list" /\ request' = [request EXCEPT ![r] = x]
      BY <1>6, <2>1 DEF Commits, CommitCreate, CommitConfirm, CommitStatus, CommitStatement, Idle
    <2>3. CASE CommitCreate(r)
      <3>1. k.issue \in Issues /\ ~Exists(k.issue) /\ due' = due
        BY <1>2, <2>1, <2>3 DEF CommitCreate, RequestOK, WorkerOK, Works
      <3>2. issue' = [issue EXCEPT ![k.issue] =
                        [NoIssue EXCEPT !.status = "DETECTED", !.by = k.user, !.createdAt = k.now]]
        BY <2>1, <2>3 DEF CommitCreate
      <3>3. \A i \in Issues : Exists(i) => issue'[i] = issue[i]
        BY <3>1, <3>2 DEF LifecycleInv, TablesOK
      <3> QED
        BY <2>2, <3>1, <3>3, OtherStep DEF Exists, Open
    <2>4. CASE CommitConfirm(r)
      <3>1. /\ due' = due
            /\ issue' = [issue EXCEPT ![k.issue].count = issue[k.issue].count + 1]
        BY <2>1, <2>4 DEF CommitConfirm
      <3>2. \A i \in Issues : issue'[i].status = issue[i].status
                             /\ issue'[i].createdAt = issue[i].createdAt
        BY <1>1, <3>1 DEF LifecycleInv, TablesOK, Rows
      <3> QED
        BY <2>2, <3>1, <3>2, OtherStep DEF Exists, Open
    <2>5. CASE CommitStatus(r)
      <3>1. k.issue \in Issues /\ k.target \in Statuses /\ k.target # "NONE"
        BY <1>2, <2>1, <2>5
           DEF CommitStatus, RequestOK, WorkerOK, Works, Locks, Statuses, Successor
      <3>2. /\ issue' = [issue EXCEPT ![k.issue].status = k.target,
                                      ![k.issue].resolvedAt = ResolvedAt(k)]
            /\ due' = IF k.target = "RESOLVED"
                      THEN [q \in Requests |-> due[q] \ {k.issue}] ELSE due
        BY <2>1, <2>5 DEF CommitStatus
      <3>3. \A i \in Issues : /\ issue'[i].createdAt = issue[i].createdAt
                             /\ issue'[i].status = IF i = k.issue THEN k.target ELSE issue[i].status
        BY <1>1, <3>1, <3>2 DEF LifecycleInv, TablesOK, Rows
      <3>4. /\ DOMAIN due' = DOMAIN due
            /\ \A q \in Requests : due'[q] \subseteq due[q]
                                  /\ (k.target = "RESOLVED" => k.issue \notin due'[q])
        BY <3>2 DEF ListInv
      <3> QED
        BY <2>2, <3>1, <3>3, <3>4, OtherStep DEF Exists, Open
    <2>6. CASE CommitStatement(r)
      BY <1>3, <2>2, <2>6 DEF CommitStatement
    <2> QED
      BY <1>6, <2>3, <2>4, <2>5, <2>6 DEF Commits
  <1>7. CASE End(r)
    <2>1. PICK x : x = Idle
      OBVIOUS
    <2>2. x.op # "list" /\ request' = [request EXCEPT ![r] = x]
      BY <1>7, <2>1 DEF End, Idle
    <2>3. UNCHANGED issue /\ due' = [due EXCEPT ![r] = {}]
      BY <1>7 DEF End, tables
    <2>4. DOMAIN due' = DOMAIN due /\ \A q \in Requests : due'[q] \subseteq due[q]
      BY <2>3 DEF ListInv
    <2> QED
      BY <1>3, <2>2, <2>3, <2>4
  <1> QED
    BY <1>4, <1>5, <1>6, <1>7

Again(k, page) == k.again \/ k.seen \cap page # {}

\* A list is begun, or shows its next page.
LEMMA ListSteps ==
    ASSUME LifecycleInv, ListInv, NEW r \in Requests, BeginList(r) \/ NextPage(r)
    PROVE  ListInv'
  <1>1. ASSUME NEW x, request' = [request EXCEPT ![r] = x], UNCHANGED tables,
               DOMAIN due' = DOMAIN due, \A q \in Requests \ {r} : due'[q] = due[q],
               ListOK(x, due'[r])
        PROVE  ListInv'
    <2>1. \A q \in Requests : request'[q] = IF q = r THEN x ELSE request[q]
      BY <1>1 DEF LifecycleInv
    <2>2. ASSUME NEW q \in Requests PROVE ListOK(request'[q], due'[q])
      BY <1>1, <2>1 DEF ListInv
    <2>3. ASSUME NEW k, NEW d, ListOK(k, d) PROVE ListOK(k, d)'
      BY <1>1, <2>3 DEF ListOK, Open, Exists, Newer, Rest, After, tables
    <2>4. ASSUME NEW q \in Requests PROVE ListOK(request[q], due[q])'
      <3>1. PICK k, d : k = request'[q] /\ d = due'[q]
        OBVIOUS
      <3>2. ListOK(k, d)'
        BY <2>2, <2>3, <3>1
      <3> QED
        BY <3>1, <3>2 DEF ListOK, Open, Exists, Newer, Rest, After
    <2> QED
      BY <1>1, <2>4 DEF ListInv
  <1>2. CASE BeginList(r)
    <2>1. PICK x : x = [Idle EXCEPT !.op = "list", !.pc = "page"]
      OBVIOUS
    <2>2. /\ x.pc = "page" /\ x.again = FALSE /\ x.seen = {} /\ x.cursor = 0
      BY <2>1 DEF Idle
    <2>3. /\ UNCHANGED tables /\ request' = [request EXCEPT ![r] = x]
          /\ due' = [due EXCEPT ![r] = {i \in Issues : Open(i)}]
      BY <1>2, <2>1 DEF BeginList
    <2>4. DOMAIN due' = DOMAIN due /\ due'[r] = {i \in Issues : Open(i)}
          /\ \A q \in Requests \ {r} : due'[q] = due[q]
      BY <2>3 DEF ListInv
    <2>5. ListOK(x, due'[r])
      BY <2>2, <2>4 DEF ListOK, Rest
    <2> QED
      BY <1>1, <2>3, <2>4, <2>5
  <1>3. CASE NextPage(r)
    <2>1. PICK k, d : k = request[r] /\ d = due[r]
      OBVIOUS
    <2>2. PICK rest : rest = Rest(k.cursor)
      OBVIOUS
    <2>3. PICK page : page = PageOf(rest)
      OBVIOUS
    <2>4. PICK c : c = Oldest(page)
      OBVIOUS
    <2>5. PICK seen : seen = k.seen \cup page
      OBVIOUS
    <2>6. PICK again : again = Again(k, page)
      OBVIOUS
    <2>7. k.op = "list" /\ k.pc = "page" /\ ListOK(k, d) /\ UNCHANGED <<tables, due>>
      BY <1>3, <2>1 DEF NextPage, ListInv
    <2>8. /\ k.seen \cap page = {}
          /\ rest = page => d \subseteq seen
          /\ rest # page => /\ c \in Issues /\ c # 0 /\ seen \subseteq Issues
                            /\ \A s \in seen : s = c \/ Newer(s, c)
                            /\ \A s \in seen \cup {c} : Exists(s)
                            /\ d \ seen \subseteq Rest(c)
      BY <2>2, <2>3, <2>4, <2>5, <2>7, PageStep
    <2>9. again = FALSE
      <3>1. ~Again(k, page)
        BY <2>7, <2>8 DEF Again, ListOK
      <3> QED
        BY <2>6, <3>1
    <2>10. PICK cursor, pc : /\ cursor = IF rest # page THEN c ELSE 0
                             /\ pc = IF rest # page THEN "page" ELSE "done"
      OBVIOUS
    <2>11. request' = [request EXCEPT ![r].seen = seen, ![r].again = again,
                                      ![r].cursor = cursor, ![r].pc = pc]
      <3>1. request' = [request EXCEPT
                ![r].seen = request[r].seen \cup PageOf(Rest(request[r].cursor)),
                ![r].again = Again(request[r], PageOf(Rest(request[r].cursor))),
                ![r].cursor = IF Rest(request[r].cursor) # PageOf(Rest(request[r].cursor))
                              THEN Oldest(PageOf(Rest(request[r].cursor)))
                              ELSE 0,
                ![r].pc = IF Rest(request[r].cursor) # PageOf(Rest(request[r].cursor))
                          THEN "page" ELSE "done"]
        BY <1>3, Zenon DEF NextPage, PageOf, Oldest, Again
      <3> QED
        BY <2>1, <2>2, <2>3, <2>4, <2>5, <2>6, <2>10, <3>1
    <2>12. PICK x : x = [k EXCEPT !.seen = seen, !.again = again, !.cursor = cursor, !.pc = pc]
      OBVIOUS
    <2>13. request' = [request EXCEPT ![r] = x]
      BY <2>1, <2>11, <2>12 DEF LifecycleInv
    <2>14. RequestRecord(k)
      BY <2>1 DEF LifecycleInv
    <2>15. x.seen = seen /\ x.again = again /\ x.cursor = cursor /\ x.pc = pc
      BY <2>12, <2>14 DEF RequestRecord
    <2>16. ListOK(x, d)
      BY <2>7, <2>8, <2>9, <2>10, <2>15 DEF ListOK
    <2> QED
      BY <1>1, <2>1, <2>7, <2>13, <2>16
  <1> QED
    BY <1>2, <1>3

\* A list read to its end shows every issue that was open all the time, and none
\* twice.
THEOREM ListsAreComplete == LifecycleSpec => []ListIsComplete
  <1>1. LifecycleInit => ListInv
    BY DEF LifecycleInit, ListInv, ListOK, Idle
  <1>2. LifecycleInv /\ ListInv /\ [LifecycleNext]_vars => ListInv'
    <2>1. ASSUME LifecycleInv, ListInv, NEW r \in Requests,
                 Commands(r) \/ Commits(r) \/ Reads(r) \/ BeginList(r) \/ NextPage(r) \/ End(r)
          PROVE  ListInv'
      BY <2>1, CommandsKeepLists, ListSteps
    <2>2. ASSUME ListInv, UNCHANGED vars PROVE ListInv'
      BY <2>2 DEF ListInv, ListOK, Open, Exists, Newer, Rest, After, vars
    <2> QED
      BY <2>1, <2>2 DEF LifecycleNext
  <1>3. ListInv => ListIsComplete
    BY DEF ListInv, ListOK, ListIsComplete
  <1> QED
    BY <1>1, <1>2, <1>3, LifecycleInvariant, PTL DEF LifecycleSpec


=============================================================================

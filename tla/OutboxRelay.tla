------------------------------ MODULE OutboxRelay ------------------------------
(***************************************************************************)
(* The relays that copy outbox rows to the Redis stream: PublishBatch of   *)
(* identity-service and issue-service, processBatch of community-service.  *)
(* Any number of processes of one service run the same relay.              *)
(*                                                                         *)
(* identity and issue read a batch with FOR UPDATE SKIP LOCKED and keep    *)
(* the transaction open while they append to the stream; the first failed  *)
(* append ends the batch, and what was appended before is committed.       *)
(* issue also postpones the failed row.  community runs the same SELECT    *)
(* outside a transaction, so its locks end with the statement; it skips    *)
(* rows it cannot append and marks the others in one statement at the end. *)
(*                                                                         *)
(* A relay may stop at any point (crash, shutdown, the deadline of the     *)
(* batch, an error of PostgreSQL): an open transaction is rolled back.     *)
(* Redis may execute an append whose answer is lost.                       *)
(***************************************************************************)
EXTENDS Naturals, FiniteSets

CONSTANTS
    Relays,         \* processes of the service
    Rows,           \* outbox rows, in the order of their timestamps
    BatchSize,      \* LIMIT of the SELECT (100)
    Services        \* which of the three relays to consider

ASSUME RowsAssumption == Rows \subseteq Nat
ASSUME BatchAssumption == BatchSize \in Nat \ {0}
ASSUME ServicesAssumption == Services \subseteq {"identity", "issue", "community"}

VARIABLES
    service,    \* whose relay it is; fixed
    outbox,     \* status of a row: not inserted, pending, published
    postponed,  \* rows with next_attempt_at in the future
    appended,   \* entries of the stream for a row: none, one, several
    relay,      \* a relay: rows it took, marked and could not append
    faulty,     \* Redis, PostgreSQL and the processes may still fail
    torn        \* history: rows appended by a batch that could not mark them

relayVars == <<service, outbox, postponed, appended, relay, faulty, torn>>

Sleeping == [pc |-> "sleep", batch |-> {}, marked |-> {}, failed |-> {}]
Batch == [pc : {"sleep", "publish"}, batch : SUBSET Rows, marked : SUBSET Rows,
          failed : SUBSET Rows]

Least(S) == CHOOSE e \in S : \A f \in S : e <= f

\* Fault: locked rows are not skipped.
LockedByNobody(r) == {}

\* Rows the open transactions of other relays hold.
Locked(r) ==
    IF service = "community" THEN {}
    ELSE UNION {relay[q].batch \cup relay[q].marked \cup relay[q].failed :
                q \in Relays \ {r}}

\* Fault: a row that failed is not tried again.
DueOnce(e) == outbox[e] = "pending" /\ e \notin postponed
              /\ \A r \in Relays : appended[e] = 0

Due(e) == outbox[e] = "pending" /\ e \notin postponed

FirstRows(S) == {e \in S : Cardinality({f \in S : f < e}) < BatchSize}

-----------------------------------------------------------------------------
\* A business transaction of the service commits with its row; rows may become
\* visible in another order than that of their timestamps.
Insert(e) ==
    /\ outbox[e] = "none"
    /\ outbox' = [outbox EXCEPT ![e] = "pending"]
    /\ UNCHANGED <<service, postponed, appended, relay, faulty, torn>>

\* The SELECT.
BeginBatch(r) ==
    LET batch == FirstRows({e \in Rows : Due(e)} \ Locked(r)) IN
    /\ relay[r].pc = "sleep"
    /\ batch # {}
    /\ relay' = [relay EXCEPT ![r] = [pc |-> "publish", batch |-> batch,
                                      marked |-> {}, failed |-> {}]]
    /\ UNCHANGED <<service, outbox, postponed, appended, faulty, torn>>

MoreThan(n) == IF n < 2 THEN n + 1 ELSE 2

\* XADD of the oldest row left, and its UPDATE in the open transaction.
AppendRow(r) ==
    LET e == Least(relay[r].batch) IN
    /\ relay[r].pc = "publish" /\ relay[r].batch # {}
    /\ appended' = [appended EXCEPT ![e] = MoreThan(@)]
    /\ relay' = [relay EXCEPT ![r].batch = @ \ {e}, ![r].marked = @ \cup {e}]
    /\ UNCHANGED <<service, outbox, postponed, faulty, torn>>

\* Fault: the failed row is marked with the others.
FailedMarked(k, e) == [k EXCEPT !.batch = @ \ {e}, !.marked = @ \cup {e}]

\* Where a relay goes on without row e.
Failed(k, e) ==
    IF service = "community" THEN [k EXCEPT !.batch = @ \ {e}]
                             ELSE [k EXCEPT !.batch = {}, !.failed = {e}]

\* XADD reports an error, whether it was executed or not.
AppendFails(r) ==
    LET e == Least(relay[r].batch) IN
    /\ faulty
    /\ relay[r].pc = "publish" /\ relay[r].batch # {}
    /\ \/ UNCHANGED <<appended, torn>>
       \/ /\ appended' = [appended EXCEPT ![e] = MoreThan(@)]
          /\ torn' = torn \cup {e}
    /\ relay' = [relay EXCEPT ![r] = Failed(@, e)]
    /\ UNCHANGED <<service, outbox, postponed, faulty>>

\* Fault: the whole batch is postponed.
BackedOffAll(k) == IF service = "issue" THEN k.failed \cup k.marked ELSE {}

\* Rows whose next_attempt_at moves into the future.
BackedOff(k) == IF service = "issue" THEN k.failed ELSE {}

\* COMMIT, or the UPDATE of community.
CommitBatch(r) ==
    /\ relay[r].pc = "publish" /\ relay[r].batch = {}
    /\ outbox' = [e \in Rows |-> IF e \in relay[r].marked THEN "published" ELSE outbox[e]]
    /\ postponed' = postponed \cup BackedOff(relay[r])
    /\ relay' = [relay EXCEPT ![r] = Sleeping]
    /\ UNCHANGED <<service, appended, faulty, torn>>

\* The batch is cut off; PostgreSQL rolls an open transaction back.
StopBatch(r) ==
    /\ faulty
    /\ relay[r].pc = "publish"
    /\ relay' = [relay EXCEPT ![r] = Sleeping]
    /\ torn' = torn \cup relay[r].marked
    /\ UNCHANGED <<service, outbox, postponed, appended, faulty>>

\* next_attempt_at is reached, at most 256 seconds later.
BackoffEnds(e) ==
    /\ e \in postponed
    /\ postponed' = postponed \ {e}
    /\ UNCHANGED <<service, outbox, appended, relay, faulty, torn>>

Recover ==
    /\ faulty /\ faulty' = FALSE
    /\ UNCHANGED <<service, outbox, postponed, appended, relay, torn>>

-----------------------------------------------------------------------------
RelayInit ==
    /\ service \in Services
    /\ outbox = [e \in Rows |-> "none"]
    /\ postponed = {}
    /\ appended = [e \in Rows |-> 0]
    /\ relay = [r \in Relays |-> Sleeping]
    /\ faulty = TRUE
    /\ torn = {}

RelayNext ==
    \/ \E e \in Rows : Insert(e) \/ BackoffEnds(e)
    \/ \E r \in Relays : \/ BeginBatch(r) \/ AppendRow(r) \/ AppendFails(r)
                         \/ CommitBatch(r) \/ StopBatch(r)
    \/ Recover

RelaySpec == RelayInit /\ [][RelayNext]_relayVars

\* A relay runs on its ticker for ever, and the back-off of a row ends.
RelayFairness ==
    /\ \A r \in Relays : WF_relayVars(BeginBatch(r) \/ AppendRow(r) \/ CommitBatch(r))
    /\ \A e \in Rows : WF_relayVars(BackoffEnds(e))

FairRelaySpec == RelaySpec /\ RelayFairness

-----------------------------------------------------------------------------
(* Safety.                                                                 *)

\* Rows, entries and batches have their types, and only a row that is still to
\* be published is postponed.
RelayTypeOK ==
    /\ service \in Services
    /\ outbox \in [Rows -> {"none", "pending", "published"}]
    /\ postponed \subseteq {e \in Rows : outbox[e] = "pending"}
    /\ appended \in [Rows -> 0..2]
    /\ relay \in [Relays -> Batch]
    /\ faulty \in BOOLEAN
    /\ torn \subseteq Rows

\* At least once, and nothing that was not committed: a row is marked as
\* published only when the stream has it, and the stream has only rows whose
\* transaction committed (services/issue-service/README.md:102).
PublishedWasAppended ==
    \A e \in Rows : /\ outbox[e] = "published" => appended[e] > 0
                    /\ appended[e] > 0 => outbox[e] # "none"

\* A relay that holds its locks through the append never repeats a row without
\* a failure, however many processes run it; an event comes twice only when a
\* batch was cut off or an answer of Redis was lost.
RepeatNeedsFailure ==
    service # "community" =>
        \A e \in Rows : appended[e] > 1 => e \in torn

-----------------------------------------------------------------------------
(* Liveness.                                                               *)

\* Once the failures end every committed row is published: one that failed
\* before, one that was postponed, and one that arrives behind them.
EveryRowIsPublished ==
    <>(~faulty) => \A e \in Rows : outbox[e] = "pending" ~> outbox[e] = "published"
=============================================================================

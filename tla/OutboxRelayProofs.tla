--------------------------- MODULE OutboxRelayProofs ---------------------------
(***************************************************************************)
(* Proofs about the outbox relays, for any number of processes and rows,   *)
(* every batch size and each of the three services.                        *)
(***************************************************************************)
EXTENDS OutboxRelay, WellFoundedInduction, TLAPS

Held(r) == relay[r].batch \cup relay[r].marked \cup relay[r].failed

\* A sleeping relay holds nothing, and what it works on was committed.
BatchesAreRows ==
    \A r \in Relays : /\ relay[r].pc = "sleep" => Held(r) = {}
                      /\ \A e \in Held(r) : outbox[e] # "none"
                      /\ \A e \in relay[r].marked : appended[e] > 0

Locking == service # "community"

\* A row in the hands of a locking relay is pending, due, in one hand, and not
\* appended yet by this hand.
LocksHold ==
    Locking => \A r \in Relays :
        /\ \A e \in Held(r) : outbox[e] = "pending" /\ e \notin postponed
        /\ \A q \in Relays \ {r} : Held(r) \cap Held(q) = {}
        /\ relay[r].batch \cap relay[r].marked = {}
        /\ relay[r].failed \cap (relay[r].batch \cup relay[r].marked) = {}

\* An appended row that is still pending is in a transaction or was torn.
AppendedIsMarked ==
    Locking => \A e \in Rows :
        appended[e] > 0 /\ outbox[e] = "pending" /\ e \notin torn
            => \E r \in Relays : e \in relay[r].marked

OnlyIssuePostpones == service # "issue" => postponed = {}

RelayInv ==
    /\ RelayTypeOK
    /\ BatchesAreRows
    /\ LocksHold
    /\ AppendedIsMarked
    /\ OnlyIssuePostpones
    /\ PublishedWasAppended
    /\ RepeatNeedsFailure

-----------------------------------------------------------------------------
\* The oldest row of a batch is one of them.
LEMMA LeastIsMember ==
    ASSUME NEW S, S \subseteq Rows, S # {}
    PROVE  Least(S) \in S
  <1>1. S \subseteq Nat
    BY RowsAssumption
  <1>2. \E x \in S : \A y \in S : ~ (<<y, x>> \in OpToRel(<, Nat))
    BY <1>1, WFMin, NatLessThanWellFounded
  <1>3. \E x \in S : \A y \in S : x <= y
    <2>1. PICK x \in S : \A y \in S : ~ (<<y, x>> \in OpToRel(<, Nat))
      BY <1>2
    <2>2. \A y \in S : ~ (y < x)
      BY <1>1, <2>1 DEF OpToRel
    <2> QED
      BY <1>1, <2>2
  <1> QED
    BY <1>3 DEF Least

LEMMA InitRelay == RelayInit => RelayInv
  BY DEF RelayInit, RelayInv, RelayTypeOK, BatchesAreRows, LocksHold, Locking,
     AppendedIsMarked, OnlyIssuePostpones, PublishedWasAppended,
     RepeatNeedsFailure, Held, Sleeping, Batch

LEMMA InsertStep ==
    ASSUME RelayInv, NEW e \in Rows, Insert(e)
    PROVE  RelayInv'
  BY DEF Insert, RelayInv, RelayTypeOK, BatchesAreRows, LocksHold, Locking,
     AppendedIsMarked, OnlyIssuePostpones, PublishedWasAppended,
     RepeatNeedsFailure, Held

LEMMA QuietStep ==
    ASSUME RelayInv, (\E e \in Rows : BackoffEnds(e)) \/ Recover \/ UNCHANGED relayVars
    PROVE  RelayInv'
  BY DEF BackoffEnds, Recover, relayVars, RelayInv, RelayTypeOK, BatchesAreRows,
     LocksHold, Locking, AppendedIsMarked, OnlyIssuePostpones,
     PublishedWasAppended, RepeatNeedsFailure, Held

LEMMA BeginStep ==
    ASSUME RelayInv, NEW r \in Relays, BeginBatch(r)
    PROVE  RelayInv'
  <1> DEFINE batch == FirstRows({e \in Rows : Due(e)} \ Locked(r))
  <1>1. /\ relay[r].pc = "sleep"
        /\ relay' = [relay EXCEPT ![r] = [pc |-> "publish", batch |-> batch,
                                          marked |-> {}, failed |-> {}]]
        /\ UNCHANGED <<service, outbox, postponed, appended, faulty, torn>>
    BY DEF BeginBatch
  <1>2. \A e \in batch : e \in Rows /\ outbox[e] = "pending" /\ e \notin postponed
    BY DEF FirstRows, Due
  <1>3. Locking => \A q \in Relays \ {r} : batch \cap Held(q) = {}
    BY DEF FirstRows, Locked, Locking, Held
  <1> HIDE DEF batch
  <1>4. Held(r) = {}
    BY <1>1 DEF RelayInv, BatchesAreRows
  <1>5. /\ Held(r)' = batch
        /\ relay'[r].batch = batch /\ relay'[r].marked = {} /\ relay'[r].failed = {}
        /\ relay'[r].pc = "publish"
        /\ \A q \in Relays \ {r} : relay'[q] = relay[q] /\ Held(q)' = Held(q)
    BY <1>1 DEF RelayInv, RelayTypeOK, Held
  <1>6. RelayTypeOK'
    BY <1>1, <1>2 DEF RelayInv, RelayTypeOK, Batch
  <1>7. BatchesAreRows'
    BY <1>1, <1>2, <1>5 DEF RelayInv, BatchesAreRows
  <1>8. LocksHold'
    BY <1>1, <1>2, <1>3, <1>5 DEF RelayInv, LocksHold, Locking
  <1>9. AppendedIsMarked'
    BY <1>1, <1>4, <1>5 DEF RelayInv, AppendedIsMarked, Locking, Held
  <1> QED
    BY <1>1, <1>6, <1>7, <1>8, <1>9
    DEF RelayInv, OnlyIssuePostpones, PublishedWasAppended, RepeatNeedsFailure

LEMMA AppendStep ==
    ASSUME RelayInv, NEW r \in Relays, AppendRow(r)
    PROVE  RelayInv'
  <1> DEFINE e == Least(relay[r].batch)
  <1>1. /\ relay[r].pc = "publish" /\ relay[r].batch # {}
        /\ appended' = [appended EXCEPT ![e] = MoreThan(@)]
        /\ relay' = [relay EXCEPT ![r].batch = @ \ {e}, ![r].marked = @ \cup {e}]
        /\ UNCHANGED <<service, outbox, postponed, faulty, torn>>
    BY DEF AppendRow
  <1>2. e \in relay[r].batch /\ e \in Rows
    BY <1>1, LeastIsMember DEF RelayInv, RelayTypeOK, Batch
  <1> HIDE DEF e
  <1>3. relay[r] \in Batch
    BY DEF RelayInv, RelayTypeOK
  <1>4. /\ relay'[r].batch = relay[r].batch \ {e}
        /\ relay'[r].marked = relay[r].marked \cup {e}
        /\ relay'[r].failed = relay[r].failed
        /\ relay'[r].pc = relay[r].pc
        /\ \A q \in Relays \ {r} : relay'[q] = relay[q]
        /\ relay' \in [Relays -> Batch]
    BY <1>1, <1>2, <1>3 DEF RelayInv, RelayTypeOK, Batch
  <1>5. /\ Held(r)' = Held(r)
        /\ \A q \in Relays \ {r} : Held(q)' = Held(q)
    BY <1>2, <1>4 DEF Held
  <1>6. /\ appended' \in [Rows -> 0..2]
        /\ appended'[e] > 0
        /\ appended'[e] > 1 => appended[e] > 0
        /\ \A f \in Rows \ {e} : appended'[f] = appended[f]
    BY <1>1, <1>2 DEF RelayInv, RelayTypeOK, MoreThan
  <1>7. e \in Held(r) /\ (Locking => e \notin relay[r].marked)
    BY <1>2 DEF Held, RelayInv, LocksHold
  <1>8. RelayTypeOK'
    BY <1>1, <1>4, <1>6 DEF RelayInv, RelayTypeOK
  <1>9. BatchesAreRows'
    <2>1. \A q \in Relays : relay[q].marked \subseteq Rows
      BY DEF RelayInv, RelayTypeOK, Batch
    <2> QED
      BY <1>1, <1>4, <1>5, <1>6, <2>1 DEF RelayInv, BatchesAreRows
  <1>10. LocksHold'
    <2>1. Locking => relay[r].failed \cap relay'[r].marked = {}
      BY <1>4, <1>2 DEF RelayInv, LocksHold, Held
    <2> QED
      BY <1>1, <1>4, <1>5, <2>1 DEF RelayInv, LocksHold, Locking
  <1>11. AppendedIsMarked'
    BY <1>1, <1>4, <1>6 DEF RelayInv, AppendedIsMarked, Locking
  <1>12. PublishedWasAppended'
    BY <1>1, <1>6, <1>7 DEF RelayInv, PublishedWasAppended, BatchesAreRows
  <1>13. RepeatNeedsFailure'
    <2>1. Locking /\ appended[e] > 0 => e \in torn
      BY <1>2, <1>7 DEF RelayInv, AppendedIsMarked, LocksHold, Held
    <2> QED
      BY <1>1, <1>6, <2>1 DEF RelayInv, RepeatNeedsFailure, Locking
  <1> QED
    BY <1>1, <1>8, <1>9, <1>10, <1>11, <1>12, <1>13 DEF RelayInv, OnlyIssuePostpones

LEMMA AppendFailsStep ==
    ASSUME RelayInv, NEW r \in Relays, AppendFails(r)
    PROVE  RelayInv'
  <1> DEFINE e == Least(relay[r].batch)
  <1>1. /\ relay[r].pc = "publish" /\ relay[r].batch # {}
        /\ \/ UNCHANGED <<appended, torn>>
           \/ /\ appended' = [appended EXCEPT ![e] = MoreThan(@)]
              /\ torn' = torn \cup {e}
        /\ relay' = [relay EXCEPT ![r] = Failed(@, e)]
        /\ UNCHANGED <<service, outbox, postponed, faulty>>
    BY DEF AppendFails
  <1>2. e \in relay[r].batch /\ e \in Rows
    BY <1>1, LeastIsMember DEF RelayInv, RelayTypeOK, Batch
  <1> HIDE DEF e
  <1>3. relay[r] \in Batch
    BY DEF RelayInv, RelayTypeOK
  <1>4. /\ relay'[r].marked = relay[r].marked
        /\ relay'[r].pc = "publish"
        /\ Locking => relay'[r].batch = {} /\ relay'[r].failed = {e}
        /\ ~Locking => /\ relay'[r].batch = relay[r].batch \ {e}
                       /\ relay'[r].failed = relay[r].failed
        /\ \A q \in Relays \ {r} : relay'[q] = relay[q]
        /\ relay' \in [Relays -> Batch]
    BY <1>1, <1>2, <1>3 DEF RelayInv, RelayTypeOK, Batch, Failed, Locking
  <1>5. /\ Held(r)' \subseteq Held(r)
        /\ \A q \in Relays \ {r} : Held(q)' = Held(q)
    BY <1>2, <1>4 DEF Held
  <1>6. /\ appended' \in [Rows -> 0..2]
        /\ \A f \in Rows : /\ appended'[f] # appended[f] => f = e /\ f \in torn'
                           /\ appended[f] > 0 => appended'[f] > 0
        /\ torn \subseteq torn' /\ torn' \subseteq Rows
    BY <1>1, <1>2 DEF RelayInv, RelayTypeOK, MoreThan
  <1>7. e \in Held(r)
    BY <1>2 DEF Held
  <1>8. RelayTypeOK'
    BY <1>1, <1>4, <1>6 DEF RelayInv, RelayTypeOK
  <1>9. BatchesAreRows'
    <2>1. \A q \in Relays : relay[q].marked \subseteq Rows
      BY DEF RelayInv, RelayTypeOK, Batch
    <2> QED
      BY <1>1, <1>4, <1>5, <1>6, <2>1 DEF RelayInv, BatchesAreRows
  <1>10. LocksHold'
    <2>1. Locking => e \notin relay[r].marked
      BY <1>2 DEF RelayInv, LocksHold
    <2> QED
      BY <1>1, <1>4, <1>5, <2>1 DEF RelayInv, LocksHold, Locking
  <1>11. AppendedIsMarked'
    BY <1>1, <1>4, <1>6 DEF RelayInv, AppendedIsMarked, Locking
  <1>12. PublishedWasAppended'
    BY <1>1, <1>6, <1>7 DEF RelayInv, PublishedWasAppended, BatchesAreRows
  <1>13. RepeatNeedsFailure'
    BY <1>1, <1>6 DEF RelayInv, RepeatNeedsFailure, Locking
  <1> QED
    BY <1>1, <1>8, <1>9, <1>10, <1>11, <1>12, <1>13 DEF RelayInv, OnlyIssuePostpones

LEMMA CommitStep ==
    ASSUME RelayInv, NEW r \in Relays, CommitBatch(r)
    PROVE  RelayInv'
  <1>1. /\ relay[r].batch = {}
        /\ outbox' = [e \in Rows |-> IF e \in relay[r].marked THEN "published" ELSE outbox[e]]
        /\ postponed' = postponed \cup BackedOff(relay[r])
        /\ relay' = [relay EXCEPT ![r] = Sleeping]
        /\ UNCHANGED <<service, appended, faulty, torn>>
    BY DEF CommitBatch
  <1>2. relay[r] \in Batch
    BY DEF RelayInv, RelayTypeOK
  <1>3. /\ Held(r)' = {} /\ relay'[r].marked = {} /\ relay'[r].batch = {}
        /\ relay'[r].failed = {}
        /\ \A q \in Relays \ {r} : relay'[q] = relay[q] /\ Held(q)' = Held(q)
        /\ relay' \in [Relays -> Batch]
    BY <1>1 DEF RelayInv, RelayTypeOK, Batch, Sleeping, Held
  <1>4. /\ BackedOff(relay[r]) \subseteq Held(r)
        /\ BackedOff(relay[r]) # {} => service = "issue" /\ Locking
        /\ BackedOff(relay[r]) \subseteq relay[r].failed
        /\ relay[r].marked \subseteq Held(r) /\ relay[r].failed \subseteq Held(r)
    BY DEF BackedOff, Held, Locking
  <1>5. /\ \A e \in BackedOff(relay[r]) : outbox[e] = "pending" /\ e \notin relay[r].marked
        /\ Locking => postponed \cap relay[r].marked = {}
        /\ ~Locking => postponed = {}
    BY <1>4 DEF RelayInv, LocksHold, OnlyIssuePostpones, Locking
  <1>6. RelayTypeOK'
    <2>1. relay[r].marked \subseteq Rows /\ relay[r].failed \subseteq Rows
      BY <1>2 DEF Batch
    <2>2. postponed' \subseteq {e \in Rows : outbox'[e] = "pending"}
      BY <1>1, <1>4, <1>5, <2>1 DEF RelayInv, RelayTypeOK
    <2>3. outbox' \in [Rows -> {"none", "pending", "published"}]
      BY <1>1 DEF RelayInv, RelayTypeOK
    <2> QED
      BY <1>1, <1>3, <2>2, <2>3 DEF RelayInv, RelayTypeOK
  <1>7. BatchesAreRows'
    <2>1. \A q \in Relays : Held(q) \subseteq Rows
      BY DEF RelayInv, RelayTypeOK, Batch, Held
    <2>2. \A q \in Relays \ {r} : \A e \in Held(q) : outbox'[e] # "none"
      BY <1>1, <2>1 DEF RelayInv, BatchesAreRows
    <2> QED
      BY <1>1, <1>3, <2>2 DEF RelayInv, BatchesAreRows
  <1>8. LocksHold'
    <2>1. \A q \in Relays : Held(q) \subseteq Rows
      BY DEF RelayInv, RelayTypeOK, Batch, Held
    <2>2. Locking => \A q \in Relays \ {r} : \A e \in Held(q) :
              outbox'[e] = "pending" /\ e \notin postponed'
      BY <1>1, <1>4, <2>1 DEF RelayInv, LocksHold
    <2> QED
      BY <1>1, <1>3, <2>2 DEF RelayInv, LocksHold, Locking
  <1>9. AppendedIsMarked'
    BY <1>1, <1>3 DEF RelayInv, AppendedIsMarked, Locking
  <1>10. OnlyIssuePostpones'
    BY <1>1 DEF RelayInv, OnlyIssuePostpones, BackedOff
  <1>11. PublishedWasAppended'
    BY <1>1 DEF RelayInv, PublishedWasAppended, BatchesAreRows
  <1> QED
    BY <1>1, <1>6, <1>7, <1>8, <1>9, <1>10, <1>11 DEF RelayInv, RepeatNeedsFailure

LEMMA StopStep ==
    ASSUME RelayInv, NEW r \in Relays, StopBatch(r)
    PROVE  RelayInv'
  <1>1. /\ relay' = [relay EXCEPT ![r] = Sleeping]
        /\ torn' = torn \cup relay[r].marked
        /\ UNCHANGED <<service, outbox, postponed, appended, faulty>>
    BY DEF StopBatch
  <1>2. /\ Held(r)' = {} /\ relay'[r].marked = {} /\ relay'[r].batch = {}
        /\ relay'[r].failed = {}
        /\ \A q \in Relays \ {r} : relay'[q] = relay[q] /\ Held(q)' = Held(q)
        /\ relay' \in [Relays -> Batch]
    BY <1>1 DEF RelayInv, RelayTypeOK, Batch, Sleeping, Held
  <1>3. relay[r].marked \subseteq Rows
    BY DEF RelayInv, RelayTypeOK, Batch
  <1>4. RelayTypeOK'
    BY <1>1, <1>2, <1>3 DEF RelayInv, RelayTypeOK
  <1>5. BatchesAreRows'
    BY <1>1, <1>2 DEF RelayInv, BatchesAreRows
  <1>6. LocksHold'
    BY <1>1, <1>2 DEF RelayInv, LocksHold, Locking
  <1>7. AppendedIsMarked'
    BY <1>1, <1>2 DEF RelayInv, AppendedIsMarked, Locking
  <1> QED
    BY <1>1, <1>4, <1>5, <1>6, <1>7
    DEF RelayInv, OnlyIssuePostpones, PublishedWasAppended, RepeatNeedsFailure

LEMMA RelayStep == RelayInv /\ [RelayNext]_relayVars => RelayInv'
  <1> SUFFICES ASSUME RelayInv, [RelayNext]_relayVars PROVE RelayInv'
    OBVIOUS
  <1>1. CASE \E e \in Rows : Insert(e)
    BY <1>1, InsertStep
  <1>2. CASE (\E e \in Rows : BackoffEnds(e)) \/ Recover \/ UNCHANGED relayVars
    BY <1>2, QuietStep
  <1>3. CASE \E r \in Relays : BeginBatch(r)
    BY <1>3, BeginStep
  <1>4. CASE \E r \in Relays : AppendRow(r)
    BY <1>4, AppendStep
  <1>5. CASE \E r \in Relays : AppendFails(r)
    BY <1>5, AppendFailsStep
  <1>6. CASE \E r \in Relays : CommitBatch(r)
    BY <1>6, CommitStep
  <1>7. CASE \E r \in Relays : StopBatch(r)
    BY <1>7, StopStep
  <1> QED
    BY <1>1, <1>2, <1>3, <1>4, <1>5, <1>6, <1>7 DEF RelayNext

LEMMA RelayInvariant == RelaySpec => []RelayInv
  BY InitRelay, RelayStep, PTL DEF RelaySpec

-----------------------------------------------------------------------------
\* Rows, entries and batches keep their types, and a postponed row of
\* issue-service is never one that was published already.
THEOREM RelayTypeCorrect == RelaySpec => []RelayTypeOK
  <1>1. RelayInv => RelayTypeOK
    BY DEF RelayInv
  <1> QED
    BY <1>1, RelayInvariant, PTL

\* Each of the three relays marks a row as published only after the stream has
\* it, and appends only what was committed, whatever fails in between.
THEOREM NothingIsLost == RelaySpec => []PublishedWasAppended
  <1>1. RelayInv => PublishedWasAppended
    BY DEF RelayInv
  <1> QED
    BY <1>1, RelayInvariant, PTL

\* With the row locks of identity-service and issue-service an event comes twice
\* only after a failure, for any number of relays.
THEOREM LocksPreventRepeats == RelaySpec => []RepeatNeedsFailure
  <1>1. RelayInv => RepeatNeedsFailure
    BY DEF RelayInv
  <1> QED
    BY <1>1, RelayInvariant, PTL
=============================================================================

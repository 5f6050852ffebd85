------------------------- MODULE NotificationConsumer -------------------------
(***************************************************************************)
(* The notification consumers of max-gateway: they read the stream of      *)
(* outbox events as one consumer group, look up the recipients of an event *)
(* in identity-service page by page, send each of them a message through   *)
(* MAX, and acknowledge the entry.                                         *)
(*                                                                         *)
(* Before it claims and reads, a consumer asks identity-service whether it *)
(* is ready; until it is, it takes nothing.                                *)
(*                                                                         *)
(* A consumer processes the entries it took one after another; every call  *)
(* to Redis, identity-service and MAX is a step of its own.  An entry that *)
(* was not acknowledged stays pending and is claimed again by any consumer *)
(* once it was idle for 30 seconds, also while it still waits in the batch *)
(* of the consumer that took it first.                                     *)
(*                                                                         *)
(* Clocks are abstracted to the order of steps: a pending entry may become *)
(* idle, a call of process may exceed its 15 seconds, and the lock of an   *)
(* event (one minute) may expire once its owner does not work under it.    *)
(* The markers (seven days) do not expire.  XREADGROUP and XAUTOCLAIM take *)
(* all entries there are: no run has more of them than Count, which is 10. *)
(***************************************************************************)
EXTENDS Naturals, FiniteSets

CONSTANTS
    Consumers,          \* consumer processes
    Entries,            \* ids of stream entries
    Events,             \* ids of events
    Quiet, Malformed,   \* events acknowledged without a message; unusable ones
    Recipients,         \* users in the order of their ids
    PageSize,           \* recipients on a page (100)
    MaxAttempts,        \* attempts before an entry is given up (10)
    FaultKinds,         \* what may go wrong: "crash", "redis", "slow", "identity"
    NoEntry, NoEvent, Nobody

ASSUME RecipientsAssumption ==
    Recipients \subseteq Nat \ {0} /\ IsFiniteSet(Recipients)
ASSUME BoundsAssumption == PageSize \in Nat \ {0} /\ MaxAttempts \in Nat \ {0}
ASSUME NullsAssumption ==
    NoEntry \notin Entries /\ NoEvent \notin Events /\ Nobody \notin Consumers

VARIABLES
    stream,     \* the stream: event of an entry
    group,      \* the consumer group's view of an entry
    idle,       \* pending entries nobody has touched for 30 seconds
    loop,       \* the call the loop of a consumer makes once its batch is empty
    ready,      \* identity-service is ready
    batch,      \* entries a consumer has taken and not looked at yet
    run,        \* what a consumer is doing
    done,       \* events with the :done marker
    lock,       \* owner of the lock of an event
    retry,      \* the :retry counter of an event, up to MaxAttempts
    marked,     \* users with the :recipient: marker of an event
    dead,       \* entries copied to the dead letters
    eligible,   \* users identity-service returns as recipients
    sent,       \* messages MAX has delivered for an event to a user, up to 2
    faults,     \* what may still go wrong
    slipped,    \* history: deliveries whose marker was not written
    freed,      \* history: events whose lock was deleted by a stranger
    owed        \* history: users eligible ever since an event was published

redis == <<stream, group, idle, done, lock, retry, marked, dead>>
history == <<eligible, sent, faults, slipped, freed, owed>>
gate == <<loop, ready>>
consumerVars == <<redis, gate, batch, run, history>>

Waiting == [pc |-> "wait", entry |-> NoEntry, attempt |-> 0, page |-> {},
            after |-> 0, last |-> FALSE]
At(c, pc) == run[c].pc = pc
Event(c) == stream[run[c].entry]
Published(e) == \E n \in Entries : stream[n] = e
Least(S) == CHOOSE r \in S : \A q \in S : r <= q
Greatest(S) == CHOOSE r \in S : \A q \in S : q <= r

Goto(c, pc) == run' = [run EXCEPT ![c].pc = pc]
\* process returns; whatever it has not acknowledged stays pending.
Return(c) == run' = [run EXCEPT ![c] = Waiting]
\* deliver returns an error.
Fail(c) == run' = [run EXCEPT ![c] = [@ EXCEPT !.pc = "failed", !.page = {},
                                              !.after = 0, !.last = FALSE]]

-----------------------------------------------------------------------------
(* The stream and the group.                                               *)

\* A relay appends an event, maybe not for the first time.
Publish(n, e) ==
    /\ stream[n] = NoEvent
    /\ stream' = [stream EXCEPT ![n] = e]
    /\ group' = [group EXCEPT ![n] = "new"]
    /\ owed' = IF Published(e) THEN owed ELSE [owed EXCEPT ![e] = eligible]
    /\ UNCHANGED <<gate, idle, batch, run, done, lock, retry, marked, dead, eligible,
                   sent, faults, slipped, freed>>

New == {n \in Entries : group[n] = "new"}

\* The loop makes its next call: nothing is left of the batch.
Turn(c, call, next) ==
    /\ At(c, "wait") /\ batch[c] = {} /\ loop[c] = call
    /\ loop' = [loop EXCEPT ![c] = next]
    /\ ready' = ready

\* Identity.Ready; as long as it fails the loop pauses and asks again.
Ready(c) ==
    /\ Turn(c, "ready", "claim")
    /\ ready
    /\ UNCHANGED <<redis, batch, run, history>>

\* XAUTOCLAIM, of the entries of any consumer.
Claim(c) ==
    /\ Turn(c, "claim", "read")
    /\ batch' = [batch EXCEPT ![c] = idle]
    /\ idle' = {}
    /\ UNCHANGED <<stream, group, run, done, lock, retry, marked, dead, history>>

\* XREADGROUP, after the claimed entries: Ready was asked before those.
Read(c) ==
    /\ Turn(c, "read", "ready")
    /\ batch' = [batch EXCEPT ![c] = New]
    /\ group' = [n \in Entries |-> IF n \in New THEN "pending" ELSE group[n]]
    /\ UNCHANGED <<stream, idle, run, done, lock, retry, marked, dead, history>>

\* Redis refuses one of these calls: an error of XAUTOCLAIM is passed over, one of
\* XREADGROUP ends the turn.
CallFails(c) ==
    /\ "redis" \in faults
    /\ Turn(c, "claim", "read") \/ Turn(c, "read", "ready")
    /\ UNCHANGED <<redis, batch, run, history>>

BecomesIdle(n) ==
    /\ group[n] = "pending" /\ n \notin idle
    /\ idle' = idle \cup {n}
    /\ UNCHANGED <<gate, stream, group, batch, run, done, lock, retry, marked, dead, history>>

\* XACK, whoever the entry is pending for.
Ack(n) ==
    /\ group' = [group EXCEPT ![n] = "acked"]
    /\ idle' = idle \ {n}

-----------------------------------------------------------------------------
(* process: one entry n of the batch.                                      *)

Take(c, n) ==
    /\ At(c, "wait") /\ n \in batch[c]
    /\ batch' = [batch EXCEPT ![c] = @ \ {n}]

RejectMalformed(c, n) ==
    /\ Take(c, n)
    /\ stream[n] \in Malformed
    /\ dead' = dead \cup {n}
    /\ Ack(n)
    /\ UNCHANGED <<gate, stream, run, done, lock, retry, marked, history>>

AckWithoutMessage(c, n) ==
    /\ Take(c, n)
    /\ stream[n] \notin Malformed
    /\ stream[n] \in Quiet \cup done
    /\ Ack(n)
    /\ UNCHANGED <<gate, stream, run, done, lock, retry, marked, dead, history>>

Begin(c, n) ==
    /\ Take(c, n)
    /\ stream[n] \notin Malformed \cup Quiet \cup done
    /\ run' = [run EXCEPT ![c] = [Waiting EXCEPT !.pc = "lock", !.entry = n]]
    /\ UNCHANGED <<gate, redis, history>>

\* Fault: the lock is not looked at.
LockFreeAlways(e) == TRUE

LockFree(e) == lock[e] = Nobody

\* SETNX; an entry whose event somebody works on is left to a later claim.
Lock(c) ==
    /\ At(c, "lock")
    /\ IF LockFree(Event(c))
       THEN lock' = [lock EXCEPT ![Event(c)] = c] /\ Goto(c, "count")
       ELSE lock' = lock /\ Return(c)
    /\ UNCHANGED <<gate, stream, group, idle, batch, done, retry, marked, dead, history>>

\* Fault: the counter starts again with every attempt.
AttemptForgotten(e) == 1

Attempt(e) == IF retry[e] < MaxAttempts THEN retry[e] + 1 ELSE MaxAttempts

Count(c) ==
    /\ At(c, "count")
    /\ retry' = [retry EXCEPT ![Event(c)] = Attempt(Event(c))]
    /\ run' = [run EXCEPT ![c].pc = "page", ![c].attempt = Attempt(Event(c))]
    /\ UNCHANGED <<gate, stream, group, idle, batch, done, lock, marked, dead, history>>

-----------------------------------------------------------------------------
(* deliverRecipients.                                                      *)

\* The first PageSize users of S.
FirstPage(S) == {r \in S : Cardinality({q \in S : q < r}) < PageSize}

\* Fault: a full page is taken for the last one.
IsLastFull(page) == Cardinality(page) <= PageSize

IsLast(page) == Cardinality(page) < PageSize

\* Where the loop goes on once page is left of the current page.
Loop(k, page) ==
    [k EXCEPT !.page = page,
              !.pc = IF page # {} THEN "check" ELSE IF k.last THEN "ack" ELSE "page",
              !.after = IF page = {} /\ k.last THEN 0 ELSE @,
              !.last = @ /\ page # {}]

\* What is kept of a page: where the next one begins, and whether there is one.
Fetched(k, page) ==
    [k EXCEPT !.after = IF page = {} THEN @ ELSE Greatest(page), !.last = IsLast(page)]

FetchPage(c) ==
    LET page == FirstPage({r \in eligible : r > run[c].after}) IN
    /\ At(c, "page")
    /\ run' = [run EXCEPT ![c] = Loop(Fetched(@, page), page)]
    /\ UNCHANGED <<gate, redis, batch, history>>

\* The marker, and the recipient looked up once more right before the message.
CheckRecipient(c) ==
    LET r == Least(run[c].page) IN
    /\ At(c, "check")
    /\ run' = [run EXCEPT ![c] =
                 IF r \in marked[Event(c)] \/ r \notin eligible
                 THEN Loop(@, @.page \ {r}) ELSE [@ EXCEPT !.pc = "send"]]
    /\ UNCHANGED <<gate, redis, batch, history>>

Delivered(c) ==
    sent' = [sent EXCEPT ![Event(c)][Least(run[c].page)] = IF @ < 2 THEN @ + 1 ELSE @]
Slipped(c) == slipped' = slipped \cup {<<Event(c), Least(run[c].page)>>}

Send(c) ==
    /\ At(c, "send")
    /\ Delivered(c)
    /\ Goto(c, "mark")
    /\ UNCHANGED <<gate, redis, batch, eligible, faults, slipped, freed, owed>>

Mark(c) ==
    LET r == Least(run[c].page) IN
    /\ At(c, "mark")
    /\ marked' = [marked EXCEPT ![Event(c)] = @ \cup {r}]
    /\ run' = [run EXCEPT ![c] = Loop(@, @.page \ {r})]
    /\ UNCHANGED <<gate, stream, group, idle, batch, done, lock, retry, dead, history>>

\* The ack script.
AckScript(c) ==
    /\ Ack(run[c].entry)
    /\ done' = done \cup {Event(c)}
    /\ lock' = [lock EXCEPT ![Event(c)] = Nobody]
    /\ retry' = [retry EXCEPT ![Event(c)] = 0]

Finish(c) ==
    /\ At(c, "ack")
    /\ AckScript(c)
    /\ Goto(c, "unlock")
    /\ UNCHANGED <<gate, stream, batch, marked, dead, history>>

\* identity-service or MAX fail; MAX may have delivered the message.
DeliveryFails(c) ==
    /\ run[c].pc \in {"page", "check", "send"}
    /\ Fail(c)
    /\ \/ UNCHANGED <<sent, slipped>>
       \/ At(c, "send") /\ Delivered(c) /\ Slipped(c)
    /\ UNCHANGED <<gate, redis, batch, eligible, faults, freed, owed>>

\* Fault: an exhausted entry is acknowledged and not kept.
DeadLetterLost(n) == dead

DeadLetterOf(n) == dead \cup {n}

\* After a failed attempt the entry waits to be claimed, after too many it is
\* moved to the dead letters.
GiveUp(c) ==
    LET n == run[c].entry IN
    /\ At(c, "failed")
    /\ IF run[c].attempt >= MaxAttempts THEN dead' = DeadLetterOf(n) /\ Ack(n)
                                        ELSE UNCHANGED <<dead, group, idle>>
    /\ Goto(c, "unlock")
    /\ UNCHANGED <<gate, stream, batch, done, lock, retry, marked, history>>

\* The deferred DEL, whoever holds the lock by now.
Unlock(c) ==
    /\ At(c, "unlock")
    /\ lock' = [lock EXCEPT ![Event(c)] = Nobody]
    /\ freed' = IF lock[Event(c)] \in {c, Nobody} THEN freed ELSE freed \cup {Event(c)}
    /\ Return(c)
    /\ UNCHANGED <<gate, stream, group, idle, batch, done, retry, marked, dead, eligible,
                   sent, faults, slipped, owed>>

-----------------------------------------------------------------------------
(* Faults.                                                                 *)

\* The step under way is cut off: a message may be out without its marker.
CutOff(c) ==
    \/ run[c].pc \notin {"send", "mark"} /\ UNCHANGED <<sent, slipped>>
    \/ At(c, "send") /\ (UNCHANGED <<sent, slipped>> \/ (Delivered(c) /\ Slipped(c)))
    \/ At(c, "mark") /\ UNCHANGED sent /\ Slipped(c)

\* Redis refuses a call, or executes it and the answer is lost.
RedisFails(c) ==
    /\ "redis" \in faults
    /\ \/ \E n \in batch[c] : Take(c, n) /\ UNCHANGED <<run, redis, slipped>>
       \/ /\ At(c, "lock") /\ Return(c)
          /\ \/ lock' = lock
             \/ LockFree(Event(c)) /\ lock' = [lock EXCEPT ![Event(c)] = c]
          /\ UNCHANGED <<stream, group, idle, batch, done, retry, marked, dead, slipped>>
       \/ /\ At(c, "count") /\ Goto(c, "unlock")
          /\ UNCHANGED <<redis, batch, slipped>>
       \/ At(c, "mark") /\ Fail(c) /\ Slipped(c) /\ UNCHANGED <<redis, batch>>
       \/ /\ At(c, "ack") /\ Fail(c)
          /\ AckScript(c) \/ UNCHANGED redis
          /\ UNCHANGED <<stream, marked, dead, batch, slipped>>
       \/ /\ At(c, "failed") /\ run[c].attempt >= MaxAttempts /\ Goto(c, "unlock")
          /\ UNCHANGED <<redis, batch, slipped>>
       \/ At(c, "unlock") /\ Return(c) /\ UNCHANGED <<redis, batch, slipped>>
    /\ UNCHANGED <<gate, eligible, sent, faults, freed, owed>>

\* The 15 seconds are over: every further call of this process fails at once,
\* the one to the dead letters and the DEL of the lock included.
TimeOut(c) ==
    /\ "slow" \in faults
    /\ ~At(c, "wait")
    /\ CutOff(c)
    /\ Return(c)
    /\ UNCHANGED <<gate, redis, batch, eligible, faults, freed, owed>>

\* The process is gone with its batch and comes back under a new name.
Crash(c) ==
    /\ "crash" \in faults
    /\ ~At(c, "wait") \/ batch[c] # {} \/ loop[c] # "ready"
    /\ CutOff(c)
    /\ Return(c)
    /\ batch' = [batch EXCEPT ![c] = {}]
    /\ loop' = [loop EXCEPT ![c] = "ready"]
    /\ UNCHANGED <<redis, ready, eligible, faults, freed, owed>>

\* process ends before the minute of the lock is over.
LockExpires(e) ==
    /\ lock[e] # Nobody
    /\ ~(\E c \in Consumers : /\ lock[e] = c /\ run[c].pc \notin {"wait", "lock"}
                              /\ Event(c) = e)
    /\ lock' = [lock EXCEPT ![e] = Nobody]
    /\ UNCHANGED <<gate, stream, group, idle, batch, run, done, retry, marked, dead, history>>

\* Memberships and notification settings change.
AccessChanges(S) ==
    /\ S # eligible /\ eligible' = S
    /\ owed' = [e \in Events |-> owed[e] \cap S]
    /\ UNCHANGED <<gate, redis, batch, run, sent, faults, slipped, freed>>

\* identity-service fails, or is back.
ReadinessChanges ==
    /\ "identity" \in faults
    /\ ready' = ~ready
    /\ UNCHANGED <<redis, loop, batch, run, history>>

\* From now on nothing of FaultKinds goes wrong.
Recover ==
    /\ faults # {} /\ faults' = {}
    /\ ready' = TRUE
    /\ UNCHANGED <<redis, loop, batch, run, eligible, sent, slipped, freed, owed>>

-----------------------------------------------------------------------------
ConsumerInit ==
    /\ stream = [n \in Entries |-> NoEvent]
    /\ group = [n \in Entries |-> "none"]
    /\ idle = {} /\ done = {} /\ dead = {} /\ slipped = {} /\ freed = {}
    /\ loop = [c \in Consumers |-> "ready"] /\ ready = TRUE
    /\ batch = [c \in Consumers |-> {}]
    /\ run = [c \in Consumers |-> Waiting]
    /\ lock = [e \in Events |-> Nobody]
    /\ retry = [e \in Events |-> 0]
    /\ marked = [e \in Events |-> {}]
    /\ eligible \in SUBSET Recipients
    /\ sent = [e \in Events |-> [r \in Recipients |-> 0]]
    /\ faults = FaultKinds
    /\ owed = [e \in Events |-> {}]

Process(c) ==
    \/ \E n \in Entries : \/ RejectMalformed(c, n)
                          \/ AckWithoutMessage(c, n)
                          \/ Begin(c, n)
    \/ Lock(c) \/ Count(c) \/ FetchPage(c) \/ CheckRecipient(c) \/ Send(c)
    \/ Mark(c) \/ Finish(c) \/ GiveUp(c) \/ Unlock(c)

ConsumerNext ==
    \/ \E n \in Entries, e \in Events : Publish(n, e)
    \/ \E c \in Consumers : \/ Ready(c) \/ Claim(c) \/ Read(c) \/ Process(c)
                           \/ DeliveryFails(c) \/ CallFails(c)
                           \/ RedisFails(c) \/ TimeOut(c) \/ Crash(c)
    \/ \E n \in Entries : BecomesIdle(n)
    \/ \E e \in Events : LockExpires(e)
    \/ \E S \in SUBSET Recipients : AccessChanges(S)
    \/ ReadinessChanges \/ Recover

ConsumerSpec == ConsumerInit /\ [][ConsumerNext]_consumerVars

\* Run loops for ever once Ready lets it, a pending entry grows idle, a lock grows
\* old. Of an identity-service that is never ready again nothing is promised.
Fairness ==
    /\ \A c \in Consumers :
         WF_consumerVars(Ready(c) \/ Claim(c) \/ Read(c) \/ Process(c))
    /\ \A n \in Entries : WF_consumerVars(BecomesIdle(n))
    /\ \A e \in Events : WF_consumerVars(LockExpires(e))

FairConsumerSpec == ConsumerSpec /\ Fairness

-----------------------------------------------------------------------------
(* Safety.                                                                 *)

Important(n) == stream[n] \notin Malformed \cup Quiet

\* Nothing is lost: an entry that was acknowledged has been delivered to the
\* end, or lies in the dead letters, however many consumers crashed on it.
AckedIsSettled ==
    \A n \in Entries : group[n] = "acked" /\ Important(n) =>
        stream[n] \in done \/ n \in dead

\* At least once: when an event is done, everybody who could be notified ever
\* since it was published has got the message, over all attempts, consumers and
\* pages (docs/house-workflow/implementation.md:56).
DoneReachedEverybody ==
    \A e \in done : \A r \in owed[e] : sent[e][r] > 0

\* A message comes twice only when a delivery was cut off between MAX and its
\* marker, or when the lock of the event was taken from the consumer that held
\* it, which befalls an event that is done only: concurrent consumers of one event,
\* entries published twice, expired locks and lost answers of Redis do not repeat it
\* by themselves.
RepeatHasCause ==
    /\ \A e \in Events, r \in Recipients :
          sent[e][r] > 1 => <<e, r>> \in slipped \/ e \in freed
    /\ freed \subseteq done

-----------------------------------------------------------------------------
(* Liveness.                                                               *)

\* Once Redis answers, the consumers stay alive and in time, and the health check of
\* identity-service passes, every entry is acknowledged, even if every message of
\* MAX and every lookup of recipients fails for ever. The health check is needed: as
\* long as it fails nothing is read or claimed (consumer.go:69-77).
EveryEntrySettles ==
    <>(faults = {}) =>
        \A n \in Entries : group[n] = "new" ~> group[n] = "acked"

\* After ten attempts an entry goes to the dead letters
\* (docs/house-workflow/README.md:173-174), so every entry is acknowledged.
AttemptsEnd == \A n \in Entries : group[n] = "new" ~> group[n] = "acked"
=============================================================================

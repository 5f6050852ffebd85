-------------------------------- MODULE Webhook --------------------------------
(***************************************************************************)
(* The webhook of max-gateway: how one update of MAX is answered.          *)
(*                                                                         *)
(* MAX delivers the update until it gets a 200, maybe several times at     *)
(* once; each delivery is a request of its own.  A request looks for the   *)
(* :done marker of the update, takes its lock, sends the answer through    *)
(* the Bot API, writes the marker and frees the lock again.  Markers and   *)
(* locks of different updates have different keys in Redis, so that one    *)
(* update stands for all of them.                                          *)
(*                                                                         *)
(* The marker lives seven days and does not expire here.  The lock lives   *)
(* one minute.  The answer takes three attempts of two seconds for Redis   *)
(* and five for MAX and two pauses of ten seconds at most, so that a       *)
(* request is through before its lock expires.                             *)
(***************************************************************************)
EXTENDS Naturals, FiniteSets

CONSTANTS
    Deliveries,     \* requests with the update that may be under way at a time
    MaxSlips,       \* bound on the answers that go out and are not noted
    Free            \* a lock nobody holds

ASSUME DeliveriesAssumption == IsFiniteSet(Deliveries) /\ Free \notin Deliveries
ASSUME SlipsAssumption == MaxSlips \in Nat

VARIABLES
    kind,       \* what the update asks for: an answer, nothing, or it is invalid
    done,       \* Redis: the :done marker
    lock,       \* Redis: the delivery that has taken the lock
    call,       \* what a delivery is about to do
    acked,      \* MAX has got a 200
    faults,     \* something may still go wrong
    sent,       \* history: answers MAX has delivered to the user
    slips,      \* history: those of them after which no marker was written
    overtaken   \* history: deliveries that had not found the marker when it was
                \* written

webhookVars == <<kind, done, lock, call, acked, faults, sent, slips, overtaken>>
webhookHistory == <<sent, slips, overtaken>>

Doing(d, pc) == call[d] = pc
Step(d, pc) == call' = [call EXCEPT ![d] = pc]

-----------------------------------------------------------------------------
(* One request.                                                            *)

\* MAX calls, for the first time, once more, or while it still waits.
Deliver(d) ==
    /\ Doing(d, "none") /\ ~acked
    /\ Step(d, "look")
    /\ UNCHANGED <<kind, done, lock, acked, faults, webhookHistory>>

\* Fault: the lock alone is relied on.
NeverFound == FALSE

Found == done

\* EXISTS of the marker.
Look(d) ==
    /\ Doing(d, "look")
    /\ Step(d, IF Found THEN "reply" ELSE "lock")
    /\ UNCHANGED <<kind, done, lock, acked, faults, webhookHistory>>

\* Fault: the lock is freed on every way out of the handler.
LoserFrees == "free"

Loser == "none"

\* SETNX; who finds the lock taken is told to come back later.
TakeLock(d) ==
    /\ Doing(d, "lock")
    /\ IF lock = Free THEN lock' = d /\ Step(d, "send") ELSE lock' = lock /\ Step(d, Loser)
    /\ UNCHANGED <<kind, done, acked, faults, webhookHistory>>

\* Menu for bot_started and message_created, Answer for message_callback.
\* Messages of bots and unknown types need no answer.
SendAnswer(d) ==
    /\ Doing(d, "send") /\ kind # "invalid"
    /\ sent' = IF kind = "answer" THEN sent + 1 ELSE sent
    /\ Step(d, "mark")
    /\ UNCHANGED <<kind, done, lock, acked, faults, slips, overtaken>>

Reject(d) ==
    /\ Doing(d, "send") /\ kind = "invalid"
    /\ Step(d, "free")
    /\ UNCHANGED <<kind, done, lock, acked, faults, webhookHistory>>

\* SET of the marker.
WriteMarker ==
    /\ done' = TRUE
    /\ overtaken' = IF done THEN overtaken ELSE {d \in Deliveries : Doing(d, "lock")}

Mark(d) ==
    /\ Doing(d, "mark")
    /\ WriteMarker
    /\ Step(d, "unlock")
    /\ UNCHANGED <<kind, lock, acked, faults, sent, slips>>

\* The deferred DEL, whoever holds the lock, before the response is written.
FreeLock(d) ==
    /\ Doing(d, "free") \/ Doing(d, "unlock")
    /\ lock' = Free
    /\ Step(d, IF Doing(d, "unlock") THEN "reply" ELSE "none")
    /\ UNCHANGED <<kind, done, acked, faults, webhookHistory>>

\* 200.
Reply(d) ==
    /\ Doing(d, "reply")
    /\ acked' = TRUE
    /\ Step(d, "none")
    /\ UNCHANGED <<kind, done, lock, faults, webhookHistory>>

-----------------------------------------------------------------------------
(* Errors and time.                                                        *)

Slip == slips < MaxSlips /\ slips' = slips + 1

\* An answer has gone out, unless MAX never got it.
Unclear ==
    \/ UNCHANGED <<sent, slips>>
    \/ kind = "answer" /\ Slip /\ sent' = sent + 1

\* Menu or Answer returns an error; MAX may have delivered the message.
SendFails(d) ==
    /\ faults /\ Doing(d, "send") /\ kind # "invalid"
    /\ Unclear
    /\ Step(d, "free")
    /\ UNCHANGED <<kind, done, lock, acked, faults, overtaken>>

Unmarked == IF kind = "answer" THEN Slip ELSE slips' = slips

\* The rate limiter refuses, Redis fails before or after it did its work, or
\* the 200 is lost on its way to MAX.
RequestFails(d) ==
    /\ faults
    /\ \/ /\ Doing(d, "look") \/ Doing(d, "reply")
          /\ Step(d, "none") /\ UNCHANGED <<lock, done, slips, overtaken>>
       \/ /\ Doing(d, "lock")
          /\ lock' = lock \/ (lock = Free /\ lock' = d)
          /\ Step(d, "none") /\ UNCHANGED <<done, slips, overtaken>>
       \/ /\ Doing(d, "mark")
          /\ \/ UNCHANGED <<done, overtaken>> /\ Unmarked
             \/ WriteMarker /\ slips' = slips
          /\ Step(d, "free") /\ UNCHANGED lock
       \/ /\ Doing(d, "free") \/ Doing(d, "unlock")
          /\ Step(d, IF Doing(d, "unlock") THEN "reply" ELSE "none")
          /\ UNCHANGED <<lock, done, slips, overtaken>>
    /\ UNCHANGED <<kind, acked, faults, sent>>

\* The process is gone.
Crash(d) ==
    /\ faults /\ ~Doing(d, "none")
    /\ IF Doing(d, "send") /\ kind # "invalid" THEN Unclear
       ELSE sent' = sent /\ IF Doing(d, "mark") THEN Unmarked ELSE slips' = slips
    /\ Step(d, "none")
    /\ UNCHANGED <<kind, done, lock, acked, faults, overtaken>>

\* Fault: the lock is set without a lifetime.
NeverExpirable == FALSE

\* The request that took the lock is over, or did not learn that it has it.
Expirable == lock # Free /\ call[lock] \notin {"send", "mark", "free", "unlock"}

LockExpires ==
    /\ Expirable
    /\ lock' = Free
    /\ UNCHANGED <<kind, done, call, acked, faults, webhookHistory>>

FaultsEnd ==
    /\ faults /\ faults' = FALSE
    /\ UNCHANGED <<kind, done, lock, call, acked, webhookHistory>>

-----------------------------------------------------------------------------
WebhookInit ==
    /\ kind \in {"answer", "silent", "invalid"}
    /\ done = FALSE /\ lock = Free /\ acked = FALSE /\ faults = TRUE
    /\ call = [d \in Deliveries |-> "none"]
    /\ sent = 0 /\ slips = 0 /\ overtaken = {}

Handle(d) ==
    Look(d) \/ TakeLock(d) \/ SendAnswer(d) \/ Reject(d) \/ Mark(d) \/ FreeLock(d) \/ Reply(d)

WebhookNext ==
    \/ \E d \in Deliveries : \/ Deliver(d) \/ Handle(d)
                             \/ SendFails(d) \/ RequestFails(d) \/ Crash(d)
    \/ LockExpires
    \/ FaultsEnd

\* The handler goes on, the lock grows old, and MAX calls again and again.
WebhookFairness ==
    /\ \A d \in Deliveries : WF_webhookVars(Handle(d)) /\ WF_webhookVars(Deliver(d))
    /\ WF_webhookVars(LockExpires)

WebhookSpec == WebhookInit /\ [][WebhookNext]_webhookVars

-----------------------------------------------------------------------------
(* Properties.                                                             *)

\* "The lease does not let an ordinary duplicate be sent in parallel"
\* (services/max-gateway/README.md:116): two deliveries never talk to MAX at
\* the same time, although the lock is deleted without a look at its owner.
OneAtATime ==
    \A d, e \in Deliveries :
        call[d] \in {"send", "mark"} /\ call[e] \in {"send", "mark"} => d = e

\* The user is answered again only for a reason: an answer that went out and
\* could not be noted, or a delivery that had looked for the marker before it
\* was written and took the lock only afterwards.
RepeatedAnswerHasCause == sent <= 1 + slips + Cardinality(overtaken)

\* No update is lost: once Redis and MAX work again it is acknowledged, and the
\* user has his answer, whatever failed before and whoever held the lock.
EveryUpdateIsAnswered ==
    kind # "invalid" /\ <>[]~faults => <>(acked /\ (kind = "answer" => sent > 0))
=============================================================================

# SmartQuarter in TLA+

SmartQuarter is a residents' service: people report problems of their house with
photos, follow them to a statement for the authorities, and talk to each other
through polls, announcements and contacts. Four Go services share PostgreSQL,
Redis streams, an S3 bucket and the MAX messenger. This directory holds TLA+
specifications of the parts in which state, concurrency and failure meet, the
TLC models that check them on small instances, and theorems about them whose
proofs TLAPS checks.

    tlc -config HouseSeats.cfg MCHouseWorkflow      # any run of PROJECT.json
    tlapm HouseWorkflowProofs.tla                   # any proof module

Paths below are relative to the repository; `PROJECT.json` maps every definition
to the lines it models.

## 1. Inventory

| Part | State it keeps | Operations | Specification |
|---|---|---|---|
| identity-service, house workflow (`internal/house`) | chairman_permissions, houses, memberships, default_house_id, house_registrations, join_requests, house_invitations, invitation_redemptions, chairman_transfers, identity_outbox | the commands behind `Execute` (39, of which 24 write), one transaction each under one advisory lock; `app provision` | HouseWorkflow, HouseInvitations |
| identity-service, users and preferences | users, notification_preferences | profile upsert, preference write, recipients query, reads | only the query, in NotificationConsumer |
| identity-service, outbox relay (`house/outbox.go`) | published_at of identity_outbox | row locks held through XADD and COMMIT | OutboxRelay; as `Publish` in NotificationConsumer |
| issue-service, photos | attachments, issues, the bucket | CreateUpload, presigned PUT, CompleteUpload, CreateIssue | AttachmentUpload |
| issue-service, issue lifecycle | issues, confirmations, timeline, outbox_events | CreateIssue, ConfirmIssue, UpdateIssueStatus, GetIssue, ListIssues | IssueLifecycle |
| issue-service, statements | statement_drafts by version | GenerateStatement | IssueLifecycle |
| issue-service, outbox relay (`repository/postgres/outbox.go`) | published_at, next_attempt_at | row locks, exponential back-off | OutboxRelay |
| max-gateway, notification consumer | Redis group, lock, retry counter, markers, dead letters | Run, process, deliver | NotificationConsumer |
| max-gateway, sessions and idempotency | Redis sessions, idempotency reservations | login, switch, logout, authenticate, Reserve, Finish | GatewayCommands, which implements CommandOnce |
| max-gateway, webhook | lock and done marker of an update | answer an update once | Webhook |
| max-gateway, REST and RPC | none | JSON to protobuf | stateless |
| community-service, polls and initiatives | polls, poll_votes, initiatives, initiative_supports | create, vote, support, close, read | Community |
| community-service, contacts | service_contacts, audit | create, update, archive | Community |
| community-service, announcements and calendar | single rows | create, update, delete, list | not modelled |
| community-service, outbox worker | published_at | batches without a transaction | OutboxRelay |
| web mini app | none the services rely on | user interface | not modelled |
| configuration, observability, deploy, tools | none | start-up, metrics, loaders | not modelled |

How they interact. The mini app and MAX call max-gateway, which reads role and
membership from identity-service and forwards the command by gRPC. Every service
writes its change and an outbox row in one PostgreSQL transaction; a relay
copies outbox rows to the Redis stream, and the consumers of max-gateway turn
entries of the stream into messages for the users identity-service names.

What is hard in it, and what correctness means there:

- **House workflow.** Transactions are serialised by an advisory lock, so the
  difficulty is the *protocol*: a request, an offer or a registration is decided
  long after it was made, when permissions, roles and memberships have changed
  by other commands. A house must never have two chairmen, a revoked user must
  keep nothing, an offer must die with the chairman who made it, a decision must
  be final, and nobody may enter a house without one.
- **Photos.** `CompleteUpload` reads a row, talks to the bucket for seconds and
  then decides in a transaction, while other calls for the same row, the
  presigned URL and the deadline go on. A verified photo must stay the verified
  one, and the clean-up must never delete it.
- **Notifications.** At-least-once delivery by competing consumers with lock,
  markers and retry counter in Redis, each of which can fail between any two
  calls. Nothing may be lost, repeats need a cause, and every entry must leave
  the pending list.
- **Relays** of several processes share one table. Two keep row locks through the
  append to Redis, one does not. No committed event may be lost, none invented,
  and repeats need a failure where locks are kept.
- **Issues.** Commands lock the issue, and the counter, the timeline, the
  statements and the detailed view are written or read by separate statements
  under that lock; the list runs without one. They must tell the same story.
- **Polls, initiatives and contacts** are checked before a transaction and
  answered after it; votes, closures and limits meet in between.
- **Gateway commands** act on a session and a role read earlier, under a
  reservation of their key, while another request logs the session out, a role is
  taken away, and the called service goes on after the gateway has given up. A key
  must execute a command at most once, success must only be told of what was
  executed, and authority must have been held.
- **Webhook updates** are delivered until MAX gets a 200, several times at once.
  The lock is deleted without a look at its owner. An update must be answered, not
  by two deliveries at a time, and again only for a cause.

The hazards, each at its line with the properties that watch it, are in
`PROJECT.json`.

## 2. Modules

| Module | What it is |
|---|---|
| `HouseWorkflow` | state machine of `internal/house` without invitations, and of `app provision` |
| `HouseInvitations` | extends it by invitations; refines it |
| `AttachmentUpload` | photos of issue-service with concurrent `CompleteUpload` calls |
| `NotificationConsumer` | the consumer group of max-gateway |
| `OutboxRelay` | the relays of three services over one outbox table |
| `IssueLifecycle` | issues, confirmations, timeline, statements, details and list |
| `Community` | polls, initiatives and service contacts |
| `CommandOnce` | abstract specification: what a client with an Idempotency-Key is promised |
| `GatewayCommands` | sessions, authority, reservations and calls of max-gateway; implements it |
| `Webhook` | one update of MAX and its deliveries |
| `MC*` | instances of them for TLC: symmetry, views and compositions |
| `HouseWorkflowProofs`, `HouseInvitationsProofs`, `AttachmentUploadProofs`, `NotificationConsumerProofs`, `OutboxRelayProofs`, `IssueLifecycleProofs`, `CommunityProofs` | theorems about the module of that name, and their proofs |
| `MaxGatewayProofs` | those of `GatewayCommands` and `Webhook` |

Operators whose comment starts with "Fault" are not part of a specification:
each is one definition as a plausible mistake would have it, and shows that the
property named with it in `PROJECT.json` ("mutants") notices the mistake.

### HouseWorkflow

Variables are the tables; `emitted` holds the outbox rows of the last
transaction. `Execute` (`service.go:117`) opens a transaction and takes
`pg_advisory_xact_lock` before anything else, and rolls back on an error. So one
command is one action, its guard is the conjunction of the handler's checks, and
a refused command changes nothing. A repeated decision, and every read, is
`Replay`. Abstractions:

- A house *is* its normalized address: the address is unique and houses are
  never changed or deleted.
- Ids come from finite pools; an unused id has status `NONE`.
- Time appears once: transfer commands first expire the offers that are older
  than 48 hours. The set of late offers is chosen freely (`late`), since `now()`
  is the start of a transaction that may have waited for the lock.
- Texts, names, contact data, list filters and the audit log are left out.
- `Provision` models the operator's command; it is in `OperatorSpec` only, since
  a command that sets any role and status by design breaks what the service
  keeps.

### HouseInvitations

Adds `house_invitations` and `invitation_redemptions`. Redeeming is one action
with everything the handler does: it reuses a PENDING request or files one,
records the redemption, counts the use and closes a used-up invitation. Expiry
is not stored in the table (the handler compares `expires_at` with the clock), so
an expired invitation is one nobody redeems. `ImplementsWorkflow` states the
refinement: with invitation events removed from `emitted`, every step is a step
of HouseWorkflow.

### AttachmentUpload

`row` is the attachments table, `object` the bucket, `call[c]` the program
counter and local variables of one `CompleteUpload`. The snapshot, HEAD, GET, the
deciding transaction and the clean-up are five actions, and `Abandon` ends a call
at any point (error, crash, cancelled request). A presigned PUT may arrive at any
time while the key is empty: the URL carries `If-None-Match: *`, and is signed
after the deadline was computed. `late` is the set of attachments whose deadline
has passed, read at the snapshot and again in the transaction. Contents are
told apart by their ETag; `Valid` are those the verification accepts. `CreateIssue` is
one action, its transaction: `FOR UPDATE` keeps the photos it checks until it commits.
What a second CreateIssue meets is thus the row the first has filled, and that the locks
do what they promise is PostgreSQL's, assumed here. Columns
that no statement updates (key, size, type, deadline) are not variables.

### NotificationConsumer

Every call to Redis, identity-service and MAX is a step. A turn of the loop is
`Ready` (identity-service is asked whether it is ready, and asked again until it
is), `Claim` (XAUTOCLAIM), the entries claimed, `Read` (XREADGROUP), the entries
read; `loop` is the call a consumer makes next, once its batch is empty. `ready` is
what `Ready` sees: it may change as soon as it was seen, so the claimed entries are
processed, and new ones read, on an answer that may be old. `CallFails` is Redis
refusing one of the two calls of the loop. `group` and `idle` are
the group's pending list, `batch` what a consumer took and has not looked at,
`run` the local state of `process`. Faults: `"crash"` (a consumer disappears with
its batch), `"redis"` (a call fails, or is executed and its answer lost),
`"slow"` (the 15-second deadline of `process` passes at any step, and every later
call of it fails at once, the deferred DEL included), `"identity"` (the readiness
check may fail, for any time; without it, as in the safety run, it always
passes, since a consumer that waits adds nothing a consumer that is slow to begin
does not). The calls of `process` to MAX and identity-service may always fail, and MAX may deliver a message and still answer with an error.
Memberships and preferences change at any moment (`AccessChanges`), which can
change a page of recipients between two fetches. The relays appear as `Publish`,
which may append an event again. History variables: `slipped` (messages whose
marker was not written), `freed` (events whose lock was deleted by a consumer
that did not hold it), `owed` (who was eligible ever since publication).

Abstractions: a batch takes all entries (the code takes ten, and no run has
more), one minute of the lock is "its owner does not work under it any more",
markers of seven days do not expire, `sent` is capped at 2, `retry` at
`MaxAttempts`. The branch for a missing recipient service is not wired by
`cmd/app/main.go`.

### OutboxRelay

`service` tells whose relay a behaviour is about and never changes; the three
differ in three places. `Locked`: identity and issue hold the rows of an open
transaction, `FOR UPDATE` of community ends with its SELECT. `Failed`: the first
two end the batch at a row they cannot append, community goes on with the next.
`BackedOff`: issue alone postpones that row. `relay[r]` is the batch a process
still has to append, the rows it has marked (in its transaction, or in
`publishedIDs`) and the one that failed. `StopBatch` is a crash, a shutdown, the
10-second deadline or an error of PostgreSQL; the open transaction is rolled
back, and what Redis has got it keeps. `AppendFails` covers both a refused XADD
and one whose answer is lost. The length of a back-off is left out, and entries
are counted up to two (`MoreThan`). `Publish` of NotificationConsumer is what a
consumer sees of this module.

### IssueLifecycle

A request is its lock and its local variables. A command is two actions: one
that gets the lock of the issue, reads and checks (every check comes before the
first write), and one that commits. `Holds` is the FOR UPDATE lock, which
GetIssue takes as well: its parts are read in separate actions. CreateIssue has
no row to lock and takes its time before its transaction; a list is a statement
per page. `emit` writes the timeline row and the outbox row together, one record
stands for both. The clock advances with each command that reads it under a lock;
two issues may be created at the same time. `due` is a history variable: issues
that have been open ever since a list began. Roles matter only in `Transition`;
house, texts and PDF layout are left out, photos are in AttachmentUpload.

### Community

VotePoll looks at the poll, opens a transaction, locks and looks again, inserts,
commits, and reads the answer with three statements: each is an action, and
ClosePoll, the deadline and other calls come between any two. An answer says
CLOSED if the status column did or if the deadline has passed when everything
was read. Initiatives are locked in the same way. Contacts run under an advisory
lock of the house and their count and write are two actions. The three parts
share no table, so a behaviour is about one of them (`topic`). Who may close or
write contacts is decided by the gateway and the role check in front of the
operations, so users carry no role here.

### CommandOnce and GatewayCommands

`req[r]` is the program counter and the local variables of one request: the token,
the key and the command it came with, the user and house of the session it read.
Reading the session, checking the role, `SETNX` of the reservation, the RPC and
`SET XX KEEPTTL` of the answer are separate actions, and sessions, roles and keys
change between any two. `inService` are requests the called service works on; it
goes on when the gateway has answered an error, and `Execute` and `Refuse` are its
two ends. `Break` ends a request with an error at any point, before or after Redis
executed the command it was sending (refused, answer lost, client gone, process
dead). `KeyExpires` stands for 24 hours: it happens when nobody works under the
key any more. The token of a login is new. History variables: `ended` (tokens that
were logged out or expired), `late` (requests that arrived with such a token),
`authorized` (requests whose user had the role they need at some time since they
read their session), `expired` (executed requests whose key was forgotten).

`CommandOnce` knows only attempts: what ran, what was told. `ImplementsOnce` maps
`ran` to the executed requests with a key that is still remembered and `told` to
those answered with success. Of identity-service only roles are seen;
`HouseWorkflow` says how they change. The permissions of administrators are read in
the same way and left out, and so are requests that only read and the counters of
the rate limiter, which is one of the causes of `Break`.

### Webhook

Redis keys of different updates are different, so one update stands for all; its
`kind` says whether it needs an answer, none, or is invalid. `call[d]` is what
delivery `d` does next: look for the marker, take the lock, send, mark, free the
lock, reply. Every Redis call may fail before or after it took effect, MAX may
deliver an answer and still report an error, and a crash leaves everything as it is.
`slips` counts answers that went out and were not noted, `overtaken` are the
deliveries that had not found the marker when it was written and had not taken the
lock yet. `FaultsEnd` ends all faults. The lock expires only when its delivery is
over: one handler takes at most three attempts of seven seconds and two pauses of
ten, which is less than a minute.

`MCMaxGateway` puts the two beside each other. They share no key of Redis, so a
behaviour is about one of them (`part`), and the other stands still.

## 3. Runs

| Run | Instance | States | Shows |
|---|---|---|---|
| HouseSeats | 3 users (one administrator), 1 house, 1 registration, 2 offers | 563k | `TypeOK`, `OneChairmanRow`, `RevokedHoldNoPower`, `OpenOfferIsFromTheChairman`, `ChairmanIsReplacedCleanly` |
| HouseRegistrations | 2 users, 2 houses, 2 registrations, 1 join request | 133k | `DefaultHouseIsActive`, `PendingRegistrationIsApprovable`, `HousesComeFromRegistrations`, `EntryNeedsDecision`, `AccessChangesAreAnnounced` |
| HouseInvitations | 2 users, 1 house, 2 join requests, 1 invitation of up to 2 uses | 122k | `QuotaCountsUsers`, `RedemptionNamesOwnRequest`, `ImplementsWorkflow` |
| AttachmentUpload | 2 users, 2 photos, 2 issues, 3 calls, 2 valid and 1 bad content | 132k | `UploadTypeOK`, `VerifiedFileStays`, `OnlyRefusedAreDeleted`, `IssueHasOwnPhotos`, `PhotoIsDecidedOnce` |
| AttachmentNetwork | 1 photo | violated | finding 1 |
| NotificationDelivery | 2 consumers, an event published twice, 2 recipients on pages of 1, 2 attempts, all faults but `"identity"`, until the first `Recover` (`FaultsStay`), and at most one message without its marker (`OneSlip`) | 2.2M | `AckedIsSettled`, `DoneReachedEverybody`, `RepeatHasCause` |
| NotificationSettles | 2 consumers, 1 entry, 1 recipient on a page of 1, an ordinary, a quiet or a malformed event, all faults until `Recover` | 100k | `EveryEntrySettles` |
| NotificationSlow | 1 consumer that is slow | violated | finding 2 |
| OutboxRelay | 3 services, 2 relays, 3 rows, batches of 2, all faults until `Recover` | 80k | `RelayTypeOK`, `PublishedWasAppended`, `RepeatNeedsFailure`, `EveryRowIsPublished` |
| IssueLifecycle | 2 users, 2 issues, 2 requests, 1 list with pages of 1, 4 ticks | 1.5M | `CountIsConfirmations`, `TimelineTellsTheStatus`, `StatementsFollowTheIssue`, `DetailsAreConsistent`, `ListIsComplete` |
| Community | 2 users, 3 calls; 1 poll with 2 options, 1 initiative, 3 contacts in 2 categories of at most 2 | 206k | `PollAnswersAreTrue`, `CategoriesAreLimited`, `ClosedTakesNothing` |
| MaxGateway | 1 user, 1 house, 2 roles, 2 tokens, 1 key, 2 commands, 2 requests, 1 change of a role; 3 deliveries, 2 slips | 621k | `AuthorityWasHeld`, `NothingAfterLogout`, `OneAtATime`, `RepeatedAnswerHasCause`, `ImplementsOnce`, `EveryUpdateIsAnswered` |

Why these bounds. *Three users* are the least number for "offered by one,
accepted by another, while a third was seated"; the administrator is one of
them, and may chair a house too. One house is enough for a property of one
house; two are in the run about default houses and addresses. Two offers of one
house are needed to be rivals, two registrations of one address likewise, two
join requests for one to be decided while the next is filed. A quota of two has a
last and a last-but-one use. *Three calls* of `CompleteUpload` are one that
decides, one that carries a stale verdict and one that cleans up; two valid
contents tell "a valid file" from "the verified file". *Two consumers* compete
for a lock, and a page of one recipient makes two recipients need three fetches,
the last of them empty; two attempts separate "retry" from "give up". The two
constraints of the run keep it in memory: after `Recover` a consumer does nothing it
could not have done before, and a second message without a marker is one more of
the same excuse. The run reaches `freed`: a lock is deleted by
a consumer that lost it. What takes a third consumer is a message that is
*repeated* because of it, since with two the one that deletes the lock is the
only one that could use it. So the run checks, as a part of `RepeatHasCause`, that this befalls
events that are done only (`freed` is a subset of `done`); that nothing else repeats
with any number of consumers is the theorem `RepeatsHaveCauses`. The run of
liveness has one recipient: the page is full, and the next one empty. *Three rows* in
batches of two leave one behind a batch, and one behind a failed row. *Four ticks* of
`IssueLifecycle` are an issue resolved, reopened by an administrator and resolved
again, or two statements around a confirmation; two issues in pages of one need
a cursor. With two users one of them reports the issue and one can confirm it, so a counter
of the run is 0 or 1, and what races is the repeated confirmation of one neighbour;
that the counter equals the rows with any number of neighbours is the theorem
about `CountIsConfirmations` (three users take TLC four minutes and more). *Three calls* of `Community` are one that is answered, one that changes
the result meanwhile and one that closes the poll, or two creations and an
update at a limit of two. *Two requests* of GatewayCommands are one that executed and
one that meets its key or its session; `h1` and `NoHouse` give one key two scopes.
One change of a role lies before, between or after their steps. *Three deliveries*
are one that answers, one it overtakes, and a later one.

The house runs use a view without `emitted`: no guard reads it, so states that
differ only there behave alike, and action properties still see the rows of each
step. Deadlock is checked in every run except OutboxRelay, where the system stops
once every row is published, and MaxGateway, where it stops when all requests are
over or the update is acknowledged.

Fairness is assumed in NotificationConsumer, OutboxRelay and Webhook, where liveness
is stated. A relay runs on its ticker for ever (weak fairness of begin, append or
commit, per relay) and a back-off ends, at the latest after 256 seconds. A
consumer's loop never stops by itself (`consumer.go:68`), so a consumer that is let
through by `Ready`, or can claim, read or continue, does (weak fairness of the
disjunction, per consumer). While identity-service is not ready `Ready` is not
enabled and nothing is promised, as `services/max-gateway/README.md:9` says: the
consumer waits. That it is ready in the end is a premise of `EveryEntrySettles`, and
the lookups of `process` may still fail for ever. Redis time passes:
a pending entry grows idle, a lock expires (weak fairness). The handler of a
delivery goes on, since each of its calls has a time limit, and MAX delivers again
until it is acknowledged (weak fairness per delivery; this last is assumed of MAX:
`webhook.go` relies on it when it answers 503, "retry webhook later"). Nothing else is assumed of MAX and
identity-service, nor of the fault actions, `Recover` or `FaultsEnd`:
`EveryEntrySettles` and `EveryUpdateIsAnswered` have the end of the other faults as
a premise.

## 4. Findings

1. *AttachmentNetwork.* A connection that breaks in the first bytes of the file
   makes `image.DecodeConfig` report an unknown format, which counts as a bad
   file: the photo is REJECTED and deleted, although
   `services/issue-service/README.md:93` says that a network error leaves
   `CompleteUpload` repeatable.
2. *NotificationSlow.* The dead-letter script runs in the context whose 15 seconds
   are over. An entry whose every attempt ends by the deadline is retried for
   ever and never reaches `stream:notifications:dead`, against
   `docs/house-workflow/README.md:173-174`.

Smaller observations, without a run of their own: assigning and removing a
chairman and revoking the permission write an audit row but no outbox row, so the
users concerned get no notification (`admin.go:71`); an EXHAUSTED invitation can
still be revoked (`invitations.go:64`), although the state table of the
documentation has one step out of ACTIVE; a vote that was checked before the
deadline of a poll may be inserted after it (`postgres.go:242`), when results may
already have been shown as closed; the deferred DEL of the notification consumer
deletes the lock without comparing its owner after the ack script has freed it
(`consumer.go:147`), so a second consumer may lose its lock to a third and both may
send to a user who became a recipient meanwhile, a cause of duplicates that
`services/max-gateway/README.md:124` does not list; the webhook repeats an answer
without any failure when a delivery looked for the marker before another wrote it,
and took the lock after that one freed it (`overtaken`), which
`services/max-gateway/README.md:116` leaves open.

## 5. Theorems

All theorems hold for every value of the constants that meets the assumptions the
modules state by name: members of sets are what they should be
(`AdminsAssumption`, `ValidAssumption`, `RowsAssumption`, `ServicesAssumption`,
`CommandsAssumption`, `RequestsAssumption`; `IssuesAssumption` and
`RecipientsAssumption`, ids are numbers and 0 is none), nulls are no members
(`NullAssumption`, `NoFileAssumption`, `NullsAssumption`, `NoVoteAssumption`,
`CategoriesAssumption`, `NothingAssumption`, `RequestAssumption`), bounds are natural
numbers (`BatchAssumption`, `LimitAssumption`, `SlipsAssumption`, `PageAssumption`,
`BoundsAssumption`, `MaxUsesAssumption`), and what is counted is finite
(`FiniteAssumption`, `DeliveriesAssumption`, `UsersAssumption`, and again
`RecipientsAssumption`).

| Theorem | Statement | Module |
|---|---|---|
| `TypeCorrect` | `OperatorSpec => []TypeOK` | HouseWorkflowProofs |
| `OneChairman` | `OperatorSpec => []OneActiveChairman` | HouseWorkflowProofs |
| `OneRow` | `Spec => []OneChairmanRow` | HouseWorkflowProofs |
| `RevocationIsComplete` | `Spec => []RevokedHoldNoPower` | HouseWorkflowProofs |
| `OffersComeFromChairmen` | `Spec => []OpenOfferIsFromTheChairman` | HouseWorkflowProofs |
| `ReviewsCanEndWell` | `Spec => []PendingRegistrationIsApprovable` | HouseWorkflowProofs |
| `HousesAreRegistered` | `Spec => []HousesComeFromRegistrations` | HouseWorkflowProofs |
| `DefaultHousesAreOpen` | `Spec => []DefaultHouseIsActive` | HouseWorkflowProofs |
| `ChairmenAreReplaced` | `Spec => ChairmanIsReplacedCleanly` | HouseWorkflowProofs |
| `EntryIsDecided` | `Spec => EntryNeedsDecision` | HouseWorkflowProofs |
| `AccessIsAnnounced` | `Spec => AccessChangesAreAnnounced` | HouseWorkflowProofs |
| `QuotaIsKept` | `InvitationSpec => []QuotaCountsUsers` | HouseInvitationsProofs |
| `RedemptionsFileRequests` | `InvitationSpec => []RedemptionNamesOwnRequest` | HouseInvitationsProofs |
| `InvitationsAreWorkflow` | `InvitationSpec => ImplementsWorkflow` | HouseInvitationsProofs |
| `ServiceWithInvitations` | `InvitationSpec => []ServiceKeeps` | HouseInvitationsProofs |
| `EntryWithInvitations` | `InvitationSpec => EntryNeedsDecision` | HouseInvitationsProofs |
| `ReplacementWithInvitations` | `InvitationSpec => ChairmanIsReplacedCleanly` | HouseInvitationsProofs |
| `AccessWithInvitations` | `InvitationSpec => AccessChangesAreAnnounced` | HouseInvitationsProofs |
| `UploadTypeCorrect` | `UploadSpec => []UploadTypeOK` | AttachmentUploadProofs |
| `VerifiedPhotoStays` | `UploadSpec => []VerifiedFileStays` | AttachmentUploadProofs |
| `DeletesRefusedOnly` | `UploadSpec => []OnlyRefusedAreDeleted` | AttachmentUploadProofs |
| `PhotosHaveOneIssue` | `UploadSpec => []IssueHasOwnPhotos` | AttachmentUploadProofs |
| `DecidedOnce` | `UploadSpec => PhotoIsDecidedOnce` | AttachmentUploadProofs |
| `NothingIsLost` | `ConsumerSpec => []AckedIsSettled` | NotificationConsumerProofs |
| `RepeatsHaveCauses` | `ConsumerSpec => []RepeatHasCause` | NotificationConsumerProofs |
| `EverybodyIsReached` | `ConsumerSpec => []DoneReachedEverybody` | NotificationConsumerProofs |
| `RelayTypeCorrect` | `RelaySpec => []RelayTypeOK` | OutboxRelayProofs |
| `NothingIsLost` | `RelaySpec => []PublishedWasAppended` | OutboxRelayProofs |
| `LocksPreventRepeats` | `RelaySpec => []RepeatNeedsFailure` | OutboxRelayProofs |
| `CounterIsRight` | `LifecycleSpec => []CountIsConfirmations` | IssueLifecycleProofs |
| `TimelineIsTrue` | `LifecycleSpec => []TimelineTellsTheStatus` | IssueLifecycleProofs |
| `StatementsInOrder` | `LifecycleSpec => []StatementsFollowTheIssue` | IssueLifecycleProofs |
| `DetailsBelongTogether` | `LifecycleSpec => []DetailsAreConsistent` | IssueLifecycleProofs |
| `ListsAreComplete` | `LifecycleSpec => []ListIsComplete` | IssueLifecycleProofs |
| `LimitsHold` | `CommunitySpec => []CategoriesAreLimited` | CommunityProofs |
| `AnswersAreTrue` | `CommunitySpec => []PollAnswersAreTrue` | CommunityProofs |
| `ClosedIsClosed` | `CommunitySpec => ClosedTakesNothing` | CommunityProofs |
| `GatewayTypeCorrect` | `GatewaySpec => []GatewayTypeOK` | MaxGatewayProofs |
| `KeysExecuteOnce` | `GatewaySpec => []KeyExecutesOnce` | MaxGatewayProofs |
| `AuthorityHeld` | `GatewaySpec => []AuthorityWasHeld` | MaxGatewayProofs |
| `NothingAfterEnd` | `GatewaySpec => []NothingAfterLogout` | MaxGatewayProofs |
| `GatewayImplementsOnce` | `GatewaySpec => ImplementsOnce` | MaxGatewayProofs |
| `AnswersOneAtATime` | `WebhookSpec => []OneAtATime` | MaxGatewayProofs |
| `RepeatsHaveCauses` | `WebhookSpec => []RepeatedAnswerHasCause` | MaxGatewayProofs |

`OneActiveChairman` and `KeyExecutesOnce` have no run of their own: on a small
instance they follow from `OneChairmanRow` and from `ImplementsOnce`.

`OneChairman`: `OneActiveChairman` is not inductive by itself. Approving a
registration seats the applicant without looking at the other memberships of the
house; it is safe because the house did not exist and therefore nobody has a row
in it. The inductive invariant `SeatInv` adds the foreign key of memberships to
`TypeOK` and `OneActiveChairman`. The proof has one step per action; the
hand-over is safe because the former chairman is the only one and is demoted in
the same transaction, the assignment because it demotes all others first,
reactivation and provisioning by the unique index.

`OneRow` to `DefaultHousesAreOpen`: without the operator's command the service keeps
more, and the first four statements need one another. An offer dies with the chairman
who made it because there is one CHAIRMAN row; there is one because an offer is
accepted by a user with the permission whose rivals are closed; he has it because
revoking closes his offers; and a registration can be approved because its applicant
kept the permission and its address stayed free. The inductive invariant `ServiceInv`
is the conjunction of these four with `TypeOK` and the foreign key (`RowsNameHouses`);
the last two theorems use it. The actions are sorted by what they write
(`ChairmenStep`, `OfferStep`, `PermStep`, `RegistrationStep`, `ApprovalSteps`,
`EntryStep`), and a lemma for each kind says which conjuncts it keeps, so that an
action only has to show its kind.

The three action properties follow from kinds as well. `AccessStep` says that a step
changes nobody's access, or that of one user in one house: by management or an
approval, with an event for that user, or by an administrator who seats a permitted
chairman. `ChairmenAreReplaced` combines three kinds: who rises to chairman in a house
takes the role from everybody else there and leaves no open offer (`Rises`), a step
that excludes somebody touches nobody else (`Leaves`), and nobody becomes an
administrator of a house (`RolesStep`); so the former chairman is a resident, and
still an ACTIVE one.

`QuotaIsKept`, `RedemptionsFileRequests`: `InvitationInv` adds to the two properties
that an invitation is of a house that exists, that nobody has redeemed one that was
not made, and the types of the tables an invitation reads. A redemption adds one
user to the redeemers, who was not among them, so that the counter stays their number
(`UseCounts`, from the cardinality theorems); the workflow can decide a request but
never changes whose it is and which house it is for (`JoinStepKeeps`).

`InvitationsAreWorkflow` maps a redemption that files a request to
`CreateJoinRequest`, whose guards follow from those of the redemption and from
`InvitationInv`; every other step about an invitation is `Replay` once its own events
are left out, and a step of the workflow is itself. TLC checks this refinement with
one house and no transfer; the proof covers all of them. The four theorems after it
carry what is proved of `Spec` over to `InvitationSpec`: they instantiate
HouseWorkflowProofs with the events of the workflow only (`Without`), and need of the
steps of invitations just that they change no membership.

`VerifiedPhotoStays`: a stale call may delete an object. The inductive invariant
`UploadInv` says that calls work on rows that exist, that a verdict is carried
only by calls that reached the decision (`VerdictComesLast`), that a call that saw
content of an attachment still finds it as long as the attachment is not refused
(`SeenFileStays`: PUT does not replace and only clean-ups delete), and that only
refused attachments are being cleaned up (`OnlyRefusedAreDeleted`, because a
decision is taken once). Together they make the content under a READY row the one
whose ETag was verified. `PhotosHaveOneIssue` and `DecidedOnce` look at the rows
alone: a step fills free rows, decides a pending one or attaches ready ones
(`RowStep`).

`NothingIsLost`, `RepeatsHaveCauses`, `EverybodyIsReached` (of the consumers) rest on
what a consumer knows between two calls. `Typed` holds the types and that whatever is
taken, idle or under work is an entry that was published. The actions are sorted by
what they do to messages, locks and the run of a consumer (`Kinds`), and the rest is
proved of these kinds:

- *Nothing is lost.* The only steps that acknowledge are the ack script, which marks
  the event, the dead letter, and the entries that need no message (`GroupStep`).
- *Repeats.* Between SETNX and its last call a consumer has the lock, unless a
  stranger deleted it (`WorkersHaveTheLock`), which happens only to an event that is
  done: whoever is engaged with another has its lock until the ack script
  (`LockedUntilDone`). So at most one consumer works on an
  event that was not freed (`OneWorker`), and a message that was sent is either noted
  or about to be noted by that consumer (`OnceUnlessExcused`); the marker is looked
  up in between, and `CheckRecipient` refuses.
- *Everybody.* Who has been left behind by the loop has been sent the message,
  or is not owed it any more, and behind the last page there is nobody (`Progress`).
  The pages are what makes this true while memberships change: a page has no gap
  (`PageHasNoGap`), a page that is not full holds everybody behind the cursor
  (`LastPageIsAll`), and the cursor never passes anybody who stayed eligible
  (`FetchProgress`). This is where the finiteness of `Recipients` is needed.

`LocksPreventRepeats` and `NothingIsLost` (of the relays): the inductive invariant `RelayInv` says
what a batch in progress may rely on. `BatchesAreRows`: a sleeping relay holds
nothing, a batch consists of committed rows, and what is marked has been appended.
`LocksHold`: with locks, the rows in the hands of a relay are pending, in one pair
of hands, and a row is not both marked and still to be appended. That is why the
row an append is about was never appended, unless a batch with it was torn:
`AppendedIsMarked` says that an appended row that is still pending is marked in
some open transaction or torn. `OnlyIssuePostpones` keeps the back-off apart from
the other two. That the oldest row of a batch is a member of it (`LeastIsMember`)
rests on the well-foundedness of the natural numbers.

`CounterIsRight` to `DetailsBelongTogether`: `LifecycleInv` says of each issue that
its row, its confirmations, its timeline and its statements tell the same story
(`IssueOK`), and of each request what it knows of the issue it works on
(`RequestOK`): the status and the counter it read are still those of the row, and
its time is later than all that is written about the issue. Both are kept because of
`Exclusive`: no two requests work on the same issue, which is what FOR UPDATE gives
to changes and details, and the new id to a creation. A commit therefore disturbs
one issue and no other request (`CommitStep`), and a step of a request disturbs no
table (`RequestStep`). The time matters: a change of status that carried an
older time than the one before it would make the timeline tell another story than
the row; the clock is read under the lock, and that excludes it.

`ListsAreComplete` adds `ListOK`: the cursor of a list in progress is an issue that
exists, what was shown comes not after it, and what is owed and was not shown is still
open and comes after it. A page is the newest of the rest (`PageIsNewest`: newest
first is a strict total order with the id as the second key, and of finitely many rows
one comes last). Dates and ids of issues never change (`ListStays`), so that what
happens between two pages moves no row across the cursor.

`LimitsHold`, `AnswersAreTrue`, `ClosedIsClosed`: `CommunityInv` says of each request
what its record may rely on. While it has the lock, the row it looked at is open,
and the count it read leaves room in its category (`LockOK`, `OneWriter`); what it
has read of a poll stays true while the poll takes no votes (`AnswerOK`). A step
replaces one record, so that two lemmas carry the proof: one for steps of tables
(`TableStep`), one for steps of a request (`RequestStep`). Counting rests on the
cardinality theorems of the library.

`GatewayImplementsOnce` and `KeysExecuteOnce` rest on `KeyInv`: who is past the
reservation is the only one under its key (`OneHolder`) and its reservation is in
Redis (`HoldersReserved`), whatever was executed had been passed on (`PassedOn`), and
a finished answer belongs to an executed request with the same command
(`StoredAnswers`). `NothingAfterEnd` needs that an ended token has no session and no
login under way; the switch cannot bring one back because of `XX`. `AuthorityHeld`
needs that who passed the check has been authorized, and that history only grows
while a request is under way.

`RepeatsHaveCauses`: before the marker every answer but the one under way is a slip,
and only the holder of the lock can send (`LockInv`, `BeforeTheMarker`). After it only
overtaken deliveries can, each once (`AfterTheMarker`). `AnswersOneAtATime` needs that
the lock is deleted by its owner only, which is not in the code but follows: a
delivery that reaches the deletion still holds it.

Every invariant, action property and refinement a passing run checks is stated by a
theorem. Only model-checked are the liveness properties, which need fairness and
ENABLED and are out of the prover's reach: `EveryEntrySettles`, `EveryRowIsPublished`
and `EveryUpdateIsAnswered`. The theorems from `OneRow` to `AccessIsAnnounced` are about
`Spec`: the operator's `Provision` can break them by design and is covered by
`TypeCorrect` and `OneChairman` only.

## 6. Not modelled, and the plan

- *Preferences and profile* of identity-service: one row written by one statement
  and read by nothing that keeps state; what depends on them, the recipients query,
  is in NotificationConsumer, where preferences change at any moment.
- *Announcements, the calendar and plain lists* of community-service: one row,
  one statement. A property of them would repeat the statement.
- *REST mapping and RPC clients* of max-gateway: translation without state. Errors
  and time limits of the clients are in GatewayCommands as `Break` and `Refuse`.
- *Rate limiter*: a counter with a lifetime. It only refuses, and every step that
  follows it may fail in the models anyway.
- *Generated protobuf code, texts, PDF layout, metrics, configuration, deployment
  files, data loaders and the mini app*: they keep no state the properties speak of.

Theorems to come: what liveness rests on and can be proved without fairness, for
instance that the attempts of an event never go down before it is settled, and that
every entry that is not acknowledged is new, pending with somebody, or idle.

`NotificationConsumer` says what happens to an entry, and not what one recipient is
promised; a specification per recipient, in which a user MAX always refuses does
not stand in the way of those behind him, would show that `house.go:86` does not
keep it.

------------------------------- MODULE Community -------------------------------
(***************************************************************************)
(* Polls, initiatives and service contacts of one house in                 *)
(* community-service.                                                      *)
(*                                                                         *)
(* VotePoll looks at the poll before it opens a transaction, locks and     *)
(* checks it again in the transaction, and reads the results afterwards,   *)
(* in separate statements.  The deadline of a poll passes at any time; it  *)
(* is compared with the clock and never stored in the status.  Contacts    *)
(* are counted and written under an advisory lock of the house.            *)
(*                                                                         *)
(* The three parts share no table.  topic says which of them a behaviour   *)
(* is about; it never changes.  Texts, and announcements and calendar      *)
(* entries (single rows nobody competes for) are left out, and so are the  *)
(* outbox rows, which are written by the same transactions.                *)
(***************************************************************************)
EXTENDS Naturals, FiniteSets

CONSTANTS
    Users,
    Polls, Options, NoVote,
    Initiatives,
    Contacts, Categories,
    ContactLimit,   \* active contacts in a category (10)
    Calls,          \* requests in progress at the same time
    Topics          \* the parts to consider

ASSUME NoVoteAssumption == NoVote \notin Options
ASSUME LimitAssumption == ContactLimit \in Nat
ASSUME FiniteAssumption == IsFiniteSet(Users) /\ IsFiniteSet(Contacts)
ASSUME CategoriesAssumption == Categories \cap {"NONE", "ARCHIVED"} = {}

VARIABLES
    topic,
    poll,           \* status of a poll in the table
    over,           \* polls whose ends_at has passed
    vote,           \* poll_votes: the option a user chose
    initiative,     \* initiatives: status and supports_count
    supports,       \* initiative_supports
    contact,        \* service_contacts: NONE, ARCHIVED or the category
    call            \* requests: transaction and local variables

polls == <<poll, vote>>
initiatives == <<initiative, supports>>
communityVars == <<topic, poll, over, vote, initiative, supports, contact, call>>

Done == [op |-> "none", pc |-> "idle", row |-> "NONE", user |-> "NONE",
         choice |-> NoVote, closed |-> FALSE, total |-> 0, mine |-> NoVote]

NumberOfVotes(p) == Cardinality({u \in Users : vote[p][u] # NoVote})

\* Fault: the row is read without FOR UPDATE.
HeldByNobody(k, x) == FALSE

\* Call k holds the lock of row x (or of the house, for contacts).
Holds(k, x) == call[k].pc = "locked" /\ call[k].row = x

Free(x) == \A k \in Calls : ~Holds(k, x)

-----------------------------------------------------------------------------
(* Polls.                                                                  *)

CreatePoll(p) ==
    /\ topic = "polls"
    /\ poll[p] = "NONE"
    /\ poll' = [poll EXCEPT ![p] = "OPEN"]
    /\ UNCHANGED <<topic, over, vote, initiatives, contact, call>>

DeadlinePasses(p) ==
    /\ poll[p] # "NONE" /\ p \notin over
    /\ over' = over \cup {p}
    /\ UNCHANGED <<topic, polls, initiatives, contact, call>>

\* VotePoll before its transaction.
BeginVote(k, p, u, o) ==
    /\ call[k] = Done
    /\ poll[p] = "OPEN" /\ p \notin over
    /\ call' = [call EXCEPT ![k] = [Done EXCEPT !.op = "vote", !.pc = "begun", !.row = p,
                                                !.user = u, !.choice = o]]
    /\ UNCHANGED <<topic, over, polls, initiatives, contact>>

\* The transaction locks the poll and checks it again.
LockPoll(k) ==
    /\ call[k].op = "vote" /\ call[k].pc = "begun"
    /\ Free(call[k].row)
    /\ poll[call[k].row] = "OPEN" /\ call[k].row \notin over
    /\ call' = [call EXCEPT ![k].pc = "locked"]
    /\ UNCHANGED <<topic, over, polls, initiatives, contact>>

\* The INSERT finds no vote of the user.
FirstVote(p, u) == vote[p][u] = NoVote

\* INSERT ... ON CONFLICT DO NOTHING, the outbox row and COMMIT.
InsertVote(k) ==
    LET c == call[k] IN
    /\ c.op = "vote" /\ c.pc = "locked"
    /\ FirstVote(c.row, c.user)
    /\ vote' = [vote EXCEPT ![c.row][c.user] = IF @ = NoVote THEN c.choice ELSE @]
    /\ call' = [call EXCEPT ![k].pc = "read"]
    /\ UNCHANGED <<topic, over, poll, initiatives, contact>>

\* ClosePoll waits for the lock of the row, whatever the status is.
ClosePoll(k, p, u) ==
    /\ call[k] = Done
    /\ poll[p] # "NONE" /\ Free(p)
    /\ poll' = [poll EXCEPT ![p] = "CLOSED"]
    /\ call' = [call EXCEPT ![k] = [Done EXCEPT !.op = "close", !.pc = "read", !.row = p,
                                                !.user = u]]
    /\ UNCHANGED <<topic, over, vote, initiatives, contact>>

\* GetPoll, for itself or after a vote and a closure: status, results, own vote.
BeginGet(k, p, u) ==
    /\ call[k] = Done
    /\ poll[p] # "NONE"
    /\ call' = [call EXCEPT ![k] = [Done EXCEPT !.op = "get", !.pc = "read", !.row = p,
                                                !.user = u]]
    /\ UNCHANGED <<topic, over, polls, initiatives, contact>>

ReadStatus(c) == [c EXCEPT !.pc = "count", !.closed = poll[c.row] = "CLOSED"]

CountVotes(c) == [c EXCEPT !.pc = "mine", !.total = NumberOfVotes(c.row)]

\* Fault: the status is read last.
ReadStatusLast(c) == [c EXCEPT !.pc = "answered", !.mine = vote[c.row][c.user],
                               !.closed = poll[c.row] = "CLOSED"]

\* The deadline is compared with the clock once everything has been read.
ReadMine(c) == [c EXCEPT !.pc = "answered", !.mine = vote[c.row][c.user],
                         !.closed = @ \/ c.row \in over]

GetPoll(k) ==
    LET c == call[k] IN
    /\ c.op \in {"vote", "close", "get"}
    /\ \/ c.pc = "read" /\ call' = [call EXCEPT ![k] = ReadStatus(c)]
       \/ c.pc = "count" /\ call' = [call EXCEPT ![k] = CountVotes(c)]
       \/ c.pc = "mine" /\ call' = [call EXCEPT ![k] = ReadMine(c)]
    /\ UNCHANGED <<topic, over, polls, initiatives, contact>>

-----------------------------------------------------------------------------
(* Initiatives.                                                            *)

CreateInitiative(i) ==
    /\ topic = "initiatives"
    /\ initiative[i].status = "NONE"
    /\ initiative' = [initiative EXCEPT ![i] = [status |-> "OPEN", count |-> 0]]
    /\ UNCHANGED <<topic, over, polls, supports, contact, call>>

LockInitiative(k, i, u) ==
    /\ call[k] = Done
    /\ Free(i)
    /\ initiative[i].status = "OPEN"
    /\ call' = [call EXCEPT ![k] = [Done EXCEPT !.op = "support", !.pc = "locked", !.row = i,
                                                !.user = u]]
    /\ UNCHANGED <<topic, over, polls, initiatives, contact>>

\* The INSERT finds no support of the user.
FirstSupport(i, u) == <<i, u>> \notin supports

SupportInitiative(k) ==
    LET c == call[k] IN
    /\ c.op = "support" /\ c.pc = "locked"
    /\ FirstSupport(c.row, c.user)
    /\ supports' = supports \cup {<<c.row, c.user>>}
    /\ initiative' = [initiative EXCEPT ![c.row].count = @ + 1]
    /\ call' = [call EXCEPT ![k].pc = "count"]
    /\ UNCHANGED <<topic, over, polls, contact>>

\* The answer of SupportInitiative, read after the transaction.
GetInitiative(k) ==
    LET c == call[k] IN
    /\ c.op = "support" /\ c.pc = "count"
    /\ call' = [call EXCEPT ![k].pc = "answered", ![k].total = initiative[c.row].count]
    /\ UNCHANGED <<topic, over, polls, initiatives, contact>>

CloseInitiative(i) ==
    /\ initiative[i].status # "NONE" /\ Free(i)
    /\ initiative' = [initiative EXCEPT ![i].status = "CLOSED"]
    /\ UNCHANGED <<topic, over, polls, supports, contact, call>>

-----------------------------------------------------------------------------
(* Service contacts.                                                       *)

Active(c) == contact[c] \in Categories

\* Fault: the lock is not taken.
NoHouseLock == TRUE

\* pg_advisory_xact_lock of the house.
HouseLock == \A k \in Calls : ~(call[k].op \in {"create", "update"} /\ call[k].pc = "locked")

\* Create and Update count the other active contacts of the category.
CountContacts(k, op, c, category) ==
    /\ topic = "contacts"
    /\ call[k] = Done
    /\ HouseLock
    /\ op = "create" => contact[c] = "NONE" /\ \A j \in Calls : call[j].row # c
    /\ op = "update" => contact[c] # "NONE"
    /\ Cardinality({d \in Contacts \ {c} : contact[d] = category}) < ContactLimit
    /\ call' = [call EXCEPT ![k] = [Done EXCEPT !.op = op, !.pc = "locked", !.row = c,
                                                !.choice = category]]
    /\ UNCHANGED <<topic, over, polls, initiatives, contact>>

\* The write, the audit and outbox rows, and COMMIT; an archived contact is
\* not found by an update.
WriteContact(k) ==
    LET c == call[k] IN
    /\ c.op \in {"create", "update"} /\ c.pc = "locked"
    /\ c.op = "update" => Active(c.row)
    /\ contact' = [contact EXCEPT ![c.row] = c.choice]
    /\ call' = [call EXCEPT ![k] = Done]
    /\ UNCHANGED <<topic, over, polls, initiatives>>

\* Archiving twice is archiving once.
ArchiveContact(c) ==
    /\ topic = "contacts"
    /\ HouseLock
    /\ contact[c] # "NONE"
    /\ contact' = [contact EXCEPT ![c] = "ARCHIVED"]
    /\ UNCHANGED <<topic, over, polls, initiatives, call>>

-----------------------------------------------------------------------------
\* A call ends: answered, refused, or cut off and rolled back.
Return(k) ==
    /\ call[k] # Done
    /\ call' = [call EXCEPT ![k] = Done]
    /\ UNCHANGED <<topic, over, polls, initiatives, contact>>

CommunityInit ==
    /\ topic \in Topics
    /\ poll = [p \in Polls |-> "NONE"]
    /\ over = {}
    /\ vote = [p \in Polls |-> [u \in Users |-> NoVote]]
    /\ initiative = [i \in Initiatives |-> [status |-> "NONE", count |-> 0]]
    /\ supports = {}
    /\ contact = [c \in Contacts |-> "NONE"]
    /\ call = [k \in Calls |-> Done]

PollNext ==
    \/ \E p \in Polls : CreatePoll(p) \/ DeadlinePasses(p)
    \/ \E k \in Calls :
        \/ LockPoll(k) \/ InsertVote(k) \/ GetPoll(k)
        \/ \E p \in Polls, u \in Users : \/ ClosePoll(k, p, u) \/ BeginGet(k, p, u)
                                         \/ \E o \in Options : BeginVote(k, p, u, o)

InitiativeNext ==
    \/ \E i \in Initiatives : CreateInitiative(i) \/ CloseInitiative(i)
    \/ \E k \in Calls : \/ SupportInitiative(k) \/ GetInitiative(k)
                        \/ \E i \in Initiatives, u \in Users : LockInitiative(k, i, u)

ContactNext ==
    \/ \E c \in Contacts : ArchiveContact(c)
    \/ \E k \in Calls : \/ WriteContact(k)
                        \/ \E c \in Contacts, category \in Categories, op \in {"create", "update"} :
                              CountContacts(k, op, c, category)

CommunityNext == PollNext \/ InitiativeNext \/ ContactNext \/ \E k \in Calls : Return(k)

CommunitySpec == CommunityInit /\ [][CommunityNext]_communityVars

-----------------------------------------------------------------------------
(* Safety.                                                                 *)

\* Nobody votes in a poll a chairman has closed, and nobody supports a closed
\* initiative, not even with a request that had checked it before
\* (postgres.go:237, 376).
ClosedTakesNothing ==
    [][/\ \A p \in Polls : poll[p] = "CLOSED" => vote'[p] = vote[p]
       /\ \A i \in Initiatives : initiative[i].status = "CLOSED" =>
              initiative'[i] = initiative[i]]_communityVars

\* What a call is told of a poll is true, although status, results and own vote
\* are read one after the other.  The answer to a vote names the option just
\* chosen and results that include it.  A poll shown as closed before its
\* deadline is shown with its final result; at the deadline this is not so:
\* results may be counted before it, and a vote checked before it is inserted
\* after it.
PollAnswersAreTrue ==
    \A k \in Calls : call[k].pc = "answered" =>
        /\ call[k].op = "vote" => call[k].mine = call[k].choice /\ call[k].total > 0
        /\ call[k].closed /\ call[k].row \notin over =>
               call[k].total = NumberOfVotes(call[k].row)

\* No category has more active contacts than the limit, although contacts are
\* created, moved between categories and archived at the same time.
CategoriesAreLimited ==
    \A category \in Categories :
        Cardinality({c \in Contacts : contact[c] = category}) <= ContactLimit
=============================================================================

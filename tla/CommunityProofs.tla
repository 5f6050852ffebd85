---------------------------- MODULE CommunityProofs ----------------------------
(***************************************************************************)
(* Proofs about polls, initiatives and service contacts, for any number of *)
(* users, polls, options, initiatives, contacts, categories and requests.  *)
(*                                                                         *)
(* What a request may rely on is said by predicates of its record:         *)
(* RequestOK relates its columns, LockOK is what its lock keeps, AnswerOK  *)
(* what it has read.  A step replaces the record of one request, so the    *)
(* proof shows that the new record is good and that a step of somebody     *)
(* else keeps every good record good.                                      *)
(***************************************************************************)
EXTENDS Community, FiniteSetTheorems, TLAPS

Poller(r) == r.op \in {"vote", "close", "get"}
Writer(r) == r.op \in {"create", "update"}

Request ==
    [op : {"none", "vote", "close", "get", "support", "create", "update"},
     pc : {"idle", "begun", "locked", "read", "count", "mine", "answered"},
     row : Polls \cup Initiatives \cup Contacts \cup {"NONE"},
     user : Users \cup {"NONE"},
     choice : Options \cup Categories \cup {NoVote},
     closed : BOOLEAN,
     total : Nat,
     mine : Options \cup {NoVote}]

CommunityTypeOK ==
    /\ poll \in [Polls -> {"NONE", "OPEN", "CLOSED"}]
    /\ over \subseteq Polls
    /\ vote \in [Polls -> [Users -> Options \cup {NoVote}]]
    /\ initiative \in [Initiatives -> [status : {"NONE", "OPEN", "CLOSED"}, count : Nat]]
    /\ contact \in [Contacts -> Categories \cup {"NONE", "ARCHIVED"}]
    /\ call \in [Calls -> Request]

\* The active contacts of a category besides contact c.
Others(c, category) == {d \in Contacts \ {c} : contact[d] = category}

RequestOK(r) ==
    /\ r.op = "vote" => r.choice \in Options
    /\ Poller(r) => r.row \in Polls /\ r.user \in Users
    /\ r.op = "support" => r.row \in Initiatives
    /\ Writer(r) => r.row \in Contacts /\ r.choice \in Categories
    /\ ~Poller(r) => r.closed = FALSE

\* What was checked under a lock stays true as long as it is held.
LockOK(r) ==
    r.pc = "locked" =>
        /\ r.op = "vote" => poll[r.row] = "OPEN"
        /\ r.op = "support" => initiative[r.row].status = "OPEN"
        /\ Writer(r) => Cardinality(Others(r.row, r.choice)) < ContactLimit

\* What was read of a poll.
AnswerOK(r) ==
    /\ r.op = "vote" /\ r.pc \in {"read", "count", "mine", "answered"} =>
         vote[r.row][r.user] = r.choice
    /\ r.op = "vote" /\ r.pc \in {"mine", "answered"} => r.total > 0
    /\ r.op = "vote" /\ r.pc = "answered" => r.mine = r.choice
    /\ Poller(r) /\ r.closed = TRUE =>
         /\ r.pc \in {"count", "mine"} => poll[r.row] = "CLOSED"
         /\ r.pc = "answered" => poll[r.row] = "CLOSED" \/ r.row \in over
         /\ r.pc \in {"mine", "answered"} /\ r.row \notin over =>
              r.total = NumberOfVotes(r.row)

\* One writer of contacts at a time.
OneWriter ==
    \A j, k \in Calls :
        Writer(call[j]) /\ call[j].pc = "locked" /\ Writer(call[k]) /\ call[k].pc = "locked"
            => j = k

CommunityInv ==
    /\ CommunityTypeOK
    /\ \A k \in Calls : RequestOK(call[k]) /\ LockOK(call[k]) /\ AnswerOK(call[k])
    /\ OneWriter
    /\ CategoriesAreLimited

-----------------------------------------------------------------------------
(* Counting.                                                               *)

LEMMA VotesAreCounted ==
    ASSUME NEW p \in Polls
    PROVE  /\ NumberOfVotes(p) \in Nat
           /\ \A u \in Users : vote[p][u] # NoVote => NumberOfVotes(p) > 0
  <1> DEFINE S == {u \in Users : vote[p][u] # NoVote}
  <1>1. IsFiniteSet(S)
    <2>1. S \in SUBSET Users
      OBVIOUS
    <2> HIDE DEF S
    <2> QED
      BY <2>1, FiniteAssumption, FS_Subset
  <1>2. \A u \in Users : vote[p][u] # NoVote => u \in S
    OBVIOUS
  <1>3. NumberOfVotes(p) = Cardinality(S)
    BY DEF NumberOfVotes
  <1> HIDE DEF S
  <1>4. Cardinality(S) \in Nat /\ (Cardinality(S) = 0 <=> S = {})
    BY <1>1, FS_CardinalityType, FS_EmptySet
  <1> QED
    BY <1>2, <1>3, <1>4

\* Contacts of one category, before and after a step.
LEMMA FewerContacts ==
    ASSUME NEW S \in SUBSET Contacts, NEW T \in SUBSET S
    PROVE  Cardinality(S) \in Nat /\ Cardinality(T) \in Nat /\ Cardinality(T) <= Cardinality(S)
  <1>1. IsFiniteSet(S)
    BY FiniteAssumption, FS_Subset
  <1>2. IsFiniteSet(T) /\ Cardinality(T) <= Cardinality(S)
    BY <1>1, FS_Subset
  <1> QED
    BY <1>1, <1>2, FS_CardinalityType

LEMMA OneMoreContact ==
    ASSUME NEW S \in SUBSET Contacts, NEW c, Cardinality(S) < ContactLimit
    PROVE  Cardinality(S \cup {c}) <= ContactLimit
  <1>1. IsFiniteSet(S)
    BY FiniteAssumption, FS_Subset
  <1>2. Cardinality(S) \in Nat
    BY <1>1, FS_CardinalityType
  <1>3. Cardinality(S \cup {c}) = IF c \in S THEN Cardinality(S) ELSE Cardinality(S) + 1
    BY <1>1, FS_AddElement
  <1> QED
    BY <1>2, <1>3, LimitAssumption

-----------------------------------------------------------------------------
(* What a step must keep.                                                  *)

Good(r) == RequestOK(r) /\ LockOK(r) /\ AnswerOK(r)

LEMMA InitCommunity == CommunityInit => CommunityInv
  <1> SUFFICES ASSUME CommunityInit PROVE CommunityInv
    OBVIOUS
  <1>1. CommunityTypeOK
    BY DEF CommunityInit, CommunityTypeOK, Done, Request
  <1>2. \A k \in Calls : RequestOK(call[k]) /\ LockOK(call[k]) /\ AnswerOK(call[k])
    BY DEF CommunityInit, Done, RequestOK, LockOK, AnswerOK, Poller, Writer
  <1>3. OneWriter
    BY DEF CommunityInit, OneWriter, Done, Writer
  <1>4. CategoriesAreLimited
    <2> SUFFICES ASSUME NEW category \in Categories
                 PROVE  Cardinality({c \in Contacts : contact[c] = category}) <= ContactLimit
      BY DEF CategoriesAreLimited
    <2>1. {c \in Contacts : contact[c] = category} = {}
      BY CategoriesAssumption DEF CommunityInit
    <2> QED
      BY <2>1, FS_EmptySet, LimitAssumption
  <1> QED
    BY <1>1, <1>2, <1>3, <1>4 DEF CommunityInv

\* Polls only move on: votes are added until a closure, deadlines pass.
PollsMoveOn ==
    /\ over \subseteq over'
    /\ \A p \in Polls : poll[p] = "CLOSED" => poll'[p] = "CLOSED" /\ vote'[p] = vote[p]
    /\ \A p \in Polls, u \in Users : vote[p][u] # NoVote => vote'[p][u] = vote[p][u]

LEMMA RecordsStayGood ==
    ASSUME PollsMoveOn, NEW x, Good(x), LockOK(x)'
    PROVE  Good(x)'
  <1>1. RequestOK(x)'
    BY DEF Good, RequestOK, Poller, Writer
  <1>2. CASE Poller(x)
    <2>1. x.row \in Polls /\ x.user \in Users /\ (x.op = "vote" => x.choice # NoVote)
      BY <1>2, NoVoteAssumption DEF Good, RequestOK
    <2>2. poll[x.row] = "CLOSED" => NumberOfVotes(x.row)' = NumberOfVotes(x.row)
      BY <2>1 DEF PollsMoveOn, NumberOfVotes
    <2>3. AnswerOK(x)'
      BY <2>1, <2>2 DEF Good, AnswerOK, PollsMoveOn, Poller
    <2> QED
      BY <1>1, <2>3 DEF Good
  <1>3. CASE ~Poller(x)
    BY <1>1, <1>3 DEF Good, AnswerOK, Poller
  <1> QED
    BY <1>2, <1>3

\* The invariant from what holds of each record after the step.
LEMMA FromRecords ==
    ASSUME CommunityTypeOK', CategoriesAreLimited', OneWriter',
           \A j \in Calls : \A x : x = call'[j] => Good(x)'
    PROVE  CommunityInv'
  <1>1. ASSUME NEW j \in Calls
        PROVE  (RequestOK(call[j]) /\ LockOK(call[j]) /\ AnswerOK(call[j]))'
    <2>1. PICK x : x = call'[j]
      OBVIOUS
    <2>2. Good(x)'
      BY <2>1
    <2>3. RequestOK(call[j])'
      BY <2>1, <2>2 DEF Good, RequestOK, Poller, Writer
    <2>4. LockOK(call[j])'
      BY <2>1, <2>2 DEF Good, LockOK, Writer, Others
    <2>5. AnswerOK(call[j])'
      BY <2>1, <2>2 DEF Good, AnswerOK, Poller, NumberOfVotes
    <2> QED
      BY <2>3, <2>4, <2>5
  <1> QED
    BY <1>1 DEF CommunityInv

\* Tables change and no request moves.
LEMMA TableStep ==
    ASSUME CommunityInv, call' = call, PollsMoveOn,
           CommunityTypeOK', CategoriesAreLimited',
           \A j \in Calls : \A x : x = call[j] => LockOK(x)'
    PROVE  CommunityInv'
  <1>1. \A j \in Calls : \A x : x = call'[j] => Good(x)'
    <2> SUFFICES ASSUME NEW j \in Calls, NEW x, x = call[j] PROVE Good(x)'
      OBVIOUS
    <2>1. Good(x)
      BY DEF CommunityInv, Good
    <2> QED
      BY <2>1, RecordsStayGood
  <1>2. OneWriter'
    BY DEF CommunityInv, OneWriter, Writer
  <1> QED
    BY <1>1, <1>2, FromRecords

\* The record of request k is replaced by r.
LEMMA RequestStep ==
    ASSUME CommunityInv, NEW k \in Calls, NEW r \in Request,
           call' = [call EXCEPT ![k] = r], PollsMoveOn,
           CommunityTypeOK', CategoriesAreLimited', Good(r)',
           \A j \in Calls \ {k} : \A x : x = call[j] => LockOK(x)',
           Writer(r) /\ r.pc = "locked" => HouseLock
    PROVE  CommunityInv'
  <1>1. call'[k] = r /\ \A j \in Calls \ {k} : call'[j] = call[j]
    BY DEF CommunityInv, CommunityTypeOK
  <1>2. ASSUME NEW j \in Calls, NEW x, x = call'[j] PROVE Good(x)'
    <2>1. CASE j = k
      BY <1>1, <1>2, <2>1
    <2>2. CASE j # k
      <3>1. x = call[j] /\ Good(x)
        BY <1>1, <1>2, <2>2 DEF CommunityInv, Good
      <3> QED
        BY <2>2, <3>1, RecordsStayGood
    <2> QED
      BY <2>1, <2>2
  <1>3. OneWriter'
    BY <1>1 DEF CommunityInv, OneWriter, Writer, HouseLock
  <1> QED
    BY <1>2, <1>3, FromRecords

\* The same, when the tables stay as they are.
LEMMA RequestMoves ==
    ASSUME CommunityInv, NEW k \in Calls, NEW r \in Request,
           call' = [call EXCEPT ![k] = r], Good(r),
           UNCHANGED <<over, poll, vote, initiative, contact>>,
           Writer(r) /\ r.pc = "locked" => HouseLock
    PROVE  CommunityInv'
  <1>1. PollsMoveOn
    BY DEF PollsMoveOn
  <1>2. CommunityTypeOK'
    BY DEF CommunityInv, CommunityTypeOK
  <1>3. CategoriesAreLimited'
    BY DEF CommunityInv, CategoriesAreLimited
  <1>4. ASSUME NEW x, Good(x) PROVE LockOK(x)'
    BY <1>4 DEF Good, LockOK, Others
  <1>5. Good(r)'
    BY <1>1, <1>4, RecordsStayGood
  <1>6. \A j \in Calls : \A x : x = call[j] => LockOK(x)'
    BY <1>4 DEF CommunityInv, Good
  <1> QED
    BY <1>1, <1>2, <1>3, <1>5, <1>6, RequestStep

-----------------------------------------------------------------------------
(* Polls.                                                                  *)

LEMMA OpeningStep ==
    ASSUME CommunityInv, NEW k \in Calls, NEW p \in Polls, NEW u \in Users
    PROVE  /\ \A o \in Options : BeginVote(k, p, u, o) => CommunityInv'
           /\ BeginGet(k, p, u) => CommunityInv'
  <1>1. ASSUME NEW o \in Options, BeginVote(k, p, u, o) PROVE CommunityInv'
    <2> DEFINE r == [Done EXCEPT !.op = "vote", !.pc = "begun", !.row = p,
                                 !.user = u, !.choice = o]
    <2>1. r \in Request /\ Good(r)
      BY DEF Done, Request, Good, RequestOK, LockOK, AnswerOK, Poller, Writer
    <2>2. call' = [call EXCEPT ![k] = r] /\ UNCHANGED <<over, poll, vote, initiative, contact>>
      BY <1>1 DEF BeginVote, polls, initiatives
    <2>3. r.op = "vote"
      BY DEF Done
    <2> HIDE DEF r
    <2> QED
      BY <2>1, <2>2, <2>3, RequestMoves DEF Writer
  <1>2. ASSUME BeginGet(k, p, u) PROVE CommunityInv'
    <2> DEFINE r == [Done EXCEPT !.op = "get", !.pc = "read", !.row = p, !.user = u]
    <2>1. r \in Request /\ Good(r)
      BY DEF Done, Request, Good, RequestOK, LockOK, AnswerOK, Poller, Writer
    <2>2. call' = [call EXCEPT ![k] = r] /\ UNCHANGED <<over, poll, vote, initiative, contact>>
      BY <1>2 DEF BeginGet, polls, initiatives
    <2>3. r.op = "get"
      BY DEF Done
    <2> HIDE DEF r
    <2> QED
      BY <2>1, <2>2, <2>3, RequestMoves DEF Writer
  <1> QED
    BY <1>1, <1>2

LEMMA LockPollStep ==
    ASSUME CommunityInv, NEW k \in Calls, LockPoll(k)
    PROVE  CommunityInv'
  <1> DEFINE c == call[k]
             r == [c EXCEPT !.pc = "locked"]
  <1>1. c \in Request /\ Good(c) /\ c.op = "vote" /\ poll[c.row] = "OPEN"
    BY DEF CommunityInv, CommunityTypeOK, Good, LockPoll
  <1>2. call' = [call EXCEPT ![k] = r] /\ UNCHANGED <<over, poll, vote, initiative, contact>>
    BY DEF LockPoll, polls, initiatives
  <1> HIDE DEF c
  <1>3. /\ r \in Request /\ r.op = "vote" /\ r.pc = "locked" /\ r.row = c.row
        /\ r.user = c.user /\ r.choice = c.choice /\ r.closed = c.closed
    BY <1>1 DEF Request
  <1> HIDE DEF r
  <1>4. Good(r)
    BY <1>1, <1>3 DEF Good, RequestOK, LockOK, AnswerOK, Poller, Writer
  <1> QED
    BY <1>2, <1>3, <1>4, RequestMoves DEF Writer

LEMMA ReadingStep ==
    ASSUME CommunityInv, NEW k \in Calls, GetPoll(k)
    PROVE  CommunityInv'
  <1> DEFINE c == call[k]
  <1>1. c \in Request /\ Good(c) /\ Poller(c)
    BY DEF CommunityInv, CommunityTypeOK, Good, GetPoll, Poller
  <1>2. UNCHANGED <<over, poll, vote, initiative, contact>>
    BY DEF GetPoll, polls, initiatives
  <1>3. /\ c.row \in Polls /\ c.user \in Users
        /\ c.op = "vote" => c.choice \in Options /\ c.choice # NoVote
    BY <1>1, NoVoteAssumption DEF Good, RequestOK
  <1>4. ASSUME NEW r \in Request, Good(r), Poller(r), call' = [call EXCEPT ![k] = r]
        PROVE  CommunityInv'
    BY <1>2, <1>4, RequestMoves DEF Poller, Writer
  <1>5. CASE c.pc = "read" /\ call' = [call EXCEPT ![k] = ReadStatus(c)]
    <2> DEFINE r == ReadStatus(c)
    <2> HIDE DEF c
    <2>1. /\ r \in Request /\ r.op = c.op /\ r.pc = "count" /\ r.row = c.row
          /\ r.user = c.user /\ r.choice = c.choice /\ r.closed = (poll[c.row] = "CLOSED")
      BY <1>1 DEF ReadStatus, Request
    <2>2. call' = [call EXCEPT ![k] = r]
      BY <1>5
    <2> HIDE DEF r
    <2>3. Good(r)
      BY <1>1, <1>5, <2>1 DEF Good, RequestOK, LockOK, AnswerOK, Poller, Writer
    <2> QED
      BY <1>1, <1>4, <2>1, <2>2, <2>3 DEF Poller
  <1>6. CASE c.pc = "count" /\ call' = [call EXCEPT ![k] = CountVotes(c)]
    <2> DEFINE r == CountVotes(c)
    <2> HIDE DEF c
    <2>0. /\ NumberOfVotes(c.row) \in Nat
          /\ vote[c.row][c.user] # NoVote => NumberOfVotes(c.row) > 0
      BY <1>3, VotesAreCounted
    <2>1. /\ r \in Request /\ r.op = c.op /\ r.pc = "mine" /\ r.row = c.row
          /\ r.user = c.user /\ r.choice = c.choice /\ r.closed = c.closed
          /\ r.total = NumberOfVotes(c.row)
      BY <1>1, <2>0 DEF CountVotes, Request
    <2>2. call' = [call EXCEPT ![k] = r]
      BY <1>6
    <2> HIDE DEF r
    <2>3. Good(r)
      BY <1>1, <1>3, <1>6, <2>0, <2>1 DEF Good, RequestOK, LockOK, AnswerOK, Poller, Writer
    <2> QED
      BY <1>1, <1>4, <2>1, <2>2, <2>3 DEF Poller
  <1>7. CASE c.pc = "mine" /\ call' = [call EXCEPT ![k] = ReadMine(c)]
    <2> DEFINE r == ReadMine(c)
    <2>1. vote[c.row][c.user] \in Options \cup {NoVote}
      BY <1>3 DEF CommunityInv, CommunityTypeOK
    <2> DEFINE m == vote[c.row][c.user]
               b == c.closed \/ c.row \in over
    <2>2. r = [c EXCEPT !.pc = "answered", !.mine = m, !.closed = b]
      BY DEF ReadMine
    <2>3. b \in BOOLEAN
      BY Zenon
    <2>4. c.closed \in BOOLEAN
      BY <1>1 DEF Request
    <2>5. b = TRUE => c.closed = TRUE \/ c.row \in over
      BY <2>4
    <2>6. m \in Options \cup {NoVote}
      BY <2>1
    <2> HIDE DEF c, b, m, r
    <2>7. /\ r \in Request /\ r.op = c.op /\ r.pc = "answered" /\ r.row = c.row
          /\ r.user = c.user /\ r.choice = c.choice
          /\ r.closed = TRUE => c.closed = TRUE \/ c.row \in over
          /\ r.total = c.total /\ r.mine = m
      BY <1>1, <2>2, <2>3, <2>5, <2>6 DEF Request
    <2>8. call' = [call EXCEPT ![k] = r]
      BY <1>7 DEF r
    <2>9. Good(r)
      BY <1>1, <1>3, <1>7, <2>7 DEF m, Good, RequestOK, LockOK, AnswerOK, Poller, Writer
    <2> QED
      BY <1>1, <1>4, <2>7, <2>8, <2>9 DEF Poller
  <1> QED
    BY <1>5, <1>6, <1>7 DEF GetPoll

LEMMA InsertVoteStep ==
    ASSUME CommunityInv, NEW k \in Calls, InsertVote(k)
    PROVE  CommunityInv'
  <1> DEFINE c == call[k]
             r == [c EXCEPT !.pc = "read"]
  <1>1. c \in Request /\ Good(c) /\ c.op = "vote" /\ c.pc = "locked"
    BY DEF CommunityInv, CommunityTypeOK, Good, InsertVote
  <1>2. /\ c.row \in Polls /\ c.user \in Users /\ c.choice \in Options
        /\ poll[c.row] = "OPEN" /\ vote[c.row][c.user] = NoVote
    BY <1>1 DEF Good, RequestOK, LockOK, Poller, InsertVote, FirstVote
  <1>3. /\ call' = [call EXCEPT ![k] = r] /\ UNCHANGED <<over, poll, initiative, contact>>
        /\ vote' = [vote EXCEPT ![c.row][c.user] = c.choice]
    BY <1>2 DEF InsertVote, initiatives
  <1> HIDE DEF c
  <1>4. r \in Request /\ r.op = "vote" /\ r.pc = "read" /\ r.row = c.row /\ r.user = c.user
        /\ r.choice = c.choice /\ r.closed = c.closed
    BY <1>1 DEF Request
  <1>5. CommunityTypeOK'
    BY <1>2, <1>3, <1>4 DEF CommunityInv, CommunityTypeOK
  <1>6. \A p \in Polls, u \in Users :
          vote'[p][u] = IF p = c.row /\ u = c.user THEN c.choice ELSE vote[p][u]
    BY <1>2, <1>3 DEF CommunityInv, CommunityTypeOK
  <1>7. \A p \in Polls : p # c.row => vote'[p] = vote[p]
    BY <1>3 DEF CommunityInv, CommunityTypeOK
  <1>8. PollsMoveOn
    BY <1>2, <1>3, <1>6, <1>7 DEF PollsMoveOn
  <1>9. CategoriesAreLimited'
    BY <1>3 DEF CommunityInv, CategoriesAreLimited
  <1>10. \A j \in Calls \ {k} : \A x : x = call[j] => LockOK(x)'
    BY <1>3 DEF CommunityInv, LockOK, Others
  <1>11. ASSUME NEW x \in Request, x = r PROVE Good(x)'
    <2>1. x.op = "vote" /\ x.pc = "read" /\ x.row = c.row /\ x.user = c.user /\ x.choice = c.choice
      BY <1>4, <1>11
    <2>2. RequestOK(x)' /\ LockOK(x)'
      BY <1>2, <2>1 DEF RequestOK, LockOK, Poller, Writer
    <2>3. vote'[x.row][x.user] = x.choice
      BY <1>2, <1>6, <2>1
    <2>4. AnswerOK(x)'
      BY <2>1, <2>3 DEF AnswerOK, Poller
    <2> QED
      BY <2>2, <2>4 DEF Good
  <1>12. PICK x \in Request : x = r
    BY <1>4
  <1>13. ~Writer(x)
    BY <1>4, <1>12 DEF Writer
  <1> QED
    BY <1>3, <1>5, <1>8, <1>9, <1>10, <1>11, <1>12, <1>13, RequestStep

\* Nobody holds a poll that is closed or new.
LEMMA PollLocksStay ==
    ASSUME CommunityInv, NEW p \in Polls, poll[p] # "OPEN" \/ Free(p),
           \A q \in Polls \ {p} : poll'[q] = poll[q],
           UNCHANGED <<initiative, contact>>
    PROVE  \A j \in Calls : \A x : x = call[j] => LockOK(x)'
  <1> SUFFICES ASSUME NEW j \in Calls, NEW x, x = call[j], x.pc = "locked"
               PROVE  LockOK(x)'
    BY DEF LockOK
  <1>1. RequestOK(x) /\ LockOK(x)
    BY DEF CommunityInv
  <1>2. x.op = "vote" => x.row \in Polls /\ x.row # p
    BY <1>1 DEF RequestOK, LockOK, Poller, Free, Holds
  <1> QED
    BY <1>1, <1>2 DEF LockOK, Others, Writer

LEMMA PollTableStep ==
    ASSUME CommunityInv, NEW p \in Polls
    PROVE  /\ CreatePoll(p) => CommunityInv'
           /\ DeadlinePasses(p) => CommunityInv'
  <1>1. ASSUME CreatePoll(p) PROVE CommunityInv'
    <2>1. /\ poll[p] = "NONE" /\ poll' = [poll EXCEPT ![p] = "OPEN"]
          /\ UNCHANGED <<over, vote, initiative, contact, call>>
      BY <1>1 DEF CreatePoll, initiatives
    <2>2. CommunityTypeOK'
      BY <2>1 DEF CommunityInv, CommunityTypeOK
    <2>3. \A q \in Polls \ {p} : poll'[q] = poll[q]
      BY <2>1 DEF CommunityInv, CommunityTypeOK
    <2>4. PollsMoveOn
      BY <2>1, <2>3 DEF PollsMoveOn
    <2>5. CategoriesAreLimited'
      BY <2>1 DEF CommunityInv, CategoriesAreLimited
    <2>6. \A j \in Calls : \A x : x = call[j] => LockOK(x)'
      BY <2>1, <2>3, PollLocksStay
    <2> QED
      BY <2>1, <2>2, <2>4, <2>5, <2>6, TableStep
  <1>2. ASSUME DeadlinePasses(p) PROVE CommunityInv'
    <2>1. over' = over \cup {p} /\ UNCHANGED <<poll, vote, initiative, contact, call>>
      BY <1>2 DEF DeadlinePasses, polls, initiatives
    <2>2. CommunityTypeOK'
      BY <2>1 DEF CommunityInv, CommunityTypeOK
    <2>3. PollsMoveOn
      BY <2>1 DEF PollsMoveOn
    <2>4. CategoriesAreLimited'
      BY <2>1 DEF CommunityInv, CategoriesAreLimited
    <2>5. \A j \in Calls : \A x : x = call[j] => LockOK(x)'
      BY <2>1 DEF CommunityInv, LockOK, Others
    <2> QED
      BY <2>1, <2>2, <2>3, <2>4, <2>5, TableStep
  <1> QED
    BY <1>1, <1>2

LEMMA ClosePollStep ==
    ASSUME CommunityInv, NEW k \in Calls, NEW p \in Polls, NEW u \in Users, ClosePoll(k, p, u)
    PROVE  CommunityInv'
  <1> DEFINE r == [Done EXCEPT !.op = "close", !.pc = "read", !.row = p, !.user = u]
  <1>1. /\ call' = [call EXCEPT ![k] = r] /\ poll' = [poll EXCEPT ![p] = "CLOSED"] /\ Free(p)
        /\ UNCHANGED <<over, vote, initiative, contact>>
    BY DEF ClosePoll, initiatives
  <1>2. r \in Request /\ r.op = "close" /\ r.pc = "read" /\ r.row = p /\ r.user = u
    BY DEF Done, Request
  <1> HIDE DEF r
  <1>3. CommunityTypeOK'
    BY <1>1, <1>2 DEF CommunityInv, CommunityTypeOK
  <1>4. /\ poll'[p] = "CLOSED"
        /\ \A q \in Polls \ {p} : poll'[q] = poll[q]
    BY <1>1 DEF CommunityInv, CommunityTypeOK
  <1>5. PollsMoveOn
    BY <1>1, <1>4 DEF PollsMoveOn
  <1>6. CategoriesAreLimited'
    BY <1>1 DEF CommunityInv, CategoriesAreLimited
  <1>7. \A j \in Calls : \A x : x = call[j] => LockOK(x)'
    BY <1>1, <1>4, PollLocksStay
  <1>8. PICK x \in Request : x = r
    BY <1>2
  <1>9. Good(x)' /\ ~Writer(x)
    BY <1>2, <1>8 DEF Good, RequestOK, LockOK, AnswerOK, Poller, Writer
  <1> QED
    BY <1>1, <1>3, <1>5, <1>6, <1>7, <1>8, <1>9, RequestStep

-----------------------------------------------------------------------------
(* Initiatives.                                                            *)

LEMMA LockInitiativeStep ==
    ASSUME CommunityInv, NEW k \in Calls, NEW i \in Initiatives, NEW u \in Users,
           LockInitiative(k, i, u)
    PROVE  CommunityInv'
  <1> DEFINE r == [Done EXCEPT !.op = "support", !.pc = "locked", !.row = i, !.user = u]
  <1>1. r \in Request /\ Good(r)
    BY DEF Done, Request, Good, RequestOK, LockOK, AnswerOK, Poller, Writer, LockInitiative
  <1>2. call' = [call EXCEPT ![k] = r] /\ UNCHANGED <<over, poll, vote, initiative, contact>>
    BY DEF LockInitiative, polls, initiatives
  <1>3. r.op = "support"
    BY DEF Done
  <1> HIDE DEF r
  <1> QED
    BY <1>1, <1>2, <1>3, RequestMoves DEF Writer

LEMMA SupportStep ==
    ASSUME CommunityInv, NEW k \in Calls, SupportInitiative(k)
    PROVE  CommunityInv'
  <1> DEFINE c == call[k]
             r == [c EXCEPT !.pc = "count"]
  <1>1. c \in Request /\ Good(c) /\ c.op = "support"
    BY DEF CommunityInv, CommunityTypeOK, Good, SupportInitiative
  <1>2. c.row \in Initiatives
    BY <1>1 DEF Good, RequestOK
  <1>3. /\ call' = [call EXCEPT ![k] = r] /\ UNCHANGED <<over, poll, vote, contact>>
        /\ initiative' = [initiative EXCEPT ![c.row].count = initiative[c.row].count + 1]
    BY DEF SupportInitiative, polls
  <1> HIDE DEF c
  <1>4. /\ r \in Request /\ r.op = "support" /\ r.pc = "count" /\ r.row = c.row
        /\ r.closed = c.closed
    BY <1>1 DEF Request
  <1> HIDE DEF r
  <1>5. \A i \in Initiatives :
          initiative'[i] \in [status : {"NONE", "OPEN", "CLOSED"}, count : Nat]
          /\ initiative'[i].status = initiative[i].status
    BY <1>2, <1>3 DEF CommunityInv, CommunityTypeOK
  <1>6. CommunityTypeOK'
    <2>1. initiative' \in [Initiatives -> [status : {"NONE", "OPEN", "CLOSED"}, count : Nat]]
      <3>1. DOMAIN initiative' = Initiatives /\ initiative' = [i \in Initiatives |-> initiative'[i]]
        BY <1>3 DEF CommunityInv, CommunityTypeOK
      <3> QED
        BY <1>5, <3>1
    <2> QED
      BY <1>3, <1>4, <2>1 DEF CommunityInv, CommunityTypeOK
  <1>7. PollsMoveOn
    BY <1>3 DEF PollsMoveOn
  <1>8. CategoriesAreLimited'
    BY <1>3 DEF CommunityInv, CategoriesAreLimited
  <1>9. \A j \in Calls : \A x : x = call[j] => LockOK(x)'
    BY <1>3, <1>5 DEF CommunityInv, LockOK, RequestOK, Others
  <1>10. PICK x \in Request : x = r
    BY <1>4
  <1>11. Good(x)' /\ ~Writer(x)
    BY <1>1, <1>2, <1>4, <1>10 DEF Good, RequestOK, LockOK, AnswerOK, Poller, Writer
  <1> QED
    BY <1>3, <1>6, <1>7, <1>8, <1>9, <1>10, <1>11, RequestStep

LEMMA GetInitiativeStep ==
    ASSUME CommunityInv, NEW k \in Calls, GetInitiative(k)
    PROVE  CommunityInv'
  <1> DEFINE c == call[k]
             n == initiative[c.row].count
             r == [c EXCEPT !.pc = "answered", !.total = n]
  <1>1. c \in Request /\ Good(c) /\ c.op = "support"
    BY DEF CommunityInv, CommunityTypeOK, Good, GetInitiative
  <1>2. n \in Nat
    BY <1>1 DEF CommunityInv, CommunityTypeOK, Good, RequestOK
  <1>3. call' = [call EXCEPT ![k] = r] /\ UNCHANGED <<over, poll, vote, initiative, contact>>
    BY DEF GetInitiative, polls, initiatives
  <1> HIDE DEF c, n
  <1>4. /\ r \in Request /\ r.op = "support" /\ r.pc = "answered" /\ r.row = c.row
        /\ r.closed = c.closed
    BY <1>1, <1>2 DEF Request
  <1> HIDE DEF r
  <1>5. Good(r) /\ ~Writer(r)
    BY <1>1, <1>4 DEF Good, RequestOK, LockOK, AnswerOK, Poller, Writer
  <1> QED
    BY <1>3, <1>4, <1>5, RequestMoves

LEMMA InitiativeTableStep ==
    ASSUME CommunityInv, NEW i \in Initiatives, CreateInitiative(i) \/ CloseInitiative(i)
    PROVE  CommunityInv'
  <1>1. UNCHANGED <<over, poll, vote, contact, call>>
    BY DEF CreateInitiative, CloseInitiative, polls
  <1>2. /\ \A j \in Initiatives \ {i} : initiative'[j] = initiative[j]
        /\ initiative' \in [Initiatives -> [status : {"NONE", "OPEN", "CLOSED"}, count : Nat]]
        /\ initiative[i].status # "OPEN" \/ Free(i)
    BY DEF CreateInitiative, CloseInitiative, CommunityInv, CommunityTypeOK
  <1>3. CommunityTypeOK'
    BY <1>1, <1>2 DEF CommunityInv, CommunityTypeOK
  <1>4. PollsMoveOn
    BY <1>1 DEF PollsMoveOn
  <1>5. CategoriesAreLimited'
    BY <1>1 DEF CommunityInv, CategoriesAreLimited
  <1>6. ASSUME NEW j \in Calls, NEW x, x = call[j], x.pc = "locked" PROVE LockOK(x)'
    <2>1. RequestOK(x) /\ LockOK(x)
      BY <1>6 DEF CommunityInv
    <2>2. x.op = "support" => x.row \in Initiatives /\ x.row # i
      BY <1>2, <1>6, <2>1 DEF RequestOK, LockOK, Free, Holds
    <2> QED
      BY <1>1, <1>2, <2>1, <2>2 DEF LockOK, Others, Writer
  <1>7. \A j \in Calls : \A x : x = call[j] => LockOK(x)'
    BY <1>6 DEF LockOK
  <1> QED
    BY <1>1, <1>3, <1>4, <1>5, <1>7, TableStep

-----------------------------------------------------------------------------
(* Contacts.                                                               *)

LEMMA CountStep ==
    ASSUME CommunityInv, NEW k \in Calls, NEW c \in Contacts, NEW category \in Categories,
           NEW op \in {"create", "update"}, CountContacts(k, op, c, category)
    PROVE  CommunityInv'
  <1> DEFINE r == [Done EXCEPT !.op = op, !.pc = "locked", !.row = c, !.choice = category]
  <1>1. /\ r \in Request /\ r.op = op /\ r.pc = "locked" /\ r.row = c /\ r.choice = category
        /\ r.closed = FALSE
    BY DEF Done, Request
  <1>2. /\ call' = [call EXCEPT ![k] = r] /\ UNCHANGED <<over, poll, vote, initiative, contact>>
        /\ Cardinality(Others(c, category)) < ContactLimit /\ HouseLock
    BY DEF CountContacts, polls, initiatives, Others
  <1> HIDE DEF r
  <1>3. Good(r)
    BY <1>1, <1>2 DEF Good, RequestOK, LockOK, AnswerOK, Poller, Writer
  <1> QED
    BY <1>1, <1>2, <1>3, RequestMoves

\* Requests that do not write contacts do not see them.
LEMMA ContactLocksStay ==
    ASSUME CommunityInv, NEW j \in Calls, UNCHANGED <<poll, initiative>>,
           Writer(call[j]) /\ call[j].pc = "locked" => FALSE
    PROVE  \A x : x = call[j] => LockOK(x)'
  BY DEF CommunityInv, LockOK, Writer

LEMMA WriteStep ==
    ASSUME CommunityInv, NEW k \in Calls, WriteContact(k)
    PROVE  CommunityInv'
  <1> DEFINE c == call[k]
  <1>1. c \in Request /\ Good(c) /\ Writer(c) /\ c.pc = "locked"
    BY DEF CommunityInv, CommunityTypeOK, Good, WriteContact, Writer
  <1>2. /\ c.row \in Contacts /\ c.choice \in Categories
        /\ Cardinality(Others(c.row, c.choice)) < ContactLimit
    BY <1>1 DEF Good, RequestOK, LockOK
  <1>3. /\ call' = [call EXCEPT ![k] = Done] /\ UNCHANGED <<over, poll, vote, initiative>>
        /\ contact' = [contact EXCEPT ![c.row] = c.choice]
    BY DEF WriteContact, polls, initiatives
  <1>4. Done \in Request /\ Good(Done)' /\ ~Writer(Done)
    BY DEF Done, Request, Good, RequestOK, LockOK, AnswerOK, Poller, Writer
  <1>5. CommunityTypeOK'
    BY <1>2, <1>3, <1>4 DEF CommunityInv, CommunityTypeOK
  <1>6. PollsMoveOn
    BY <1>3 DEF PollsMoveOn
  <1>7. ASSUME NEW j \in Calls \ {k} PROVE \A x : x = call[j] => LockOK(x)'
    BY <1>1, <1>3, <1>7, ContactLocksStay DEF CommunityInv, OneWriter
  <1>8. ASSUME NEW category \in Categories
        PROVE  Cardinality({d \in Contacts : contact'[d] = category}) <= ContactLimit
    <2> DEFINE Old == {d \in Contacts : contact[d] = category}
               New == {d \in Contacts : contact'[d] = category}
               Rest == Others(c.row, c.choice)
    <2>1. \A d \in Contacts : contact'[d] = IF d = c.row THEN c.choice ELSE contact[d]
      BY <1>3 DEF CommunityInv, CommunityTypeOK
    <2>2. Cardinality(Old) <= ContactLimit
      BY DEF CommunityInv, CategoriesAreLimited
    <2>3. CASE category = c.choice
      <3>1. New = Rest \cup {c.row} /\ Rest \in SUBSET Contacts
        BY <1>2, <2>1, <2>3 DEF Others
      <3> HIDE DEF New, Rest
      <3>2. Cardinality(Rest) < ContactLimit
        BY <1>2 DEF Rest
      <3>3. Cardinality(New) <= ContactLimit
        BY <3>1, <3>2, OneMoreContact
      <3> QED
        BY <3>3 DEF New
    <2>4. CASE category # c.choice
      <3>1. New \in SUBSET Old /\ Old \in SUBSET Contacts
        BY <2>1, <2>4
      <3> HIDE DEF New, Old
      <3>2. Cardinality(New) \in Nat /\ Cardinality(Old) \in Nat /\ Cardinality(New) <= Cardinality(Old)
        BY <3>1, FewerContacts
      <3>3. Cardinality(New) <= ContactLimit
        BY <2>2, <3>2, LimitAssumption
      <3> QED
        BY <3>3 DEF New
    <2> QED
      BY <2>3, <2>4
  <1>9. CategoriesAreLimited'
    BY <1>8 DEF CategoriesAreLimited
  <1> QED
    BY <1>3, <1>4, <1>5, <1>6, <1>7, <1>9, RequestStep

LEMMA ArchiveStep ==
    ASSUME CommunityInv, NEW c \in Contacts, ArchiveContact(c)
    PROVE  CommunityInv'
  <1>1. /\ contact' = [contact EXCEPT ![c] = "ARCHIVED"] /\ HouseLock
        /\ UNCHANGED <<over, poll, vote, initiative, call>>
    BY DEF ArchiveContact, polls, initiatives
  <1>2. CommunityTypeOK'
    BY <1>1 DEF CommunityInv, CommunityTypeOK
  <1>3. PollsMoveOn
    BY <1>1 DEF PollsMoveOn
  <1>4. \A j \in Calls : \A x : x = call[j] => LockOK(x)'
    BY <1>1, ContactLocksStay DEF HouseLock, Writer
  <1>5. ASSUME NEW category \in Categories
        PROVE  Cardinality({d \in Contacts : contact'[d] = category}) <= ContactLimit
    <2> DEFINE Old == {d \in Contacts : contact[d] = category}
               New == {d \in Contacts : contact'[d] = category}
    <2>1. New \in SUBSET Old /\ Old \in SUBSET Contacts
      BY <1>1, CategoriesAssumption DEF CommunityInv, CommunityTypeOK
    <2>2. Cardinality(Old) <= ContactLimit
      BY DEF CommunityInv, CategoriesAreLimited
    <2> HIDE DEF New, Old
    <2>3. Cardinality(New) \in Nat /\ Cardinality(Old) \in Nat /\ Cardinality(New) <= Cardinality(Old)
      BY <2>1, FewerContacts
    <2>4. Cardinality(New) <= ContactLimit
      BY <2>2, <2>3, LimitAssumption
    <2> QED
      BY <2>4 DEF New
  <1>6. CategoriesAreLimited'
    BY <1>5 DEF CategoriesAreLimited
  <1> QED
    BY <1>1, <1>2, <1>3, <1>4, <1>6, TableStep

LEMMA ReturnStep ==
    ASSUME CommunityInv, NEW k \in Calls, Return(k)
    PROVE  CommunityInv'
  <1>1. call' = [call EXCEPT ![k] = Done] /\ UNCHANGED <<over, poll, vote, initiative, contact>>
    BY DEF Return, polls, initiatives
  <1>2. Done \in Request /\ Good(Done) /\ ~Writer(Done)
    BY DEF Done, Request, Good, RequestOK, LockOK, AnswerOK, Poller, Writer
  <1> QED
    BY <1>1, <1>2, RequestMoves

-----------------------------------------------------------------------------
LEMMA CommunityInductive ==
    CommunityInv /\ [CommunityNext]_communityVars => CommunityInv'
  <1> SUFFICES ASSUME CommunityInv, [CommunityNext]_communityVars PROVE CommunityInv'
    OBVIOUS
  <1>1. CASE PollNext
    BY <1>1, OpeningStep, LockPollStep, ReadingStep, InsertVoteStep, PollTableStep,
       ClosePollStep DEF PollNext
  <1>2. CASE InitiativeNext
    BY <1>2, LockInitiativeStep, SupportStep, GetInitiativeStep, InitiativeTableStep
       DEF InitiativeNext
  <1>3. CASE ContactNext
    BY <1>3, CountStep, WriteStep, ArchiveStep DEF ContactNext
  <1>4. CASE UNCHANGED communityVars
    <2>1. UNCHANGED <<over, poll, vote, initiative, contact, call>>
      BY <1>4 DEF communityVars, polls, initiatives
    <2>2. CommunityTypeOK'
      BY <2>1 DEF CommunityInv, CommunityTypeOK
    <2>3. PollsMoveOn
      BY <2>1 DEF PollsMoveOn
    <2>4. CategoriesAreLimited'
      BY <2>1 DEF CommunityInv, CategoriesAreLimited
    <2>5. \A j \in Calls : \A x : x = call[j] => LockOK(x)'
      BY <2>1 DEF CommunityInv, LockOK, Others
    <2> QED
      BY <2>1, <2>2, <2>3, <2>4, <2>5, TableStep
  <1>5. CASE \E k \in Calls : Return(k)
    BY <1>5, ReturnStep
  <1> QED
    BY <1>1, <1>2, <1>3, <1>4, <1>5 DEF CommunityNext

\* No category ever has more active contacts than the limit.
THEOREM LimitsHold == CommunitySpec => []CategoriesAreLimited
  <1>1. CommunityInv => CategoriesAreLimited
    BY DEF CommunityInv
  <1> QED
    BY <1>1, InitCommunity, CommunityInductive, PTL DEF CommunitySpec

\* What a call is told of a poll is true when it is told.
THEOREM AnswersAreTrue == CommunitySpec => []PollAnswersAreTrue
  <1>1. ASSUME CommunityInv PROVE PollAnswersAreTrue
    <2> SUFFICES ASSUME NEW k \in Calls, call[k].pc = "answered"
                 PROVE  /\ call[k].op = "vote" =>
                             call[k].mine = call[k].choice /\ call[k].total > 0
                        /\ call[k].closed /\ call[k].row \notin over =>
                             call[k].total = NumberOfVotes(call[k].row)
      BY DEF PollAnswersAreTrue
    <2>1. call[k] \in Request /\ RequestOK(call[k]) /\ AnswerOK(call[k])
      BY <1>1 DEF CommunityInv, CommunityTypeOK
    <2>2. call[k].closed => call[k].closed = TRUE
      BY <2>1 DEF Request
    <2> QED
      BY <2>1, <2>2 DEF RequestOK, AnswerOK, Poller
  <1>2. CommunityInv => PollAnswersAreTrue
    BY <1>1
  <1> QED
    BY <1>2, InitCommunity, CommunityInductive, PTL DEF CommunitySpec

\* A closed poll takes no vote and a closed initiative no support.
THEOREM ClosedIsClosed == CommunitySpec => ClosedTakesNothing
  <1> DEFINE Kept == /\ \A p \in Polls : poll[p] = "CLOSED" => vote'[p] = vote[p]
                     /\ \A i \in Initiatives : initiative[i].status = "CLOSED" =>
                            initiative'[i] = initiative[i]
  <1>1. ASSUME CommunityInv, [CommunityNext]_communityVars PROVE Kept
    <2>1. CASE UNCHANGED <<vote, initiative>>
      BY <2>1
    <2>2. ASSUME NEW k \in Calls, InsertVote(k) PROVE Kept
      <3>1. poll[call[k].row] = "OPEN" /\ call[k].row \in Polls
        BY <1>1, <2>2 DEF CommunityInv, RequestOK, LockOK, Poller, InsertVote
      <3> QED
        BY <1>1, <2>2, <3>1 DEF InsertVote, initiatives, CommunityInv, CommunityTypeOK
    <2>3. ASSUME NEW k \in Calls, SupportInitiative(k) PROVE Kept
      <3>1. initiative[call[k].row].status = "OPEN" /\ call[k].row \in Initiatives
        BY <1>1, <2>3 DEF CommunityInv, RequestOK, LockOK, SupportInitiative
      <3> QED
        BY <1>1, <2>3, <3>1 DEF SupportInitiative, polls, CommunityInv, CommunityTypeOK
    <2>4. ASSUME NEW i \in Initiatives, CreateInitiative(i) \/ CloseInitiative(i) PROVE Kept
      BY <1>1, <2>4 DEF CreateInitiative, CloseInitiative, polls, CommunityInv, CommunityTypeOK
    <2>5. CASE PollNext
      BY <2>1, <2>2, <2>5 DEF PollNext, CreatePoll, DeadlinePasses, LockPoll, GetPoll,
         ClosePoll, BeginGet, BeginVote, polls, initiatives
    <2>6. CASE InitiativeNext
      BY <2>1, <2>3, <2>4, <2>6 DEF InitiativeNext, GetInitiative, LockInitiative, polls,
         initiatives
    <2>7. CASE ContactNext \/ UNCHANGED communityVars \/ \E k \in Calls : Return(k)
      BY <2>1, <2>7 DEF ContactNext, ArchiveContact, WriteContact, CountContacts, Return,
         communityVars, polls, initiatives
    <2> QED
      BY <1>1, <2>5, <2>6, <2>7 DEF CommunityNext
  <1>2. CommunityInv /\ [CommunityNext]_communityVars => [Kept]_communityVars
    BY <1>1
  <1> QED
    BY <1>2, InitCommunity, CommunityInductive, PTL DEF CommunitySpec, ClosedTakesNothing
=============================================================================

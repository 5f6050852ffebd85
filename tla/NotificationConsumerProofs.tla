----------------------- MODULE NotificationConsumerProofs -----------------------
(***************************************************************************)
(* Proofs about the notification consumers, for any number of consumers,   *)
(* entries, events, recipients and faults, and for every size of a page.   *)
(*                                                                         *)
(* Each of the three invariants rests on what a consumer knows between two *)
(* calls: that it has the lock of its event, that nobody else is about to  *)
(* note a message, and that everybody on the pages it has left behind has  *)
(* been reached.                                                           *)
(***************************************************************************)
EXTENDS NotificationConsumer, FiniteSetTheorems, WellFoundedInduction, TLAPS

Pcs == {"wait", "lock", "count", "page", "check", "send", "mark", "ack", "failed", "unlock"}
Runs == [pc : Pcs, entry : Entries \cup {NoEntry}, attempt : 0..MaxAttempts,
         page : SUBSET Recipients, after : Recipients \cup {0}, last : BOOLEAN]

ConsumerTypeOK ==
    /\ stream \in [Entries -> Events \cup {NoEvent}]
    /\ group \in [Entries -> {"none", "new", "pending", "acked"}]
    /\ idle \subseteq Entries /\ dead \subseteq Entries
    /\ batch \in [Consumers -> SUBSET Entries]
    /\ run \in [Consumers -> Runs]
    /\ done \subseteq Events /\ freed \subseteq Events
    /\ lock \in [Events -> Consumers \cup {Nobody}]
    /\ retry \in [Events -> 0..MaxAttempts]
    /\ marked \in [Events -> SUBSET Recipients]
    /\ eligible \subseteq Recipients
    /\ sent \in [Events -> [Recipients -> 0..2]]
    /\ slipped \subseteq Events \X Recipients
    /\ owed \in [Events -> SUBSET Recipients]

\* A page is looked at recipient by recipient; between two pages, and outside
\* deliverRecipients, nothing is left of it.
Shaped(k) ==
    /\ k.pc \in {"check", "send", "mark"} <=> k.page # {}
    /\ k.page = {} => ~k.last
    /\ k.pc \in {"lock", "count"} => k.after = 0

\* Only entries that were published are taken, touched or worked on.
Known == {n \in Entries : stream[n] \in Events}
KnownEntries ==
    /\ \A n \in Entries : group[n] # "none" => n \in Known
    /\ idle \subseteq Known
    /\ \A c \in Consumers : /\ batch[c] \subseteq Known
                            /\ ~At(c, "wait") => run[c].entry \in Known
                            /\ Shaped(run[c])
    /\ \A e \in done : Published(e)

Typed == ConsumerTypeOK /\ KnownEntries

\* Between SETNX and the ack script, or the first error, a consumer has the lock
\* of its event, unless a stranger has deleted it.
Working(c) == run[c].pc \in {"count", "page", "check", "send", "mark", "ack"}
WorkersHaveTheLock ==
    \A c \in Consumers : Working(c) => lock[Event(c)] = c \/ Event(c) \in freed

\* From SETNX to the deferred DEL a consumer has the lock of its event until the
\* event is done: before that no DEL meets the lock of a stranger.
Engaged(c) == run[c].pc \notin {"wait", "lock"}
LockedUntilDone ==
    /\ \A c \in Consumers : Engaged(c) => lock[Event(c)] = c \/ Event(c) \in done
    /\ freed \subseteq done

\* A message about to be noted, or about to be sent.
Current(c) == Least(run[c].page)
Noting(e, r) == \E c \in Consumers : At(c, "mark") /\ Event(c) = e /\ Current(c) = r
Excused(e, r) == <<e, r>> \in slipped \/ e \in freed
OnceUnlessExcused ==
    /\ \A e \in Events, r \in Recipients :
         \/ Excused(e, r)
         \/ sent[e][r] = 0
         \/ sent[e][r] = 1 /\ (r \in marked[e] \/ Noting(e, r))
    /\ \A c \in Consumers : At(c, "send") =>
         Excused(Event(c), Current(c)) \/ sent[Event(c)][Current(c)] = 0

\* What is noted has been sent.
NotedIsSent ==
    /\ \A e \in Events : \A r \in marked[e] : sent[e][r] > 0
    /\ \A c \in Consumers : At(c, "mark") => sent[Event(c)][Current(c)] > 0

\* Everybody owed the message whom the loop has left behind has got it; behind
\* the last page there is nobody, and after the loop everybody has it.
Reached(e) == {r \in Recipients : sent[e][r] > 0}
LeftBehind(k) == {r \in Recipients : r <= k.after /\ r \notin k.page}
Progress(k, O, R) ==
    /\ k.pc \in {"page", "check", "send", "mark"} =>
         /\ O \cap LeftBehind(k) \subseteq R
         /\ k.last => \A r \in O : r <= k.after
    /\ k.pc = "ack" => O \subseteq R
PagesReach ==
    \A c \in Consumers : ~At(c, "wait") =>
        Progress(run[c], owed[Event(c)], Reached(Event(c)))
OwedAreEligible == \A e \in Events : owed[e] \subseteq eligible

ReachInv == NotedIsSent /\ PagesReach /\ OwedAreEligible /\ DoneReachedEverybody
-----------------------------------------------------------------------------
(* Pages.                                                                  *)

LEMMA FewestExists ==
    ASSUME NEW S, S # {}, NEW f, \A x \in S : f[x] \in Nat
    PROVE  \E x \in S : \A y \in S : f[x] <= f[y]
  <1> DEFINE T == {f[x] : x \in S}
  <1>1. T \subseteq Nat /\ T # {}
    OBVIOUS
  <1>2. PICK m \in T : \A n \in T : ~ (<<n, m>> \in OpToRel(<, Nat))
    <2> HIDE DEF T
    <2> QED
      BY <1>1, WFMin, NatLessThanWellFounded
  <1>3. \A n \in T : m <= n
    <2>1. \A n \in T : ~ (n < m)
      BY <1>1, <1>2 DEF OpToRel
    <2> QED
      BY <1>1, <2>1
  <1> QED
    BY <1>3

\* Least is what its name says.
LEMMA LeastIsFirst ==
    ASSUME NEW S \in SUBSET Recipients, S # {}
    PROVE  Least(S) \in S /\ \A q \in S : Least(S) <= q
  <1> DEFINE f == [x \in S |-> x]
  <1>1. \A x \in S : f[x] \in Nat
    BY RecipientsAssumption
  <1>2. \E x \in S : \A y \in S : f[x] <= f[y]
    <2> HIDE DEF f
    <2> QED
      BY <1>1, FewestExists
  <1>3. \E x \in S : \A y \in S : x <= y
    BY <1>2
  <1> QED
    BY <1>3 DEF Least

\* So is Greatest: somebody has the fewest behind him, and that is nobody.
LEMMA GreatestIsLast ==
    ASSUME NEW S \in SUBSET Recipients, S # {}
    PROVE  Greatest(S) \in S /\ \A q \in S : q <= Greatest(S)
  <1> DEFINE B(x) == {y \in S : x < y}
             f == [x \in S |-> Cardinality(B(x))]
  <1>1. IsFiniteSet(S) /\ S \subseteq Nat
    BY RecipientsAssumption, FS_Subset
  <1>2. \A x \in S : IsFiniteSet(B(x)) /\ Cardinality(B(x)) \in Nat
    <2>1. \A x \in S : B(x) \in SUBSET S
      OBVIOUS
    <2> QED
      BY <1>1, <2>1, FS_Subset, FS_CardinalityType
  <1>3. \A x \in S : f[x] = Cardinality(B(x)) /\ f[x] \in Nat
    BY <1>2
  <1>4. PICK x \in S : \A y \in S : f[x] <= f[y]
    <2> HIDE DEF f
    <2> QED
      BY <1>3, FewestExists
  <1>5. ASSUME NEW y \in S, x < y PROVE FALSE
    <2>0. x \in Nat /\ y \in Nat /\ \A q \in S : q \in Nat
      BY <1>1
    <2>1. B(y) \in SUBSET B(x) /\ y \in B(x) /\ y \notin B(y)
      <3>1. ~(y < y) /\ \A q \in S : y < q => x < q
        BY <2>0, <1>5
      <3> QED
        BY <3>1, <1>5
    <2>2. /\ Cardinality(B(y)) <= Cardinality(B(x))
          /\ Cardinality(B(x)) = Cardinality(B(y)) => B(x) = B(y)
      <3> HIDE DEF B
      <3> QED
        BY <1>2, <2>1, FS_Subset
    <2>3. Cardinality(B(y)) < Cardinality(B(x))
      BY <1>2, <2>1, <2>2
    <2> QED
      BY <1>2, <1>3, <1>4, <2>3
  <1>6. \A y \in S : y <= x
    BY <1>1, <1>5
  <1> QED
    BY <1>6 DEF Greatest

\* A page has no gap: whoever comes before one of its users is on it.
LEMMA PageHasNoGap ==
    ASSUME NEW S \in SUBSET Recipients, NEW g \in FirstPage(S), NEW r \in S, r <= g
    PROVE  r \in FirstPage(S)
  <1> DEFINE B(x) == {q \in S : q < x}
  <1>1. IsFiniteSet(S) /\ S \subseteq Nat /\ g \in S
    BY RecipientsAssumption, FS_Subset DEF FirstPage
  <1>2. B(r) \in SUBSET B(g) /\ B(g) \in SUBSET S
    <2>1. r \in Nat /\ g \in Nat /\ \A q \in S : q \in Nat
      BY <1>1
    <2>2. \A q \in S : q < r => q < g
      BY <2>1
    <2> QED
      BY <2>2
  <1>3. IsFiniteSet(B(g)) /\ Cardinality(B(g)) \in Nat
    <2> HIDE DEF B
    <2> QED
      BY <1>1, <1>2, FS_Subset, FS_CardinalityType
  <1>4. Cardinality(B(r)) <= Cardinality(B(g)) /\ Cardinality(B(r)) \in Nat
    <2> HIDE DEF B
    <2> QED
      BY <1>2, <1>3, FS_Subset, FS_CardinalityType
  <1>5. Cardinality(B(g)) < PageSize
    BY DEF FirstPage
  <1>6. Cardinality(B(r)) < PageSize
    BY <1>3, <1>4, <1>5, BoundsAssumption
  <1> QED
    BY <1>6 DEF FirstPage

\* A page that is not full is the last one: it holds everybody there is.
LEMMA LastPageIsAll ==
    ASSUME NEW S \in SUBSET Recipients, IsLast(FirstPage(S))
    PROVE  FirstPage(S) = S
  <1>1. IsFiniteSet(S) /\ S \subseteq Nat /\ FirstPage(S) \in SUBSET S
    BY RecipientsAssumption, FS_Subset DEF FirstPage
  <1>2. SUFFICES ASSUME S \ FirstPage(S) # {} PROVE FALSE
    BY <1>1
  <1> DEFINE r == Least(S \ FirstPage(S))
             B == {q \in S : q < r}
  <1>3. r \in S \ FirstPage(S) /\ \A q \in S \ FirstPage(S) : r <= q
    BY <1>1, <1>2, LeastIsFirst
  <1>4. B \in SUBSET FirstPage(S)
    <2> HIDE DEF r
    <2>1. r \in Nat /\ \A q \in S : q \in Nat
      BY <1>1, <1>3
    <2>2. \A q \in S \ FirstPage(S) : ~(q < r)
      BY <1>3, <2>1
    <2> QED
      BY <2>2
  <1>5. /\ Cardinality(B) <= Cardinality(FirstPage(S))
        /\ Cardinality(B) \in Nat /\ Cardinality(FirstPage(S)) \in Nat
    <2>1. IsFiniteSet(FirstPage(S)) /\ Cardinality(FirstPage(S)) \in Nat
      BY <1>1, FS_Subset, FS_CardinalityType
    <2> HIDE DEF B, r
    <2> QED
      BY <2>1, <1>4, FS_Subset, FS_CardinalityType
  <1>6. Cardinality(B) < PageSize
    BY <1>5, BoundsAssumption DEF IsLast
  <1> QED
    BY <1>3, <1>6 DEF FirstPage

\* A page with nobody on it is not full.
LEMMA EmptyIsLast == IsLast({})
  BY FS_EmptySet, BoundsAssumption DEF IsLast

-----------------------------------------------------------------------------
(* What a consumer is doing.                                               *)

Moved(k, pc) == [k EXCEPT !.pc = pc]
Failed(k) == [k EXCEPT !.pc = "failed", !.page = {}, !.after = 0, !.last = FALSE]
Started(n) == [Waiting EXCEPT !.pc = "lock", !.entry = n]
Counted(k, a) == [k EXCEPT !.pc = "page", !.attempt = a]

LEMMA WaitingFields ==
    /\ Waiting \in Runs /\ Waiting.pc = "wait" /\ Shaped(Waiting)
  BY BoundsAssumption DEF Waiting, Runs, Pcs, Shaped

LEMMA StartedFields ==
    ASSUME NEW n \in Entries
    PROVE  /\ Started(n) \in Runs /\ Shaped(Started(n))
           /\ Started(n).pc = "lock" /\ Started(n).entry = n
  <1>1. Waiting \in Runs /\ Waiting.page = {} /\ Waiting.after = 0 /\ ~Waiting.last
    BY WaitingFields DEF Waiting
  <1>2. /\ Started(n) \in Runs /\ Started(n).pc = "lock" /\ Started(n).entry = n
        /\ Started(n).page = {} /\ Started(n).after = 0 /\ ~Started(n).last
    BY <1>1 DEF Started, Runs, Pcs
  <1> QED
    BY <1>2 DEF Shaped

LEMMA MovedFields ==
    ASSUME NEW k \in Runs, NEW pc \in Pcs
    PROVE  /\ Moved(k, pc) \in Runs /\ Moved(k, pc).pc = pc
           /\ Moved(k, pc).entry = k.entry /\ Moved(k, pc).page = k.page
           /\ Moved(k, pc).after = k.after /\ Moved(k, pc).last = k.last
  BY DEF Moved, Runs

LEMMA FailedFields ==
    ASSUME NEW k \in Runs
    PROVE  /\ Failed(k) \in Runs /\ Shaped(Failed(k))
           /\ Failed(k).pc = "failed" /\ Failed(k).entry = k.entry
  BY DEF Failed, Runs, Pcs, Shaped

LEMMA CountedFields ==
    ASSUME NEW k \in Runs, NEW a \in 0..MaxAttempts
    PROVE  /\ Counted(k, a) \in Runs /\ Counted(k, a).pc = "page"
           /\ Counted(k, a).entry = k.entry /\ Counted(k, a).page = k.page
           /\ Counted(k, a).after = k.after /\ Counted(k, a).last = k.last
  BY DEF Counted, Runs, Pcs

LEMMA FetchedFields ==
    ASSUME NEW k \in Runs, NEW page \in SUBSET Recipients
    PROVE  /\ Fetched(k, page) \in Runs
           /\ Fetched(k, page).entry = k.entry
           /\ Fetched(k, page).after = IF page = {} THEN k.after ELSE Greatest(page)
           /\ Fetched(k, page).last = IsLast(page)
  <1>1. page # {} => Greatest(page) \in Recipients
    BY GreatestIsLast
  <1>2. IsLast(page) \in BOOLEAN
    BY DEF IsLast
  <1> QED
    BY <1>1, <1>2 DEF Fetched, Runs

LEMMA LoopFields ==
    ASSUME NEW k \in Runs, NEW page \in SUBSET Recipients
    PROVE  /\ Loop(k, page) \in Runs /\ Shaped(Loop(k, page))
           /\ Loop(k, page).entry = k.entry /\ Loop(k, page).page = page
           /\ page # {} => /\ Loop(k, page).pc = "check"
                           /\ Loop(k, page).after = k.after
                           /\ Loop(k, page).last = k.last
           /\ page = {} /\ k.last => Loop(k, page).pc = "ack" /\ ~Loop(k, page).last
           /\ page = {} /\ ~k.last => /\ Loop(k, page).pc = "page"
                                      /\ Loop(k, page).after = k.after
                                      /\ ~Loop(k, page).last
  <1> DEFINE pc == IF page # {} THEN "check" ELSE IF k.last THEN "ack" ELSE "page"
             after == IF page = {} /\ k.last THEN 0 ELSE k.after
             last == k.last /\ page # {}
  <1>1. pc \in Pcs /\ after \in Recipients \cup {0} /\ last \in BOOLEAN
    BY DEF Runs, Pcs
  <1>2. Loop(k, page) =
          [k EXCEPT !.page = page, !.pc = pc, !.after = after, !.last = last]
    BY Zenon DEF Loop
  <1>3. Loop(k, page) \in Runs
    <2> HIDE DEF pc, after, last
    <2> QED
      BY <1>1, <1>2 DEF Runs
  <1>4. /\ Loop(k, page).pc = pc /\ Loop(k, page).entry = k.entry
        /\ Loop(k, page).page = page
        /\ Loop(k, page).after = after /\ Loop(k, page).last = last
    <2> HIDE DEF pc, after, last
    <2> QED
      BY <1>2 DEF Runs
  <1>5. k.last \in BOOLEAN
    BY DEF Runs
  <1>6. Shaped(Loop(k, page))
    BY <1>4 DEF Shaped
  <1> QED
    BY <1>3, <1>4, <1>5, <1>6

-----------------------------------------------------------------------------
(* The kinds of steps, as far as messages and locks are concerned.         *)

To(c, k) == run' = [run EXCEPT ![c] = k]
Fits(k) == Shaped(k) /\ (k.pc # "wait" => k.entry \in Known)

Aside ==
    UNCHANGED <<run, stream, lock, marked, done, eligible, sent, slipped, freed, owed>>

Publishes(n, e) ==
    /\ stream[n] = NoEvent /\ stream' = [stream EXCEPT ![n] = e]
    /\ owed' = IF Published(e) THEN owed ELSE [owed EXCEPT ![e] = eligible]
    /\ UNCHANGED <<run, lock, marked, done, eligible, sent, slipped, freed>>

\* c does not work on a message any more, whatever became of the last one.
Stops(c, k) ==
    /\ To(c, k) /\ Fits(k) /\ k.pc \in {"wait", "lock", "failed", "unlock"}
    /\ k.pc \in {"failed", "unlock"} => Engaged(c) /\ k.entry = run[c].entry
    /\ UNCHANGED <<stream, lock, marked, done, eligible, freed, owed>>
    /\ \/ ~At(c, "mark") /\ UNCHANGED <<sent, slipped>>
       \/ At(c, "mark") /\ UNCHANGED sent /\ Slipped(c)
       \/ At(c, "send") /\ Delivered(c) /\ Slipped(c)

Locks(c, k) ==
    /\ At(c, "lock") /\ LockFree(Event(c))
    /\ lock' = [lock EXCEPT ![Event(c)] = c]
    /\ To(c, k) /\ k \in {Moved(run[c], "count"), Waiting}
    /\ UNCHANGED <<stream, marked, done, eligible, sent, slipped, freed, owed>>

Counts(c) ==
    /\ At(c, "count")
    /\ \E a \in 0..MaxAttempts : To(c, Counted(run[c], a))
    /\ UNCHANGED <<stream, lock, marked, done, eligible, sent, slipped, freed, owed>>

NextPage(c) == FirstPage({r \in eligible : r > run[c].after})
Fetches(c) ==
    /\ At(c, "page")
    /\ To(c, Loop(Fetched(run[c], NextPage(c)), NextPage(c)))
    /\ UNCHANGED <<stream, lock, marked, done, eligible, sent, slipped, freed, owed>>

Skips(c) ==
    /\ At(c, "check")
    /\ Current(c) \in marked[Event(c)] \/ Current(c) \notin eligible
    /\ To(c, Loop(run[c], run[c].page \ {Current(c)}))
    /\ UNCHANGED <<stream, lock, marked, done, eligible, sent, slipped, freed, owed>>

Approves(c) ==
    /\ At(c, "check")
    /\ Current(c) \notin marked[Event(c)]
    /\ To(c, Moved(run[c], "send"))
    /\ UNCHANGED <<stream, lock, marked, done, eligible, sent, slipped, freed, owed>>

Sends(c) ==
    /\ At(c, "send")
    /\ Delivered(c)
    /\ To(c, Moved(run[c], "mark"))
    /\ UNCHANGED <<stream, lock, marked, done, eligible, slipped, freed, owed>>

Notes(c) ==
    /\ At(c, "mark")
    /\ marked' = [marked EXCEPT ![Event(c)] = @ \cup {Current(c)}]
    /\ To(c, Loop(run[c], run[c].page \ {Current(c)}))
    /\ UNCHANGED <<stream, lock, done, eligible, sent, slipped, freed, owed>>

Ends(c, k) ==
    /\ At(c, "ack") /\ To(c, k) /\ k \in {Moved(run[c], "unlock"), Failed(run[c])}
    /\ done' = done \cup {Event(c)}
    /\ lock' = [lock EXCEPT ![Event(c)] = Nobody]
    /\ UNCHANGED <<stream, marked, eligible, sent, slipped, freed, owed>>

Unlocks(c) ==
    /\ At(c, "unlock") /\ To(c, Waiting)
    /\ lock' = [lock EXCEPT ![Event(c)] = Nobody]
    /\ freed' = IF lock[Event(c)] \in {c, Nobody} THEN freed ELSE freed \cup {Event(c)}
    /\ UNCHANGED <<stream, marked, done, eligible, sent, slipped, owed>>

Expires(e) ==
    /\ ~(\E c \in Consumers : /\ lock[e] = c /\ run[c].pc \notin {"wait", "lock"}
                              /\ Event(c) = e)
    /\ lock' = [lock EXCEPT ![e] = Nobody]
    /\ UNCHANGED <<run, stream, marked, done, eligible, sent, slipped, freed, owed>>

Changes(S) ==
    /\ eligible' = S /\ owed' = [e \in Events |-> owed[e] \cap S]
    /\ UNCHANGED <<run, stream, lock, marked, done, sent, slipped, freed>>

ConsumerKinds(c) ==
    \/ \E k \in Runs : Stops(c, k) \/ Locks(c, k) \/ Ends(c, k)
    \/ Counts(c) \/ Fetches(c) \/ Skips(c) \/ Approves(c) \/ Sends(c) \/ Notes(c)
    \/ Unlocks(c)
Kinds ==
    \/ Aside
    \/ \E n \in Entries, e \in Events : Publishes(n, e)
    \/ \E c \in Consumers : ConsumerKinds(c)
    \/ \E e \in Events : Expires(e)
    \/ \E S \in SUBSET Recipients : Changes(S)

\* The writes of run.
LEMMA RunWrites ==
    ASSUME NEW c \in Consumers
    PROVE  /\ \A pc : Goto(c, pc) => To(c, Moved(run[c], pc))
           /\ Return(c) => To(c, Waiting)
           /\ Fail(c) => To(c, Failed(run[c]))
  BY Zenon DEF Goto, Return, Fail, To, Moved, Failed

LEMMA AttemptBounds ==
    ASSUME Typed, NEW e \in Events
    PROVE  Attempt(e) \in 0..MaxAttempts
  BY BoundsAssumption DEF Typed, ConsumerTypeOK, Attempt

\* Leaving an entry for the group, giving it up, or going on to the end of it.
LEMMA FitsAlways ==
    ASSUME Typed, NEW c \in Consumers
    PROVE  /\ run[c] \in Runs /\ Shaped(run[c])
           /\ Waiting \in Runs /\ Fits(Waiting)
           /\ ~At(c, "wait") => /\ Failed(run[c]) \in Runs /\ Fits(Failed(run[c]))
                                /\ run[c].entry \in Known /\ Event(c) \in Events
           /\ run[c].pc \in {"count", "ack", "failed"} =>
                /\ Moved(run[c], "unlock") \in Runs /\ Fits(Moved(run[c], "unlock"))
                /\ Moved(run[c], "unlock").pc = "unlock"
                /\ Moved(run[c], "unlock").entry = run[c].entry
  <1>1. run[c] \in Runs /\ Shaped(run[c])
    BY DEF Typed, ConsumerTypeOK, KnownEntries
  <1>2. Waiting \in Runs /\ Fits(Waiting)
    BY WaitingFields DEF Fits
  <1>3. ~At(c, "wait") => run[c].entry \in Known /\ Event(c) \in Events
    BY DEF Typed, KnownEntries, Known, Event
  <1>4. ASSUME ~At(c, "wait")
        PROVE  Failed(run[c]) \in Runs /\ Fits(Failed(run[c]))
    BY <1>1, <1>3, <1>4, FailedFields DEF Fits
  <1>5. ASSUME run[c].pc \in {"count", "ack", "failed"}
        PROVE  /\ Moved(run[c], "unlock") \in Runs /\ Fits(Moved(run[c], "unlock"))
               /\ Moved(run[c], "unlock").pc = "unlock"
               /\ Moved(run[c], "unlock").entry = run[c].entry
    <2>1. "unlock" \in Pcs /\ ~At(c, "wait")
      BY <1>5 DEF Pcs, At
    <2> QED
      BY <1>1, <1>3, <1>5, <2>1, MovedFields DEF Fits, Shaped
  <1> QED
    BY <1>1, <1>2, <1>3, <1>4, <1>5

\* Taking an entry from the batch.
LEMMA TakeKinds ==
    ASSUME Typed, NEW c \in Consumers, NEW n \in Entries,
           RejectMalformed(c, n) \/ AckWithoutMessage(c, n) \/ Begin(c, n)
    PROVE  Kinds
  <1>1. CASE RejectMalformed(c, n)
    BY <1>1 DEF RejectMalformed, history, Kinds, Aside
  <1>2. CASE AckWithoutMessage(c, n)
    BY <1>2 DEF AckWithoutMessage, history, Kinds, Aside
  <1>3. CASE Begin(c, n)
    <2>1. n \in Known
      BY <1>3 DEF Begin, Take, Typed, KnownEntries
    <2>2. Started(n) \in Runs /\ Fits(Started(n)) /\ Started(n).pc = "lock"
      BY <2>1, StartedFields DEF Fits
    <2>3. To(c, Started(n))
      BY <1>3, Zenon DEF Begin, To, Started
    <2>4. ~At(c, "mark")
      BY <1>3 DEF Begin, Take, At
    <2>5. Stops(c, Started(n))
      BY <1>3, <2>2, <2>3, <2>4 DEF Begin, Stops, redis, history
    <2> QED
      BY <2>2, <2>5 DEF Kinds, ConsumerKinds
  <1> QED
    BY <1>1, <1>2, <1>3

LEMMA LockKinds ==
    ASSUME Typed, NEW c \in Consumers, Lock(c) \/ Count(c) \/ Finish(c) \/ Unlock(c)
    PROVE  Kinds
  <1>1. CASE Lock(c)
    <2>1. CASE LockFree(Event(c))
      <3>1. At(c, "lock") /\ lock' = [lock EXCEPT ![Event(c)] = c] /\ Goto(c, "count")
        BY <1>1, <2>1 DEF Lock
      <3>2. To(c, Moved(run[c], "count")) /\ Moved(run[c], "count") \in Runs
        BY <3>1, RunWrites, FitsAlways, MovedFields DEF Pcs
      <3>3. Locks(c, Moved(run[c], "count"))
        BY <1>1, <2>1, <3>1, <3>2 DEF Lock, Locks, history
      <3> QED
        BY <3>2, <3>3 DEF Kinds, ConsumerKinds
    <2>2. CASE ~LockFree(Event(c))
      <3>1. lock' = lock /\ To(c, Waiting) /\ ~At(c, "mark")
        BY <1>1, <2>2, RunWrites DEF Lock, At
      <3>2. Stops(c, Waiting)
        BY <1>1, <3>1, FitsAlways, WaitingFields DEF Lock, Stops, history
      <3> QED
        BY <3>2, WaitingFields DEF Kinds, ConsumerKinds
    <2> QED
      BY <2>1, <2>2
  <1>2. CASE Count(c)
    <2>1. Attempt(Event(c)) \in 0..MaxAttempts
      BY <1>2, FitsAlways, AttemptBounds DEF Count, At
    <2>2. To(c, Counted(run[c], Attempt(Event(c))))
      BY <1>2, Zenon DEF Count, To, Counted
    <2>3. Counts(c)
      BY <1>2, <2>1, <2>2 DEF Count, Counts, history
    <2> QED
      BY <2>3 DEF Kinds, ConsumerKinds
  <1>3. CASE Finish(c)
    <2>1. To(c, Moved(run[c], "unlock")) /\ Moved(run[c], "unlock") \in Runs
      BY <1>3, RunWrites, FitsAlways DEF Finish, At
    <2>2. Ends(c, Moved(run[c], "unlock"))
      BY <1>3, <2>1 DEF Finish, Ends, AckScript, history
    <2> QED
      BY <2>1, <2>2 DEF Kinds, ConsumerKinds
  <1>4. CASE Unlock(c)
    <2>1. Unlocks(c)
      BY <1>4, RunWrites DEF Unlock, Unlocks
    <2> QED
      BY <2>1 DEF Kinds, ConsumerKinds
  <1> QED
    BY <1>1, <1>2, <1>3, <1>4

LEMMA DeliverKinds ==
    ASSUME Typed, NEW c \in Consumers,
           \/ FetchPage(c) \/ CheckRecipient(c) \/ Send(c) \/ Mark(c)
           \/ DeliveryFails(c) \/ GiveUp(c)
    PROVE  Kinds
  <1>1. CASE FetchPage(c)
    <2>1. To(c, Loop(Fetched(run[c], NextPage(c)), NextPage(c)))
      BY <1>1, Zenon DEF FetchPage, To, NextPage
    <2>2. Fetches(c)
      BY <1>1, <2>1 DEF FetchPage, Fetches, redis, history
    <2> QED
      BY <2>2 DEF Kinds, ConsumerKinds
  <1>2. CASE CheckRecipient(c)
    <2>1. CASE Current(c) \in marked[Event(c)] \/ Current(c) \notin eligible
      <3>1. To(c, Loop(run[c], run[c].page \ {Current(c)}))
        BY <1>2, <2>1, Zenon DEF CheckRecipient, To, Current
      <3>2. Skips(c)
        BY <1>2, <2>1, <3>1 DEF CheckRecipient, Skips, redis, history
      <3> QED
        BY <3>2 DEF Kinds, ConsumerKinds
    <2>2. CASE ~(Current(c) \in marked[Event(c)] \/ Current(c) \notin eligible)
      <3>1. To(c, Moved(run[c], "send"))
        BY <1>2, <2>2, Zenon DEF CheckRecipient, To, Current, Moved
      <3>2. Approves(c)
        BY <1>2, <2>2, <3>1 DEF CheckRecipient, Approves, redis, history
      <3> QED
        BY <3>2 DEF Kinds, ConsumerKinds
    <2> QED
      BY <2>1, <2>2
  <1>3. CASE Send(c)
    <2>1. Sends(c)
      BY <1>3, RunWrites DEF Send, Sends, redis
    <2> QED
      BY <2>1 DEF Kinds, ConsumerKinds
  <1>4. CASE Mark(c)
    <2>1. To(c, Loop(run[c], run[c].page \ {Current(c)}))
      BY <1>4, Zenon DEF Mark, To, Current
    <2>2. Notes(c)
      BY <1>4, <2>1 DEF Mark, Notes, Current, history
    <2> QED
      BY <2>2 DEF Kinds, ConsumerKinds
  <1>5. CASE DeliveryFails(c)
    <2>1. ~At(c, "wait") /\ ~At(c, "mark") /\ Engaged(c) /\ To(c, Failed(run[c]))
      BY <1>5, RunWrites DEF DeliveryFails, At, Engaged
    <2>2. /\ Failed(run[c]) \in Runs /\ Fits(Failed(run[c]))
          /\ Failed(run[c]).pc = "failed" /\ Failed(run[c]).entry = run[c].entry
      BY <2>1, FitsAlways, FailedFields
    <2>3. Stops(c, Failed(run[c]))
      BY <1>5, <2>1, <2>2 DEF DeliveryFails, Stops, redis
    <2> QED
      BY <2>2, <2>3 DEF Kinds, ConsumerKinds
  <1>6. CASE GiveUp(c)
    <2>1. /\ To(c, Moved(run[c], "unlock")) /\ ~At(c, "mark") /\ Engaged(c)
          /\ Moved(run[c], "unlock") \in Runs /\ Fits(Moved(run[c], "unlock"))
          /\ Moved(run[c], "unlock").pc = "unlock"
          /\ Moved(run[c], "unlock").entry = run[c].entry
      BY <1>6, RunWrites, FitsAlways DEF GiveUp, At, Engaged
    <2>2. Stops(c, Moved(run[c], "unlock"))
      BY <1>6, <2>1 DEF GiveUp, Stops, history
    <2> QED
      BY <2>1, <2>2 DEF Kinds, ConsumerKinds
  <1> QED
    BY <1>1, <1>2, <1>3, <1>4, <1>5, <1>6

\* A step that is cut off.
LEMMA CutOffKinds ==
    ASSUME Typed, NEW c \in Consumers, CutOff(c), Return(c),
           UNCHANGED <<stream, lock, marked, done, eligible, freed, owed>>
    PROVE  Kinds
  <1>1. To(c, Waiting)
    BY RunWrites
  <1>2. Stops(c, Waiting)
    BY <1>1, FitsAlways, WaitingFields DEF Stops, CutOff, At
  <1> QED
    BY <1>2, WaitingFields DEF Kinds, ConsumerKinds

LEMMA FaultKindsOfSteps ==
    ASSUME Typed, NEW c \in Consumers, RedisFails(c) \/ TimeOut(c) \/ Crash(c)
    PROVE  Kinds
  <1>1. CASE TimeOut(c)
    BY <1>1, CutOffKinds DEF TimeOut, redis
  <1>2. CASE Crash(c)
    BY <1>2, CutOffKinds DEF Crash, redis
  <1>3. CASE RedisFails(c)
    <2> DEFINE rest == UNCHANGED <<stream, marked, eligible, sent, freed, owed>>
    <2>0. UNCHANGED <<eligible, sent, freed, owed>>
      BY <1>3 DEF RedisFails
    <2>1. ASSUME NEW n \in batch[c], Take(c, n), UNCHANGED <<run, redis, slipped>>
          PROVE  Kinds
      BY <2>0, <2>1 DEF Kinds, Aside, redis
    <2>2. ASSUME At(c, "lock"), Return(c), lock' = lock,
                 UNCHANGED <<stream, done, marked, slipped>>
          PROVE  Kinds
      BY <2>0, <2>2, CutOffKinds DEF CutOff, At
    <2>3. ASSUME At(c, "lock"), Return(c), LockFree(Event(c)),
                 lock' = [lock EXCEPT ![Event(c)] = c],
                 UNCHANGED <<stream, done, marked, slipped>>
          PROVE  Kinds
      <3>1. Locks(c, Waiting)
        BY <2>0, <2>3, RunWrites DEF Locks
      <3> QED
        BY <3>1, WaitingFields DEF Kinds, ConsumerKinds
    <2>4. ASSUME run[c].pc \in {"count", "failed"}, Goto(c, "unlock"),
                 UNCHANGED <<redis, batch, slipped>>
          PROVE  Kinds
      <3>1. /\ To(c, Moved(run[c], "unlock")) /\ ~At(c, "mark") /\ Engaged(c)
            /\ Moved(run[c], "unlock") \in Runs /\ Fits(Moved(run[c], "unlock"))
            /\ Moved(run[c], "unlock").pc = "unlock"
            /\ Moved(run[c], "unlock").entry = run[c].entry
        BY <2>4, RunWrites, FitsAlways DEF At, Engaged
      <3>2. Stops(c, Moved(run[c], "unlock"))
        BY <2>0, <2>4, <3>1 DEF Stops, redis
      <3> QED
        BY <3>1, <3>2 DEF Kinds, ConsumerKinds
    <2>5. ASSUME At(c, "mark"), Fail(c), Slipped(c), UNCHANGED <<redis, batch>>
          PROVE  Kinds
      <3>1. /\ To(c, Failed(run[c])) /\ Failed(run[c]) \in Runs /\ Fits(Failed(run[c]))
            /\ Failed(run[c]).pc = "failed" /\ Failed(run[c]).entry = run[c].entry
            /\ Engaged(c)
        BY <2>5, RunWrites, FitsAlways, FailedFields DEF At, Engaged
      <3>2. Stops(c, Failed(run[c]))
        BY <2>0, <2>5, <3>1 DEF Stops, redis
      <3> QED
        BY <3>1, <3>2 DEF Kinds, ConsumerKinds
    <2>6. ASSUME At(c, "ack"), Fail(c), AckScript(c),
                 UNCHANGED <<stream, marked, slipped>>
          PROVE  Kinds
      <3>1. To(c, Failed(run[c])) /\ Failed(run[c]) \in Runs
        BY <2>6, RunWrites, FitsAlways DEF At
      <3>2. Ends(c, Failed(run[c]))
        BY <2>0, <2>6, <3>1 DEF Ends, AckScript
      <3> QED
        BY <3>1, <3>2 DEF Kinds, ConsumerKinds
    <2>7. ASSUME At(c, "ack"), Fail(c), UNCHANGED redis, UNCHANGED slipped
          PROVE  Kinds
      <3>1. /\ To(c, Failed(run[c])) /\ Failed(run[c]) \in Runs /\ Fits(Failed(run[c]))
            /\ Failed(run[c]).pc = "failed" /\ Failed(run[c]).entry = run[c].entry
            /\ ~At(c, "mark") /\ Engaged(c)
        BY <2>7, RunWrites, FitsAlways, FailedFields DEF At, Engaged
      <3>2. Stops(c, Failed(run[c]))
        BY <2>0, <2>7, <3>1 DEF Stops, redis
      <3> QED
        BY <3>1, <3>2 DEF Kinds, ConsumerKinds
    <2>8. ASSUME At(c, "unlock"), Return(c), UNCHANGED <<redis, batch, slipped>>
          PROVE  Kinds
      BY <2>0, <2>8, CutOffKinds DEF CutOff, At, redis
    <2> QED
      BY <1>3, <2>1, <2>2, <2>3, <2>4, <2>5, <2>6, <2>7, <2>8 DEF RedisFails, At
  <1> QED
    BY <1>1, <1>2, <1>3

LEMMA StepKinds == Typed /\ [ConsumerNext]_consumerVars => Kinds
  <1> SUFFICES ASSUME Typed, [ConsumerNext]_consumerVars PROVE Kinds
    OBVIOUS
  <1>1. ASSUME NEW n \in Entries, NEW e \in Events, Publish(n, e) PROVE Kinds
    BY <1>1 DEF Publish, Kinds, Publishes
  <1>2. ASSUME NEW c \in Consumers, Ready(c) \/ Claim(c) \/ Read(c) \/ CallFails(c)
        PROVE  Kinds
    BY <1>2 DEF Ready, Claim, Read, CallFails, redis, history, Kinds, Aside
  <1>3. ASSUME NEW n \in Entries, BecomesIdle(n) PROVE Kinds
    BY <1>3 DEF BecomesIdle, history, Kinds, Aside
  <1>4. ASSUME NEW e \in Events, LockExpires(e) PROVE Kinds
    BY <1>4 DEF LockExpires, history, Kinds, Expires
  <1>5. ASSUME NEW S \in SUBSET Recipients, AccessChanges(S) PROVE Kinds
    BY <1>5 DEF AccessChanges, redis, Kinds, Changes
  <1>6. CASE ReadinessChanges \/ Recover \/ UNCHANGED consumerVars
    BY <1>6 DEF ReadinessChanges, Recover, consumerVars, redis, history, Kinds, Aside
  <1> QED
    BY <1>1, <1>2, <1>3, <1>4, <1>5, <1>6, TakeKinds, LockKinds, DeliverKinds,
       FaultKindsOfSteps DEF ConsumerNext, Process

-----------------------------------------------------------------------------
(* Types, and what is known.                                               *)

LEMMA InitTyped == ConsumerInit => Typed
  <1> SUFFICES ASSUME ConsumerInit PROVE Typed
    OBVIOUS
  <1>1. ConsumerTypeOK
    BY WaitingFields, BoundsAssumption DEF ConsumerInit, ConsumerTypeOK
  <1>2. KnownEntries
    BY WaitingFields DEF ConsumerInit, KnownEntries, At
  <1> QED
    BY <1>1, <1>2 DEF Typed

\* A step changes the record of one consumer at most, and the new one is whole.
Runned(c, k) == To(c, k) /\ k \in Runs /\ Fits(k)
LEMMA KindsRun ==
    ASSUME Typed, Kinds
    PROVE  run' = run \/ \E c \in Consumers, k \in Runs : Runned(c, k)
  <1>1. ASSUME NEW c \in Consumers, ConsumerKinds(c)
        PROVE  \E k \in Runs : Runned(c, k)
    <2>1. /\ run[c] \in Runs /\ Shaped(run[c])
          /\ Waiting \in Runs /\ Fits(Waiting)
      BY FitsAlways
    <2>2. \A page \in SUBSET Recipients : page \ {Current(c)} \in SUBSET Recipients
      OBVIOUS
    <2>3. run[c].page \in SUBSET Recipients
      BY <2>1 DEF Runs
    <2>4. ASSUME NEW k \in Runs, Stops(c, k) PROVE Runned(c, k)
      BY <2>4 DEF Stops, Runned
    <2>5. ASSUME NEW k \in Runs, Locks(c, k) PROVE Runned(c, k)
      <3>1. CASE k = Moved(run[c], "count")
        <4>1. k.pc = "count" /\ k.entry = run[c].entry /\ k.page = run[c].page
              /\ k.after = run[c].after /\ k.last = run[c].last
          BY <2>1, <3>1, MovedFields DEF Pcs
        <4>2. Fits(k)
          BY <2>1, <2>5, <4>1, FitsAlways DEF Fits, Shaped, Locks, At
        <4> QED
          BY <2>5, <4>2 DEF Runned, Locks
      <3>2. CASE k = Waiting
        BY <2>1, <2>5, <3>2 DEF Runned, Locks
      <3> QED
        BY <2>5, <3>1, <3>2 DEF Locks
    <2>6. ASSUME NEW k \in Runs, Ends(c, k) PROVE Runned(c, k)
      BY <2>6, FitsAlways DEF Ends, Runned, At
    <2>7. ASSUME Counts(c) PROVE \E k \in Runs : Runned(c, k)
      <3>1. PICK a \in 0..MaxAttempts : To(c, Counted(run[c], a))
        BY <2>7 DEF Counts
      <3> DEFINE k == Counted(run[c], a)
      <3>2. /\ k \in Runs /\ k.pc = "page" /\ k.entry = run[c].entry
            /\ k.page = run[c].page /\ k.last = run[c].last
        BY <2>1, CountedFields
      <3>3. Fits(k)
        <4> HIDE DEF k
        <4> QED
          BY <2>1, <2>7, <3>2, FitsAlways DEF Fits, Shaped, Counts, At
      <3> QED
        BY <3>1, <3>2, <3>3 DEF Runned
    <2>8. ASSUME Fetches(c) PROVE \E k \in Runs : Runned(c, k)
      <3>1. NextPage(c) \in SUBSET Recipients
        BY DEF NextPage, FirstPage, Typed, ConsumerTypeOK
      <3> DEFINE f == Fetched(run[c], NextPage(c))
                 k == Loop(f, NextPage(c))
      <3>2. f \in Runs /\ f.entry = run[c].entry
        BY <2>1, <3>1, FetchedFields
      <3>3. k \in Runs /\ Shaped(k) /\ k.entry = f.entry
        <4> HIDE DEF f
        <4> QED
          BY <3>1, <3>2, LoopFields
      <3>4. run[c].entry \in Known
        BY <2>8, FitsAlways DEF Fetches, At
      <3>5. To(c, k)
        BY <2>8 DEF Fetches
      <3> HIDE DEF k, f
      <3> QED
        BY <3>2, <3>3, <3>4, <3>5 DEF Fits, Runned
    <2>9. ASSUME Skips(c) \/ Notes(c) PROVE \E k \in Runs : Runned(c, k)
      <3> DEFINE k == Loop(run[c], run[c].page \ {Current(c)})
      <3>1. k \in Runs /\ Shaped(k) /\ k.entry = run[c].entry
        BY <2>1, <2>2, <2>3, LoopFields
      <3>2. run[c].entry \in Known
        BY <2>9, FitsAlways DEF Skips, Notes, At
      <3>3. To(c, k)
        BY <2>9 DEF Skips, Notes
      <3> HIDE DEF k
      <3> QED
        BY <3>1, <3>2, <3>3 DEF Fits, Runned
    <2>10. ASSUME NEW pc \in {"send", "mark"}, To(c, Moved(run[c], pc)),
                  run[c].pc \in {"check", "send"}
           PROVE \E k \in Runs : Runned(c, k)
      <3> DEFINE k == Moved(run[c], pc)
      <3>1. /\ k \in Runs /\ k.pc = pc /\ k.entry = run[c].entry
            /\ k.page = run[c].page /\ k.last = run[c].last
        BY <2>1, MovedFields DEF Pcs
      <3>2. Fits(k)
        <4> HIDE DEF k
        <4> QED
          BY <2>1, <2>10, <3>1, FitsAlways DEF Fits, Shaped, At
      <3> QED
        BY <2>10, <3>1, <3>2 DEF Runned
    <2>11. ASSUME Approves(c) \/ Sends(c) PROVE \E k \in Runs : Runned(c, k)
      BY <2>10, <2>11 DEF Approves, Sends, At
    <2>12. ASSUME Unlocks(c) PROVE \E k \in Runs : Runned(c, k)
      BY <2>1, <2>12 DEF Unlocks, Runned
    <2> QED
      BY <1>1, <2>4, <2>5, <2>6, <2>7, <2>8, <2>9, <2>11, <2>12 DEF ConsumerKinds
  <1> QED
    BY <1>1 DEF Kinds, Aside, Publishes, Expires, Changes

\* The rest of the types.
MessagesTypeOK ==
    /\ stream \in [Entries -> Events \cup {NoEvent}]
    /\ done \subseteq Events /\ freed \subseteq Events
    /\ lock \in [Events -> Consumers \cup {Nobody}]
    /\ marked \in [Events -> SUBSET Recipients]
    /\ eligible \subseteq Recipients
    /\ sent \in [Events -> [Recipients -> 0..2]]
    /\ slipped \subseteq Events \X Recipients
    /\ owed \in [Events -> SUBSET Recipients]

LEMMA CurrentIsOnPage ==
    ASSUME Typed, NEW c \in Consumers, run[c].pc \in {"check", "send", "mark"}
    PROVE  /\ Current(c) \in run[c].page /\ Current(c) \in Recipients
           /\ Event(c) \in Events /\ run[c].page \in SUBSET Recipients
  <1>1. run[c].page \in SUBSET Recipients /\ run[c].page # {}
    BY DEF Typed, ConsumerTypeOK, KnownEntries, Shaped, Runs
  <1>2. Event(c) \in Events
    BY FitsAlways DEF At
  <1> QED
    BY <1>1, <1>2, LeastIsFirst DEF Current

LEMMA DeliveredType ==
    ASSUME Typed, NEW c \in Consumers, At(c, "send"), Delivered(c)
    PROVE  sent' \in [Events -> [Recipients -> 0..2]]
  <1>1. Event(c) \in Events /\ Current(c) \in Recipients
    BY CurrentIsOnPage DEF At
  <1> DEFINE n == sent[Event(c)][Current(c)]
  <1>2. (IF n < 2 THEN n + 1 ELSE n) \in 0..2
    BY <1>1 DEF Typed, ConsumerTypeOK
  <1> QED
    BY <1>1, <1>2 DEF Delivered, Current, Typed, ConsumerTypeOK

LEMMA KindsTypes ==
    ASSUME Typed, Kinds
    PROVE  MessagesTypeOK' /\ Known \subseteq Known' /\ \A e \in done' : Published(e)'
  <1>0. MessagesTypeOK /\ \A e \in done : Published(e)
    BY DEF Typed, ConsumerTypeOK, KnownEntries, MessagesTypeOK
  <1>1. CASE Aside
    BY <1>0, <1>1 DEF Aside, MessagesTypeOK, Known, Published
  <1>2. ASSUME NEW n \in Entries, NEW e \in Events, Publishes(n, e)
        PROVE  MessagesTypeOK' /\ Known \subseteq Known' /\ \A f \in done' : Published(f)'
    <2>1. MessagesTypeOK'
      BY <1>0, <1>2 DEF Publishes, MessagesTypeOK
    <2>2. \A m \in Entries : stream[m] \in Events => stream'[m] = stream[m]
      BY <1>0, <1>2, NullsAssumption DEF Publishes, MessagesTypeOK
    <2>3. \A f \in done : \E m \in Entries : stream[m] = f /\ f \in Events
      BY <1>0 DEF Published, MessagesTypeOK
    <2>4. \A f \in done : \E m \in Entries : stream'[m] = f
      BY <2>2, <2>3
    <2>5. done' = done
      BY <1>2 DEF Publishes
    <2> QED
      BY <2>1, <2>2, <2>4, <2>5 DEF Known, Published
  <1>3. ASSUME NEW c \in Consumers, ConsumerKinds(c)
        PROVE  MessagesTypeOK' /\ Known \subseteq Known' /\ \A e \in done' : Published(e)'
    <2>0. stream' = stream /\ owed' = owed /\ eligible' = eligible
      BY <1>3 DEF ConsumerKinds, Stops, Locks, Ends, Counts, Fetches, Skips, Approves,
                  Sends, Notes, Unlocks
    <2>1. Known \subseteq Known' /\ \A e \in done : Published(e)'
      BY <1>0, <2>0 DEF Known, Published
    <2>2. ASSUME NEW k \in Runs, Stops(c, k) PROVE MessagesTypeOK' /\ done' = done
      <3>1. CASE ~At(c, "mark") /\ UNCHANGED <<sent, slipped>>
        BY <1>0, <2>2, <3>1 DEF Stops, MessagesTypeOK
      <3>2. CASE At(c, "mark") /\ UNCHANGED sent /\ Slipped(c)
        BY <1>0, <2>2, <3>2, CurrentIsOnPage
           DEF Stops, MessagesTypeOK, Slipped, Current, At
      <3>3. CASE At(c, "send") /\ Delivered(c) /\ Slipped(c)
        BY <1>0, <2>2, <3>3, CurrentIsOnPage, DeliveredType
           DEF Stops, MessagesTypeOK, Slipped, Current, At
      <3> QED
        BY <2>2, <3>1, <3>2, <3>3 DEF Stops
    <2>3. ASSUME NEW k \in Runs, Locks(c, k) PROVE MessagesTypeOK' /\ done' = done
      BY <1>0, <2>3 DEF Locks, MessagesTypeOK
    <2>4. ASSUME NEW k \in Runs, Ends(c, k)
          PROVE  /\ MessagesTypeOK' /\ done' = done \cup {Event(c)}
                 /\ \E n \in Entries : stream'[n] = Event(c)
      <3>1. Event(c) \in Events /\ run[c].entry \in Entries
        BY <2>4, FitsAlways DEF Ends, At, Known
      <3>2. \E n \in Entries : stream'[n] = Event(c)
        BY <2>0, <3>1 DEF Event
      <3> QED
        BY <1>0, <2>4, <3>1, <3>2 DEF Ends, MessagesTypeOK
    <2>5. CASE Counts(c) \/ Fetches(c) \/ Skips(c) \/ Approves(c)
      BY <1>0, <2>1, <2>5 DEF Counts, Fetches, Skips, Approves, MessagesTypeOK
    <2>6. CASE Sends(c)
      BY <1>0, <2>1, <2>6, DeliveredType DEF Sends, MessagesTypeOK
    <2>7. CASE Notes(c)
      <3>1. Event(c) \in Events /\ Current(c) \in Recipients
        BY <2>7, CurrentIsOnPage DEF Notes, At
      <3> QED
        BY <1>0, <2>1, <2>7, <3>1 DEF Notes, MessagesTypeOK
    <2>8. CASE Unlocks(c)
      <3>1. Event(c) \in Events
        BY <2>8, FitsAlways DEF Unlocks, At
      <3> QED
        BY <1>0, <2>1, <2>8, <3>1 DEF Unlocks, MessagesTypeOK
    <2>9. ASSUME MessagesTypeOK', done' = done
          PROVE  MessagesTypeOK' /\ Known \subseteq Known' /\ \A e \in done' : Published(e)'
      BY <2>1, <2>9
    <2>10. ASSUME NEW k \in Runs, Ends(c, k)
           PROVE  MessagesTypeOK' /\ Known \subseteq Known' /\ \A e \in done' : Published(e)'
      BY <2>1, <2>4, <2>10 DEF Published
    <2> QED
      BY <1>3, <2>2, <2>3, <2>5, <2>6, <2>7, <2>8, <2>9, <2>10 DEF ConsumerKinds
  <1>4. ASSUME NEW e \in Events, Expires(e)
        PROVE  MessagesTypeOK' /\ Known \subseteq Known' /\ \A f \in done' : Published(f)'
    BY <1>0, <1>4 DEF Expires, MessagesTypeOK, Known, Published
  <1>5. ASSUME NEW S \in SUBSET Recipients, Changes(S)
        PROVE  MessagesTypeOK' /\ Known \subseteq Known' /\ \A e \in done' : Published(e)'
    BY <1>0, <1>5 DEF Changes, MessagesTypeOK, Known, Published
  <1> QED
    BY <1>1, <1>2, <1>3, <1>4, <1>5 DEF Kinds

\* The group: what is pending or taken was published, and what is acknowledged
\* is done with.
GroupTypeOK ==
    /\ group \in [Entries -> {"none", "new", "pending", "acked"}]
    /\ idle \subseteq Entries /\ dead \subseteq Entries
    /\ batch \in [Consumers -> SUBSET Entries]
    /\ retry \in [Events -> 0..MaxAttempts]
GroupStep ==
    /\ GroupTypeOK'
    /\ \A n \in Entries : group'[n] # "none" => n \in Known'
    /\ idle' \subseteq Known /\ \A c \in Consumers : batch'[c] \subseteq Known
    /\ AckedIsSettled'

SettledInv == Typed /\ AckedIsSettled

LEMMA SettledNow ==
    ASSUME SettledInv
    PROVE  /\ GroupTypeOK /\ AckedIsSettled
           /\ \A n \in Entries : group[n] # "none" => n \in Known
           /\ idle \subseteq Known /\ \A c \in Consumers : batch[c] \subseteq Known
           /\ Known \subseteq Entries
  BY DEF SettledInv, Typed, ConsumerTypeOK, KnownEntries, GroupTypeOK, Known

\* Nothing about the group changes.
LEMMA GroupKept ==
    ASSUME SettledInv, UNCHANGED <<stream, group, idle, batch, dead, retry>>,
           done \subseteq done'
    PROVE  GroupStep
  BY SettledNow DEF GroupStep, GroupTypeOK, Known, AckedIsSettled, Important

\* An entry is acknowledged that is done, quiet or dead.
LEMMA GroupAcked ==
    ASSUME SettledInv, NEW n \in Known, Ack(n), stream' = stream,
           batch' \in [Consumers -> SUBSET Entries],
           \A c \in Consumers : batch'[c] \subseteq batch[c],
           dead' \in SUBSET Entries, dead \subseteq dead', done \subseteq done',
           retry' \in [Events -> 0..MaxAttempts],
           Important(n) => stream[n] \in done' \/ n \in dead'
    PROVE  GroupStep
  <1>1. GroupTypeOK'
    BY SettledNow DEF GroupTypeOK, Ack
  <1>2. Known' = Known /\ \A m \in Entries : group'[m] # "none" => m \in Known
    BY SettledNow DEF GroupTypeOK, Ack, Known
  <1>3. idle' \subseteq Known
    BY SettledNow DEF Ack
  <1>4. AckedIsSettled'
    <2>1. SUFFICES ASSUME NEW m \in Entries, group'[m] = "acked", Important(m)
                   PROVE  stream[m] \in done' \/ m \in dead'
      BY DEF AckedIsSettled, Important
    <2>2. CASE m = n
      BY <2>1, <2>2
    <2>3. CASE m # n
      <3>1. group[m] = "acked"
        BY <2>1, <2>3, SettledNow DEF Ack, GroupTypeOK
      <3> QED
        BY <2>1, <3>1, SettledNow DEF AckedIsSettled
    <2> QED
      BY <2>2, <2>3
  <1> QED
    BY <1>1, <1>2, <1>3, <1>4, SettledNow DEF GroupStep

LEMMA GroupTaken ==
    ASSUME SettledInv, NEW c \in Consumers, NEW n \in Entries,
           RejectMalformed(c, n) \/ AckWithoutMessage(c, n) \/ Begin(c, n)
    PROVE  GroupStep
  <1>0. Take(c, n)
    BY DEF RejectMalformed, AckWithoutMessage, Begin
  <1>1. /\ n \in Known /\ batch' \in [Consumers -> SUBSET Entries]
        /\ \A d \in Consumers : batch'[d] \subseteq batch[d]
    BY <1>0, SettledNow DEF Take, GroupTypeOK
  <1>2. CASE RejectMalformed(c, n)
    <2>1. /\ Ack(n) /\ stream' = stream /\ dead' = dead \cup {n} /\ retry' = retry /\ done' = done
      BY <1>2 DEF RejectMalformed
    <2>2. dead' \in SUBSET Entries /\ retry' \in [Events -> 0..MaxAttempts]
      BY <2>1, SettledNow DEF GroupTypeOK
    <2> QED
      BY <1>1, <2>1, <2>2, GroupAcked
  <1>3. CASE AckWithoutMessage(c, n)
    <2>1. /\ Ack(n) /\ stream' = stream /\ dead' = dead /\ retry' = retry /\ done' = done
          /\ stream[n] \in Quiet \cup done
      BY <1>3 DEF AckWithoutMessage
    <2>2. dead' \in SUBSET Entries /\ retry' \in [Events -> 0..MaxAttempts]
      BY <2>1, SettledNow DEF GroupTypeOK
    <2>3. Important(n) => stream[n] \in done'
      BY <2>1 DEF Important
    <2> QED
      BY <1>1, <2>1, <2>2, <2>3, GroupAcked
  <1>4. CASE Begin(c, n)
    <2>1. UNCHANGED <<stream, group, idle, dead, retry, done>>
      BY <1>4 DEF Begin, redis
    <2> QED
      BY <1>1, <2>1, SettledNow
         DEF GroupStep, GroupTypeOK, Known, AckedIsSettled, Important
  <1> QED
    BY <1>2, <1>3, <1>4

\* The ack script, whether or not its answer arrives.
LEMMA GroupScript ==
    ASSUME SettledInv, NEW c \in Consumers, At(c, "ack"), AckScript(c),
           UNCHANGED <<stream, batch, dead>>
    PROVE  GroupStep
  <1>1. run[c].entry \in Known /\ Event(c) \in Events
    BY FitsAlways DEF SettledInv, At
  <1>2. Ack(run[c].entry) /\ done' = done \cup {Event(c)}
    BY DEF AckScript
  <1>3. retry' \in [Events -> 0..MaxAttempts]
    BY <1>1, SettledNow, BoundsAssumption DEF AckScript, GroupTypeOK
  <1>4. stream[run[c].entry] \in done'
    BY <1>2 DEF Event
  <1>5. /\ batch' \in [Consumers -> SUBSET Entries]
        /\ \A d \in Consumers : batch'[d] \subseteq batch[d]
        /\ dead' \in SUBSET Entries
    BY SettledNow DEF GroupTypeOK
  <1> QED
    BY <1>1, <1>2, <1>3, <1>4, <1>5, GroupAcked

LEMMA GroupProcess ==
    ASSUME SettledInv, NEW c \in Consumers,
           \/ Lock(c) \/ Count(c) \/ FetchPage(c) \/ CheckRecipient(c) \/ Send(c)
           \/ Mark(c) \/ Finish(c) \/ GiveUp(c) \/ Unlock(c) \/ DeliveryFails(c)
    PROVE  GroupStep
  <1>1. CASE Finish(c)
    BY <1>1, GroupScript DEF Finish
  <1>2. CASE GiveUp(c)
    <2>1. run[c].entry \in Known
      BY <1>2, FitsAlways DEF GiveUp, SettledInv, At
    <2>2. CASE run[c].attempt >= MaxAttempts
      <3>1. /\ dead' = dead \cup {run[c].entry} /\ Ack(run[c].entry)
            /\ stream' = stream /\ batch' = batch /\ done' = done /\ retry' = retry
        BY <1>2, <2>2 DEF GiveUp, DeadLetterOf
      <3>2. /\ batch' \in [Consumers -> SUBSET Entries]
            /\ \A d \in Consumers : batch'[d] \subseteq batch[d]
            /\ dead' \in SUBSET Entries /\ dead \subseteq dead' /\ run[c].entry \in dead'
            /\ retry' \in [Events -> 0..MaxAttempts]
        BY <2>1, <3>1, SettledNow DEF GroupTypeOK
      <3> QED
        BY <2>1, <3>1, <3>2, GroupAcked
    <2>3. CASE ~(run[c].attempt >= MaxAttempts)
      BY <1>2, <2>3, GroupKept DEF GiveUp
    <2> QED
      BY <2>2, <2>3
  <1>3. CASE Count(c)
    <2>1. Attempt(Event(c)) \in 0..MaxAttempts /\ Event(c) \in Events
      BY <1>3, FitsAlways, AttemptBounds DEF Count, SettledInv, At
    <2>2. UNCHANGED <<stream, group, idle, batch, dead, done>>
      BY <1>3 DEF Count
    <2>3. retry' \in [Events -> 0..MaxAttempts]
      BY <1>3, <2>1, SettledNow DEF Count, GroupTypeOK
    <2> QED
      BY <2>2, <2>3, SettledNow
         DEF GroupStep, GroupTypeOK, Known, AckedIsSettled, Important
  <1>4. CASE Lock(c) \/ FetchPage(c) \/ CheckRecipient(c) \/ Send(c)
    BY <1>4, GroupKept DEF Lock, FetchPage, CheckRecipient, Send, redis
  <1>5. CASE Mark(c) \/ Unlock(c) \/ DeliveryFails(c)
    BY <1>5, GroupKept DEF Mark, Unlock, DeliveryFails, redis
  <1> QED
    BY <1>1, <1>2, <1>3, <1>4, <1>5

LEMMA GroupFaults ==
    ASSUME SettledInv, NEW c \in Consumers, RedisFails(c) \/ TimeOut(c) \/ Crash(c)
    PROVE  GroupStep
  <1>1. CASE TimeOut(c)
    BY <1>1, GroupKept DEF TimeOut, redis
  <1>2. ASSUME UNCHANGED <<stream, group, idle, dead, retry, done>>,
               batch' \in [Consumers -> SUBSET Entries],
               \A d \in Consumers : batch'[d] \subseteq batch[d]
        PROVE  GroupStep
    BY <1>2, SettledNow DEF GroupStep, GroupTypeOK, Known, AckedIsSettled, Important
  <1>3. CASE Crash(c)
    <2>1. /\ batch' \in [Consumers -> SUBSET Entries]
          /\ \A d \in Consumers : batch'[d] \subseteq batch[d]
      BY <1>3, SettledNow DEF Crash, GroupTypeOK
    <2> QED
      BY <1>2, <1>3, <2>1 DEF Crash, redis
  <1>4. CASE RedisFails(c)
    <2>1. ASSUME NEW n \in batch[c], Take(c, n), UNCHANGED <<run, redis, slipped>>
          PROVE  GroupStep
      <3>1. /\ batch' \in [Consumers -> SUBSET Entries]
            /\ \A d \in Consumers : batch'[d] \subseteq batch[d]
        BY <2>1, SettledNow DEF Take, GroupTypeOK
      <3> QED
        BY <1>2, <2>1, <3>1 DEF redis
    <2>2. ASSUME At(c, "ack"), AckScript(c), UNCHANGED <<stream, batch, dead>>
          PROVE  GroupStep
      BY <2>2, GroupScript
    <2>3. ASSUME UNCHANGED <<stream, group, idle, batch, dead, retry, done>>
          PROVE  GroupStep
      BY <2>3, GroupKept
    <2> QED
      BY <1>4, <2>1, <2>2, <2>3 DEF RedisFails, redis
  <1> QED
    BY <1>1, <1>3, <1>4

LEMMA GroupSteps == SettledInv /\ [ConsumerNext]_consumerVars => GroupStep
  <1> SUFFICES ASSUME SettledInv, [ConsumerNext]_consumerVars PROVE GroupStep
    OBVIOUS
  <1>1. ASSUME NEW n \in Entries, NEW e \in Events, Publish(n, e) PROVE GroupStep
    <2>1. /\ \A m \in Known : stream'[m] \in Events
          /\ stream'[n] = e /\ \A m \in Entries \ {n} : stream'[m] = stream[m]
          /\ group'[n] = "new" /\ \A m \in Entries \ {n} : group'[m] = group[m]
      BY <1>1, SettledNow, NullsAssumption
         DEF Publish, SettledInv, Typed, ConsumerTypeOK, Known, GroupTypeOK
    <2>2. UNCHANGED <<idle, batch, dead, retry, done>>
      BY <1>1 DEF Publish
    <2>3. GroupTypeOK'
      BY <1>1, <2>2, SettledNow DEF Publish, GroupTypeOK
    <2>4. \A m \in Entries : group'[m] # "none" => m \in Known'
      BY <2>1, SettledNow DEF Known
    <2>5. AckedIsSettled'
      BY <2>1, <2>2, SettledNow DEF AckedIsSettled, Important
    <2> QED
      BY <2>2, <2>3, <2>4, <2>5, SettledNow DEF GroupStep
  <1>2. ASSUME NEW c \in Consumers, Read(c) PROVE GroupStep
    <2>1. New \subseteq Known /\ UNCHANGED <<stream, idle, dead, retry, done>>
      BY <1>2, SettledNow DEF Read, New, GroupTypeOK
    <2>2. \A m \in Entries : group'[m] = IF m \in New THEN "pending" ELSE group[m]
      BY <1>2 DEF Read
    <2>3. GroupTypeOK'
      BY <1>2, <2>1, SettledNow DEF Read, GroupTypeOK, New
    <2>4. \A d \in Consumers : batch'[d] \subseteq Known
      BY <1>2, <2>1, SettledNow DEF Read, GroupTypeOK
    <2>5. AckedIsSettled'
      BY <2>1, <2>2, SettledNow DEF AckedIsSettled, Important
    <2> QED
      BY <2>1, <2>2, <2>3, <2>4, <2>5, SettledNow DEF GroupStep, Known
  <1>3. ASSUME NEW c \in Consumers, Claim(c) PROVE GroupStep
    <2>1. UNCHANGED <<stream, group, dead, retry, done>> /\ idle' = {}
      BY <1>3 DEF Claim
    <2>2. /\ batch' \in [Consumers -> SUBSET Entries]
          /\ \A d \in Consumers : batch'[d] \subseteq Known
      BY <1>3, SettledNow DEF Claim, GroupTypeOK
    <2> QED
      BY <2>1, <2>2, SettledNow
         DEF GroupStep, GroupTypeOK, Known, AckedIsSettled, Important
  <1>4. ASSUME NEW n \in Entries, BecomesIdle(n) PROVE GroupStep
    BY <1>4, SettledNow
       DEF BecomesIdle, history, GroupStep, GroupTypeOK, Known, AckedIsSettled, Important
  <1>5. ASSUME NEW e \in Events, LockExpires(e) PROVE GroupStep
    BY <1>5, GroupKept DEF LockExpires
  <1>6. ASSUME NEW S \in SUBSET Recipients, AccessChanges(S) PROVE GroupStep
    BY <1>6, GroupKept DEF AccessChanges, redis
  <1>7. CASE ReadinessChanges \/ Recover \/ UNCHANGED consumerVars
    BY <1>7, GroupKept DEF ReadinessChanges, Recover, consumerVars, redis
  <1>8. ASSUME NEW c \in Consumers, Ready(c) \/ CallFails(c) PROVE GroupStep
    BY <1>8, GroupKept DEF Ready, CallFails, redis
  <1> QED
    BY <1>1, <1>2, <1>3, <1>4, <1>5, <1>6, <1>7, <1>8, GroupTaken, GroupProcess, GroupFaults
       DEF ConsumerNext, Process

LEMMA SettledInductive == SettledInv /\ [ConsumerNext]_consumerVars => SettledInv'
  <1> SUFFICES ASSUME SettledInv, [ConsumerNext]_consumerVars PROVE SettledInv'
    OBVIOUS
  <1>1. Kinds /\ Typed
    BY StepKinds DEF SettledInv
  <1>2. /\ MessagesTypeOK' /\ Known \subseteq Known'
        /\ \A e \in done' : Published(e)'
    BY <1>1, KindsTypes
  <1>3. GroupStep
    BY GroupSteps
  <1>4. /\ run' \in [Consumers -> Runs]
        /\ \A c \in Consumers : /\ Shaped(run'[c])
                                /\ run'[c].pc # "wait" => run'[c].entry \in Known
    <2>1. /\ run \in [Consumers -> Runs]
          /\ \A c \in Consumers : /\ Shaped(run[c])
                                  /\ run[c].pc # "wait" => run[c].entry \in Known
      BY <1>1 DEF Typed, ConsumerTypeOK, KnownEntries, At
    <2>2. ASSUME NEW c \in Consumers, NEW k \in Runs, Runned(c, k)
          PROVE  /\ run' \in [Consumers -> Runs]
                 /\ \A d \in Consumers : /\ Shaped(run'[d])
                                         /\ run'[d].pc # "wait" => run'[d].entry \in Known
      BY <2>1, <2>2 DEF Runned, To, Fits
    <2> QED
      BY <1>1, <2>1, <2>2, KindsRun
  <1>5. ConsumerTypeOK'
    BY <1>2, <1>3, <1>4 DEF ConsumerTypeOK, MessagesTypeOK, GroupStep, GroupTypeOK
  <1>6. KnownEntries'
    BY <1>2, <1>3, <1>4 DEF KnownEntries, GroupStep, At
  <1> QED
    BY <1>3, <1>5, <1>6 DEF SettledInv, Typed, GroupStep

\* Nothing is lost, however many consumers take an entry, crash on it or run out
\* of attempts: what was acknowledged is done, or is in the dead letters.
THEOREM NothingIsLost == ConsumerSpec => []AckedIsSettled
  <1>1. ConsumerInit => SettledInv
    BY InitTyped DEF SettledInv, AckedIsSettled, ConsumerInit
  <1>2. SettledInv => AckedIsSettled
    BY DEF SettledInv
  <1> QED
    BY <1>1, <1>2, SettledInductive, PTL DEF ConsumerSpec

-----------------------------------------------------------------------------
(* Who has the lock.                                                       *)

\* A step of one consumer leaves the others where they are.
LEMMA OthersStay ==
    ASSUME Typed, NEW c \in Consumers, NEW k, To(c, k), stream' = stream
    PROVE  /\ run'[c] = k /\ Event(c)' = stream[k.entry]
           /\ \A d \in Consumers \ {c} : run'[d] = run[d] /\ Event(d)' = Event(d)
  BY DEF Typed, ConsumerTypeOK, To, Event

\* Publishing leaves all of them.
LEMMA EventsStay ==
    ASSUME Typed, NEW n \in Entries, NEW e \in Events, Publishes(n, e)
    PROVE  /\ run' = run
           /\ \A c \in Consumers : ~At(c, "wait") => Event(c)' = Event(c)
           /\ \A f \in Events : Published(f) => owed'[f] = owed[f]
           /\ \A f \in Events : owed'[f] \in {owed[f], eligible}
  <1>1. run' = run /\ \A m \in Known : stream'[m] = stream[m]
    BY NullsAssumption DEF Publishes, Typed, ConsumerTypeOK, Known
  <1>2. \A c \in Consumers : ~At(c, "wait") => run[c].entry \in Known
    BY DEF Typed, KnownEntries
  <1>3. /\ \A f \in Events : Published(f) => owed'[f] = owed[f]
        /\ \A f \in Events : owed'[f] \in {owed[f], eligible}
    BY DEF Publishes, Typed, ConsumerTypeOK
  <1>4. ASSUME NEW c \in Consumers, ~At(c, "wait") PROVE Event(c)' = Event(c)
    <2>1. stream'[run[c].entry] = stream[run[c].entry]
      BY <1>1, <1>2, <1>4
    <2> QED
      BY <1>1, <2>1 DEF Event
  <1> QED
    BY <1>1, <1>3, <1>4

\* What a consumer does next keeps its entry, or is waiting.
LEMMA EntryStays ==
    ASSUME Typed, NEW c \in Consumers, NEW pc \in Pcs, NEW page \in SUBSET Recipients
    PROVE  /\ Moved(run[c], pc).entry = run[c].entry
           /\ Failed(run[c]).entry = run[c].entry
           /\ Loop(run[c], page).entry = run[c].entry
           /\ Loop(run[c], page).pc \in {"page", "check", "ack"}
  <1>1. run[c] \in Runs
    BY FitsAlways
  <1> QED
    BY <1>1, MovedFields, FailedFields, LoopFields DEF Runs

LockInv == Typed /\ WorkersHaveTheLock

\* A worker that goes on working with the same event keeps its lock.
LEMMA LockOfOne ==
    ASSUME LockInv, NEW c \in Consumers, NEW k \in Runs, To(c, k), stream' = stream,
           k.pc \in {"count", "page", "check", "send", "mark", "ack"} =>
               Working(c) /\ k.entry = run[c].entry,
           lock' = lock, freed' = freed
    PROVE  WorkersHaveTheLock'
  <1>1. /\ run'[c] = k /\ Event(c)' = stream[k.entry]
        /\ \A d \in Consumers \ {c} : run'[d] = run[d] /\ Event(d)' = Event(d)
    BY OthersStay DEF LockInv
  <1>2. ASSUME NEW d \in Consumers, Working(d)'
        PROVE  Working(d) /\ Event(d)' = Event(d)
    BY <1>1, <1>2 DEF Working, Event
  <1> QED
    BY <1>2 DEF LockInv, WorkersHaveTheLock

\* The lock of an event is given up, or taken by nobody else: whoever had it
\* finds the event among the freed ones, or has stopped.
LEMMA LockOfAnother ==
    ASSUME LockInv, NEW c \in Consumers, NEW k \in Runs, To(c, k), stream' = stream,
           NEW e \in Events, NEW who \in Consumers \cup {Nobody},
           lock' = [lock EXCEPT ![e] = who],
           freed \subseteq freed',
           lock[e] \in {c, Nobody} \/ e \in freed',
           k.pc \in {"count", "page", "check", "send", "mark", "ack"} =>
               who = c /\ stream[k.entry] = e
    PROVE  WorkersHaveTheLock'
  <1>1. /\ run'[c] = k /\ Event(c)' = stream[k.entry]
        /\ \A d \in Consumers \ {c} : run'[d] = run[d] /\ Event(d)' = Event(d)
    BY OthersStay DEF LockInv
  <1>2. lock \in [Events -> Consumers \cup {Nobody}]
    BY DEF LockInv, Typed, ConsumerTypeOK
  <1>3. ASSUME Working(c)' PROVE lock'[Event(c)'] = c
    BY <1>1, <1>2, <1>3 DEF Working
  <1>4. ASSUME NEW d \in Consumers \ {c}, Working(d)'
        PROVE  lock'[Event(d)'] = d \/ Event(d)' \in freed'
    <2>1. Working(d) /\ Event(d)' = Event(d)
      BY <1>1, <1>4 DEF Working
    <2>2. lock[Event(d)] = d \/ Event(d) \in freed
      BY <2>1 DEF LockInv, WorkersHaveTheLock
    <2>3. Event(d) = e => Event(d) \in freed'
      BY <2>2, NullsAssumption
    <2>4. Event(d) # e /\ lock[Event(d)] = d => lock'[Event(d)] = d
      <3>1. Event(d) \in Events
        BY <2>1, FitsAlways DEF LockInv, Working, At
      <3> QED
        BY <1>2, <3>1
    <2> QED
      BY <2>1, <2>2, <2>3, <2>4
  <1> QED
    BY <1>3, <1>4 DEF WorkersHaveTheLock

LEMMA LockInductive == LockInv /\ Kinds => WorkersHaveTheLock'
  <1> SUFFICES ASSUME LockInv, Kinds PROVE WorkersHaveTheLock'
    OBVIOUS
  <1>0. Typed
    BY DEF LockInv
  <1>1. CASE Aside
    BY <1>1 DEF Aside, LockInv, WorkersHaveTheLock, Working, Event
  <1>2. ASSUME NEW n \in Entries, NEW e \in Events, Publishes(n, e)
        PROVE  WorkersHaveTheLock'
    <2>1. UNCHANGED <<run, lock, freed>>
      BY <1>2 DEF Publishes
    <2>2. \A c \in Consumers : Working(c)' => Working(c) /\ Event(c)' = Event(c)
      BY <1>0, <1>2, <2>1, EventsStay DEF Working, At
    <2> QED
      BY <2>1, <2>2 DEF LockInv, WorkersHaveTheLock
  <1>3. ASSUME NEW c \in Consumers, ConsumerKinds(c) PROVE WorkersHaveTheLock'
    <2>0. run[c] \in Runs
      BY <1>0, FitsAlways
    <2>1. ASSUME NEW k \in Runs, Stops(c, k) PROVE WorkersHaveTheLock'
      BY <2>1, LockOfOne DEF Stops
    <2>2. ASSUME NEW k \in Runs, Locks(c, k) PROVE WorkersHaveTheLock'
      <3>1. Event(c) \in Events /\ lock[Event(c)] = Nobody
        BY <1>0, <2>2, FitsAlways DEF Locks, LockFree, At
      <3>2. k.pc # "wait" => k.entry = run[c].entry
        BY <1>0, <2>2, EntryStays, WaitingFields DEF Locks, Pcs
      <3>3. k.pc # "wait" => stream[k.entry] = Event(c)
        BY <3>2 DEF Event
      <3>4. lock' = [lock EXCEPT ![Event(c)] = c] /\ freed' = freed
            /\ To(c, k) /\ stream' = stream
        BY <2>2 DEF Locks
      <3> QED
        BY <3>1, <3>3, <3>4, LockOfAnother
    <2>3. ASSUME NEW k \in Runs, Ends(c, k) PROVE WorkersHaveTheLock'
      <3>1. Event(c) \in Events /\ (lock[Event(c)] = c \/ Event(c) \in freed)
        BY <1>0, <2>3, FitsAlways DEF Ends, At, LockInv, WorkersHaveTheLock, Working
      <3>2. k.pc \in {"unlock", "failed"}
        BY <2>0, <2>3, MovedFields, FailedFields DEF Ends, Pcs
      <3>3. lock' = [lock EXCEPT ![Event(c)] = Nobody] /\ freed' = freed
            /\ To(c, k) /\ stream' = stream
        BY <2>3 DEF Ends
      <3> QED
        BY <3>1, <3>2, <3>3, LockOfAnother
    <2>4. CASE Unlocks(c)
      <3>1. Event(c) \in Events
        BY <1>0, <2>4, FitsAlways DEF Unlocks, At
      <3>2. /\ lock' = [lock EXCEPT ![Event(c)] = Nobody]
            /\ freed \subseteq freed'
            /\ lock[Event(c)] \in {c, Nobody} \/ Event(c) \in freed'
            /\ To(c, Waiting) /\ stream' = stream
        BY <2>4 DEF Unlocks
      <3> QED
        BY <3>1, <3>2, WaitingFields, LockOfAnother
    <2>5. ASSUME NEW k \in Runs, To(c, k), Working(c), k.entry = run[c].entry,
                 UNCHANGED <<stream, lock, freed>>
          PROVE  WorkersHaveTheLock'
      BY <2>5, LockOfOne
    <2>6. CASE Counts(c)
      <3>1. PICK a \in 0..MaxAttempts : To(c, Counted(run[c], a))
        BY <2>6 DEF Counts
      <3>2. Counted(run[c], a) \in Runs /\ Counted(run[c], a).entry = run[c].entry
        BY <2>0, CountedFields
      <3> QED
        BY <2>5, <2>6, <3>1, <3>2 DEF Counts, Working, At
    <2>7. CASE Fetches(c)
      <3>1. NextPage(c) \in SUBSET Recipients
        BY <1>0 DEF NextPage, FirstPage, Typed, ConsumerTypeOK
      <3>2. Fetched(run[c], NextPage(c)) \in Runs
            /\ Fetched(run[c], NextPage(c)).entry = run[c].entry
        BY <2>0, <3>1, FetchedFields
      <3>3. /\ Loop(Fetched(run[c], NextPage(c)), NextPage(c)) \in Runs
            /\ Loop(Fetched(run[c], NextPage(c)), NextPage(c)).entry = run[c].entry
        BY <3>1, <3>2, LoopFields
      <3> QED
        BY <2>5, <2>7, <3>3 DEF Fetches, Working, At
    <2>8. CASE Skips(c) \/ Notes(c)
      <3>1. run[c].page \ {Current(c)} \in SUBSET Recipients
        BY <2>0 DEF Runs
      <3>2. /\ Loop(run[c], run[c].page \ {Current(c)}) \in Runs
            /\ Loop(run[c], run[c].page \ {Current(c)}).entry = run[c].entry
        BY <2>0, <3>1, LoopFields
      <3> QED
        BY <2>5, <2>8, <3>2 DEF Skips, Notes, Working, At
    <2>9. CASE Approves(c) \/ Sends(c)
      <3>1. \A pc \in Pcs : Moved(run[c], pc) \in Runs /\ Moved(run[c], pc).entry = run[c].entry
        BY <2>0, MovedFields
      <3>2. "send" \in Pcs /\ "mark" \in Pcs
        BY DEF Pcs
      <3> QED
        BY <2>5, <2>9, <3>1, <3>2 DEF Approves, Sends, Working, At
    <2> QED
      BY <1>3, <2>1, <2>2, <2>3, <2>4, <2>6, <2>7, <2>8, <2>9 DEF ConsumerKinds
  <1>4. ASSUME NEW e \in Events, Expires(e) PROVE WorkersHaveTheLock'
    <2>1. UNCHANGED <<run, stream, freed>> /\ lock' = [lock EXCEPT ![e] = Nobody]
      BY <1>4 DEF Expires
    <2>2. lock \in [Events -> Consumers \cup {Nobody}]
      BY <1>0 DEF Typed, ConsumerTypeOK
    <2>3. ASSUME NEW c \in Consumers, Working(c)
          PROVE  lock'[Event(c)] = c \/ Event(c) \in freed
      <3>1. lock[Event(c)] = c \/ Event(c) \in freed
        BY <2>3 DEF LockInv, WorkersHaveTheLock
      <3>2. lock[Event(c)] = c => Event(c) # e
        BY <1>4, <2>3 DEF Expires, Working
      <3>3. Event(c) \in Events
        BY <1>0, <2>3, FitsAlways DEF Working, At
      <3> QED
        BY <2>1, <2>2, <3>1, <3>2, <3>3
    <2> QED
      BY <2>1, <2>3 DEF WorkersHaveTheLock, Working, Event
  <1>5. ASSUME NEW S \in SUBSET Recipients, Changes(S) PROVE WorkersHaveTheLock'
    BY <1>5 DEF Changes, LockInv, WorkersHaveTheLock, Working, Event
  <1> QED
    BY <1>1, <1>2, <1>3, <1>4, <1>5 DEF Kinds

\* Two workers on one event: only after a stranger has deleted its lock.
LEMMA OneWorker ==
    ASSUME LockInv, NEW c \in Consumers, NEW d \in Consumers, c # d,
           Working(c), Working(d), Event(c) = Event(d)
    PROVE  Event(c) \in freed
  BY DEF LockInv, WorkersHaveTheLock

\* A step of c changes nobody's event but its own, keeps the lock of the event it
\* goes on with, and gives up no lock but its own, or that of an event that is done.
LEMMA DoneOfOne ==
    ASSUME Typed, LockedUntilDone, NEW c \in Consumers, NEW k \in Runs, To(c, k),
           stream' = stream, done \subseteq done', freed' \subseteq done',
           \A d \in Consumers \ {c} : \A e \in Events :
               lock[e] = d => lock'[e] = d \/ e \in done',
           k.pc \notin {"wait", "lock"} =>
               k.entry = run[c].entry /\ (lock'[Event(c)] = c \/ Event(c) \in done')
    PROVE  LockedUntilDone'
  <1>1. /\ run'[c] = k /\ Event(c)' = stream[k.entry]
        /\ \A d \in Consumers \ {c} : run'[d] = run[d] /\ Event(d)' = Event(d)
    BY OthersStay
  <1>2. ASSUME Engaged(c)' PROVE lock'[Event(c)'] = c \/ Event(c)' \in done'
    BY <1>1, <1>2 DEF Engaged, Event
  <1>3. ASSUME NEW d \in Consumers \ {c}, Engaged(d)'
        PROVE  lock'[Event(d)'] = d \/ Event(d)' \in done'
    <2>1. Engaged(d) /\ Event(d)' = Event(d)
      BY <1>1, <1>3 DEF Engaged
    <2>2. (lock[Event(d)] = d \/ Event(d) \in done) /\ Event(d) \in Events
      BY <2>1, FitsAlways DEF LockedUntilDone, Engaged, At
    <2> QED
      BY <2>1, <2>2
  <1> QED
    BY <1>2, <1>3 DEF LockedUntilDone

\* The lock of an event changes hands only while it is free, by its owner, or once
\* the event is done.
LEMMA DoneOfLock ==
    ASSUME Typed, NEW c \in Consumers, NEW e \in Events,
           NEW who \in Consumers \cup {Nobody}, lock' = [lock EXCEPT ![e] = who],
           done \subseteq done', lock[e] \in {c, Nobody} \/ e \in done'
    PROVE  /\ lock'[e] = who
           /\ \A d \in Consumers \ {c} : \A f \in Events :
                lock[f] = d => lock'[f] = d \/ f \in done'
  <1>1. lock'[e] = who /\ \A f \in Events \ {e} : lock'[f] = lock[f]
    BY DEF Typed, ConsumerTypeOK
  <1> QED
    BY <1>1, NullsAssumption

LEMMA DoneLockInductive == Typed /\ LockedUntilDone /\ Kinds => LockedUntilDone'
  <1> SUFFICES ASSUME Typed, LockedUntilDone, Kinds PROVE LockedUntilDone'
    OBVIOUS
  <1>1. CASE Aside
    BY <1>1 DEF Aside, LockedUntilDone, Engaged, Event
  <1>2. ASSUME NEW n \in Entries, NEW e \in Events, Publishes(n, e)
        PROVE  LockedUntilDone'
    <2>1. UNCHANGED <<run, lock, freed, done>>
      BY <1>2 DEF Publishes
    <2>2. \A c \in Consumers : Engaged(c)' => Engaged(c) /\ Event(c)' = Event(c)
      BY <1>2, <2>1, EventsStay DEF Engaged, At
    <2> QED
      BY <2>1, <2>2 DEF LockedUntilDone
  <1>3. ASSUME NEW c \in Consumers, ConsumerKinds(c) PROVE LockedUntilDone'
    <2>0. /\ run[c] \in Runs
          /\ Engaged(c) => /\ Event(c) \in Events
                           /\ lock[Event(c)] = c \/ Event(c) \in done
      BY FitsAlways DEF LockedUntilDone, Engaged, At
    <2>1. ASSUME NEW k \in Runs, To(c, k),
                 k.pc \notin {"wait", "lock"} => Engaged(c) /\ k.entry = run[c].entry,
                 UNCHANGED <<stream, lock, done, freed>>
          PROVE  LockedUntilDone'
      BY <2>0, <2>1, DoneOfOne DEF LockedUntilDone
    <2>2. ASSUME NEW k \in Runs, Stops(c, k) PROVE LockedUntilDone'
      BY <2>1, <2>2 DEF Stops
    <2>3. ASSUME NEW k \in Runs, Locks(c, k) PROVE LockedUntilDone'
      <3>1. Event(c) \in Events /\ lock[Event(c)] = Nobody
        BY <2>3, FitsAlways DEF Locks, LockFree, At
      <3>2. k.pc # "wait" => k.entry = run[c].entry
        BY <2>3, EntryStays, WaitingFields DEF Locks, Pcs
      <3>3. /\ lock' = [lock EXCEPT ![Event(c)] = c] /\ UNCHANGED <<stream, done, freed>>
            /\ To(c, k)
        BY <2>3 DEF Locks
      <3>4. /\ lock'[Event(c)] = c
            /\ \A d \in Consumers \ {c} : \A f \in Events :
                 lock[f] = d => lock'[f] = d \/ f \in done'
        BY <3>1, <3>3, DoneOfLock
      <3> QED
        BY <3>2, <3>3, <3>4, DoneOfOne DEF LockedUntilDone
    <2>4. ASSUME NEW k \in Runs, Ends(c, k) PROVE LockedUntilDone'
      <3>1. Event(c) \in Events
        BY <2>4, <2>0 DEF Ends, At, Engaged
      <3>2. k.entry = run[c].entry
        BY <2>4, EntryStays DEF Ends, Pcs
      <3>3. /\ lock' = [lock EXCEPT ![Event(c)] = Nobody] /\ UNCHANGED <<stream, freed>>
            /\ done \subseteq done' /\ Event(c) \in done' /\ To(c, k)
        BY <2>4 DEF Ends
      <3>4. \A d \in Consumers \ {c} : \A f \in Events :
              lock[f] = d => lock'[f] = d \/ f \in done'
        BY <3>1, <3>3, DoneOfLock
      <3> QED
        BY <3>2, <3>3, <3>4, DoneOfOne DEF LockedUntilDone
    <2>5. CASE Unlocks(c)
      <3>1. Engaged(c)
        BY <2>5 DEF Unlocks, At, Engaged
      <3>2. /\ lock' = [lock EXCEPT ![Event(c)] = Nobody] /\ UNCHANGED <<stream, done>>
            /\ To(c, Waiting)
        BY <2>5 DEF Unlocks
      <3>3. freed' \subseteq done'
        <4>1. lock[Event(c)] \notin {c, Nobody} => Event(c) \in done
          BY <2>0, <3>1
        <4> QED
          BY <2>5, <4>1 DEF Unlocks, LockedUntilDone
      <3>4. \A d \in Consumers \ {c} : \A f \in Events :
              lock[f] = d => lock'[f] = d \/ f \in done'
        BY <2>0, <3>1, <3>2, DoneOfLock
      <3> QED
        BY <3>2, <3>3, <3>4, WaitingFields, DoneOfOne
    <2>6. CASE Counts(c)
      <3>1. PICK a \in 0..MaxAttempts : To(c, Counted(run[c], a))
        BY <2>6 DEF Counts
      <3>2. Counted(run[c], a) \in Runs /\ Counted(run[c], a).entry = run[c].entry
        BY <2>0, CountedFields
      <3> QED
        BY <2>1, <2>6, <3>1, <3>2 DEF Counts, Engaged, At
    <2>7. CASE Fetches(c)
      <3>1. NextPage(c) \in SUBSET Recipients
        BY DEF NextPage, FirstPage, Typed, ConsumerTypeOK
      <3>2. Fetched(run[c], NextPage(c)) \in Runs
            /\ Fetched(run[c], NextPage(c)).entry = run[c].entry
        BY <2>0, <3>1, FetchedFields
      <3>3. /\ Loop(Fetched(run[c], NextPage(c)), NextPage(c)) \in Runs
            /\ Loop(Fetched(run[c], NextPage(c)), NextPage(c)).entry = run[c].entry
        BY <3>1, <3>2, LoopFields
      <3> QED
        BY <2>1, <2>7, <3>3 DEF Fetches, Engaged, At
    <2>8. CASE Skips(c) \/ Notes(c)
      <3>1. run[c].page \ {Current(c)} \in SUBSET Recipients
        BY <2>0 DEF Runs
      <3>2. /\ Loop(run[c], run[c].page \ {Current(c)}) \in Runs
            /\ Loop(run[c], run[c].page \ {Current(c)}).entry = run[c].entry
        BY <2>0, <3>1, LoopFields
      <3> QED
        BY <2>1, <2>8, <3>2 DEF Skips, Notes, Engaged, At
    <2>9. CASE Approves(c) \/ Sends(c)
      <3>1. \A pc \in Pcs : Moved(run[c], pc) \in Runs /\ Moved(run[c], pc).entry = run[c].entry
        BY <2>0, MovedFields
      <3>2. "send" \in Pcs /\ "mark" \in Pcs
        BY DEF Pcs
      <3> QED
        BY <2>1, <2>9, <3>1, <3>2 DEF Approves, Sends, Engaged, At
    <2> QED
      BY <1>3, <2>2, <2>3, <2>4, <2>5, <2>6, <2>7, <2>8, <2>9 DEF ConsumerKinds
  <1>4. ASSUME NEW e \in Events, Expires(e) PROVE LockedUntilDone'
    <2>1. UNCHANGED <<run, stream, freed, done>> /\ lock' = [lock EXCEPT ![e] = Nobody]
      BY <1>4 DEF Expires
    <2>2. ASSUME NEW c \in Consumers, Engaged(c)
          PROVE  lock'[Event(c)] = c \/ Event(c) \in done
      <3>1. (lock[Event(c)] = c \/ Event(c) \in done) /\ Event(c) \in Events
        BY <2>2, FitsAlways DEF LockedUntilDone, Engaged, At
      <3>2. lock[Event(c)] = c => Event(c) # e
        BY <1>4, <2>2 DEF Expires, Engaged
      <3> QED
        BY <2>1, <3>1, <3>2 DEF Typed, ConsumerTypeOK
    <2> QED
      BY <2>1, <2>2 DEF LockedUntilDone, Engaged, Event
  <1>5. ASSUME NEW S \in SUBSET Recipients, Changes(S) PROVE LockedUntilDone'
    BY <1>5 DEF Changes, LockedUntilDone, Engaged, Event
  <1> QED
    BY <1>1, <1>2, <1>3, <1>4, <1>5 DEF Kinds

-----------------------------------------------------------------------------
(* Why a message is repeated.                                              *)

OnceInv == LockInv /\ OnceUnlessExcused

\* A step in which c alone moves keeps the account of the messages, if it leaves
\* none unnoted without an excuse, begins none that was sent without one, and
\* sends none somebody else is about to send.
LEMMA AccountKept ==
    ASSUME OnceInv, NEW c \in Consumers, NEW k \in Runs, To(c, k), stream' = stream,
           slipped \subseteq slipped', freed \subseteq freed',
           \A e \in Events : marked[e] \subseteq marked'[e],
           \A e \in Events, r \in Recipients :
               \/ sent'[e][r] = sent[e][r]
               \/ Excused(e, r)'
               \/ sent'[e][r] = 1 /\ Noting(e, r)',
           At(c, "mark") => \/ <<Event(c), Current(c)>> \in slipped'
                            \/ Current(c) \in marked'[Event(c)],
           k.pc = "send" => /\ k.entry = run[c].entry /\ k.page = run[c].page
                            /\ \/ <<Event(c), Current(c)>> \in slipped'
                               \/ Event(c) \in freed'
                               \/ sent'[Event(c)][Current(c)] = 0,
           \A d \in Consumers \ {c} : At(d, "send") =>
               \/ sent'[Event(d)][Current(d)] = sent[Event(d)][Current(d)]
               \/ <<Event(d), Current(d)>> \in slipped'
               \/ Event(d) \in freed'
    PROVE  OnceUnlessExcused'
  <1>1. /\ run'[c] = k /\ Event(c)' = stream[k.entry]
        /\ \A d \in Consumers \ {c} : run'[d] = run[d] /\ Event(d)' = Event(d)
    BY OthersStay DEF OnceInv, LockInv
  <1>2. \A d \in Consumers \ {c} : Current(d)' = Current(d)
    BY <1>1 DEF Current
  <1>3. ASSUME NEW e \in Events, NEW r \in Recipients
        PROVE  \/ Excused(e, r)'
               \/ sent'[e][r] = 0
               \/ sent'[e][r] = 1 /\ (r \in marked'[e] \/ Noting(e, r)')
    <2>1. Excused(e, r) => Excused(e, r)'
      BY DEF Excused
    <2>2. \/ Excused(e, r)
          \/ sent[e][r] = 0
          \/ sent[e][r] = 1 /\ (r \in marked[e] \/ Noting(e, r))
      BY DEF OnceInv, OnceUnlessExcused
    <2>3. ASSUME Noting(e, r) PROVE r \in marked'[e] \/ Noting(e, r)' \/ Excused(e, r)'
      <3>1. PICK d \in Consumers : At(d, "mark") /\ Event(d) = e /\ Current(d) = r
        BY <2>3 DEF Noting
      <3>2. CASE d = c
        BY <3>1, <3>2 DEF Excused
      <3>3. CASE d # c
        <4>1. At(d, "mark")' /\ Event(d)' = e /\ Current(d)' = r
          BY <1>1, <1>2, <3>1, <3>3 DEF At
        <4> QED
          BY <4>1 DEF Noting
      <3> QED
        BY <3>2, <3>3
    <2> QED
      BY <2>1, <2>2, <2>3
  <1>4. ASSUME NEW d \in Consumers, At(d, "send")'
        PROVE  Excused(Event(d), Current(d))' \/ sent'[Event(d)'][Current(d)'] = 0
    <2>1. CASE d = c
      <3>1. /\ Event(c)' = Event(c) /\ Current(c)' = Current(c)
            /\ \/ <<Event(c), Current(c)>> \in slipped'
               \/ Event(c) \in freed'
               \/ sent'[Event(c)][Current(c)] = 0
        BY <1>1, <1>4, <2>1 DEF At, Event, Current
      <3> QED
        BY <2>1, <3>1 DEF Excused
    <2>2. CASE d # c
      <3>1. At(d, "send") /\ Event(d)' = Event(d) /\ Current(d)' = Current(d)
        BY <1>1, <1>2, <1>4, <2>2 DEF At
      <3>2. Excused(Event(d), Current(d)) \/ sent[Event(d)][Current(d)] = 0
        BY <3>1 DEF OnceInv, OnceUnlessExcused
      <3> QED
        BY <2>2, <3>1, <3>2 DEF Excused
    <2> QED
      BY <2>1, <2>2
  <1> QED
    BY <1>3, <1>4 DEF OnceUnlessExcused

\* One message goes out.
LEMMA DeliveredOnly ==
    ASSUME Typed, NEW c \in Consumers, At(c, "send"), Delivered(c)
    PROVE  /\ Event(c) \in Events /\ Current(c) \in Recipients
           /\ \A e \in Events, r \in Recipients :
                e # Event(c) \/ r # Current(c) => sent'[e][r] = sent[e][r]
           /\ sent[Event(c)][Current(c)] = 0 => sent'[Event(c)][Current(c)] = 1
           /\ \A e \in Events, r \in Recipients : sent[e][r] > 0 => sent'[e][r] > 0
           /\ sent'[Event(c)][Current(c)] > 0
  <1>1. Event(c) \in Events /\ Current(c) \in Recipients
    BY CurrentIsOnPage DEF At
  <1>2. sent \in [Events -> [Recipients -> 0..2]]
    BY DEF Typed, ConsumerTypeOK
  <1>3. sent' = [sent EXCEPT ![Event(c)][Current(c)] =
                   IF sent[Event(c)][Current(c)] < 2 THEN sent[Event(c)][Current(c)] + 1
                                                     ELSE sent[Event(c)][Current(c)]]
    BY DEF Delivered, Current
  <1>4. sent[Event(c)][Current(c)] \in 0..2
    BY <1>1, <1>2
  <1>5. sent'[Event(c)][Current(c)] =
          IF sent[Event(c)][Current(c)] < 2 THEN sent[Event(c)][Current(c)] + 1
                                            ELSE sent[Event(c)][Current(c)]
    BY <1>1, <1>2, <1>3
  <1>6. \A e \in Events, r \in Recipients :
           e # Event(c) \/ r # Current(c) => sent'[e][r] = sent[e][r]
    BY <1>1, <1>2, <1>3
  <1>7. sent'[Event(c)][Current(c)] > 0
    BY <1>4, <1>5
  <1> QED
    BY <1>1, <1>4, <1>5, <1>6, <1>7

LEMMA OnceStops ==
    ASSUME OnceInv, NEW c \in Consumers, NEW k \in Runs, Stops(c, k)
    PROVE  OnceUnlessExcused'
  <1>0. Typed /\ To(c, k) /\ UNCHANGED <<stream, marked, freed>> /\ k.pc # "send"
    BY DEF OnceInv, LockInv, Stops
  <1>1. CASE ~At(c, "mark") /\ UNCHANGED <<sent, slipped>>
    BY <1>0, <1>1, AccountKept
  <1>2. CASE At(c, "mark") /\ UNCHANGED sent /\ Slipped(c)
    BY <1>0, <1>2, AccountKept DEF Slipped, Current
  <1>3. CASE At(c, "send") /\ Delivered(c) /\ Slipped(c)
    <2>1. slipped \subseteq slipped' /\ <<Event(c), Current(c)>> \in slipped' /\ ~At(c, "mark")
      BY <1>3 DEF Slipped, Current, At
    <2>2. \A e \in Events, r \in Recipients :
             sent'[e][r] = sent[e][r] \/ <<e, r>> \in slipped'
      BY <1>0, <1>3, <2>1, DeliveredOnly
    <2>3. \A e \in Events, r \in Recipients : sent'[e][r] = sent[e][r] \/ Excused(e, r)'
      BY <2>2 DEF Excused
    <2>4. \A d \in Consumers : At(d, "send") => Event(d) \in Events /\ Current(d) \in Recipients
      BY <1>0, CurrentIsOnPage DEF At
    <2>5. \A d \in Consumers \ {c} : At(d, "send") =>
             \/ sent'[Event(d)][Current(d)] = sent[Event(d)][Current(d)]
             \/ <<Event(d), Current(d)>> \in slipped'
      BY <2>2, <2>4
    <2> QED
      BY <1>0, <2>1, <2>3, <2>5, AccountKept
  <1> QED
    BY <1>1, <1>2, <1>3 DEF Stops

LEMMA OnceSends ==
    ASSUME OnceInv, NEW c \in Consumers, Sends(c)
    PROVE  OnceUnlessExcused'
  <1> DEFINE k == Moved(run[c], "mark")
  <1>0. /\ LockInv /\ Typed /\ UNCHANGED <<stream, marked, slipped, freed>>
        /\ At(c, "send") /\ Delivered(c) /\ To(c, k)
    BY DEF OnceInv, LockInv, Sends
  <1>1. /\ k \in Runs /\ k.pc = "mark" /\ k.entry = run[c].entry /\ k.page = run[c].page
    BY <1>0, FitsAlways, MovedFields DEF Pcs
  <1> HIDE DEF k
  <1>2. At(c, "mark")' /\ Event(c)' = Event(c) /\ Current(c)' = Current(c)
    BY <1>0, <1>1, OthersStay DEF At, Event, Current
  <1>3. Noting(Event(c), Current(c))'
    BY <1>2 DEF Noting
  <1>4. ASSUME NEW e \in Events, NEW r \in Recipients
        PROVE  \/ sent'[e][r] = sent[e][r]
               \/ Excused(e, r)'
               \/ sent'[e][r] = 1 /\ Noting(e, r)'
    <2>1. CASE e # Event(c) \/ r # Current(c)
      BY <1>0, <2>1, DeliveredOnly
    <2>2. CASE e = Event(c) /\ r = Current(c)
      <3>1. Excused(e, r) \/ sent[e][r] = 0
        BY <1>0, <2>2 DEF OnceInv, OnceUnlessExcused
      <3>2. Excused(e, r) => Excused(e, r)'
        BY <1>0 DEF Excused
      <3>3. sent[e][r] = 0 => sent'[e][r] = 1
        BY <1>0, <2>2, DeliveredOnly
      <3>4. Noting(e, r)'
        BY <1>2, <2>2 DEF Noting
      <3> QED
        BY <3>1, <3>2, <3>3, <3>4
    <2> QED
      BY <2>1, <2>2
  <1>5. ASSUME NEW d \in Consumers \ {c}, At(d, "send")
        PROVE  \/ sent'[Event(d)][Current(d)] = sent[Event(d)][Current(d)]
               \/ Event(d) \in freed
    <2>1. Event(d) \in Events /\ Current(d) \in Recipients
      BY <1>0, <1>5, CurrentIsOnPage DEF At
    <2>2. Event(d) = Event(c) => Event(d) \in freed
      BY <1>0, <1>5, OneWorker DEF Working, At
    <2> QED
      BY <1>0, <2>1, <2>2, DeliveredOnly
  <1>6. ~At(c, "mark") /\ k.pc # "send"
    BY <1>0, <1>1 DEF At
  <1> QED
    BY <1>0, <1>1, <1>4, <1>5, <1>6, AccountKept

LEMMA OnceApproves ==
    ASSUME OnceInv, NEW c \in Consumers, Approves(c)
    PROVE  OnceUnlessExcused'
  <1> DEFINE k == Moved(run[c], "send")
  <1>0. /\ LockInv /\ Typed /\ UNCHANGED <<stream, marked, slipped, freed, sent>>
        /\ At(c, "check") /\ To(c, k) /\ Current(c) \notin marked[Event(c)]
    BY DEF OnceInv, LockInv, Approves
  <1>1. k \in Runs /\ k.pc = "send" /\ k.entry = run[c].entry /\ k.page = run[c].page
    BY <1>0, FitsAlways, MovedFields DEF Pcs
  <1> HIDE DEF k
  <1>2. Event(c) \in Events /\ Current(c) \in Recipients
    BY <1>0, CurrentIsOnPage DEF At
  <1>3. Noting(Event(c), Current(c)) => Event(c) \in freed
    <2>1. SUFFICES ASSUME NEW d \in Consumers, At(d, "mark"), Event(d) = Event(c)
                   PROVE  Event(c) \in freed
      BY DEF Noting
    <2>2. d # c
      BY <1>0, <2>1 DEF At
    <2> QED
      BY <1>0, <2>1, <2>2, OneWorker DEF Working, At
  <1>4. \/ <<Event(c), Current(c)>> \in slipped
        \/ Event(c) \in freed
        \/ sent[Event(c)][Current(c)] = 0
    BY <1>0, <1>2, <1>3 DEF OnceInv, OnceUnlessExcused, Excused
  <1>5. ~At(c, "mark")
    BY <1>0 DEF At
  <1> QED
    BY <1>0, <1>1, <1>4, <1>5, AccountKept

LEMMA OnceInductive == OnceInv /\ Kinds => OnceUnlessExcused'
  <1> SUFFICES ASSUME OnceInv, Kinds PROVE OnceUnlessExcused'
    OBVIOUS
  <1>0. Typed
    BY DEF OnceInv, LockInv
  \* Steps of nobody.
  <1>1. ASSUME UNCHANGED <<run, marked, sent, slipped, freed>>,
               \A c \in Consumers : ~At(c, "wait") => Event(c)' = Event(c)
        PROVE  OnceUnlessExcused'
    <2>1. \A c \in Consumers : Current(c)' = Current(c)
      BY <1>1 DEF Current
    <2>2. \A e \in Events, r \in Recipients : Noting(e, r) => Noting(e, r)'
      BY <1>1, <2>1 DEF Noting, At
    <2>3. \A e \in Events, r \in Recipients :
            \/ Excused(e, r)'
            \/ sent'[e][r] = 0
            \/ sent'[e][r] = 1 /\ (r \in marked'[e] \/ Noting(e, r)')
      BY <1>1, <2>2 DEF OnceInv, OnceUnlessExcused, Excused
    <2>4. ASSUME NEW c \in Consumers, At(c, "send")'
          PROVE  Excused(Event(c), Current(c))' \/ sent'[Event(c)'][Current(c)'] = 0
      <3>1. At(c, "send") /\ Event(c)' = Event(c)
        BY <1>1, <2>4 DEF At
      <3> QED
        BY <1>1, <2>1, <3>1 DEF OnceInv, OnceUnlessExcused, Excused
    <2> QED
      BY <2>3, <2>4 DEF OnceUnlessExcused
  <1>2. CASE Aside \/ (\E e \in Events : Expires(e)) \/ (\E S \in SUBSET Recipients : Changes(S))
    <2>1. UNCHANGED <<run, stream, marked, sent, slipped, freed>>
      BY <1>2 DEF Aside, Expires, Changes
    <2> QED
      BY <1>1, <2>1 DEF Event
  <1>3. ASSUME NEW n \in Entries, NEW e \in Events, Publishes(n, e)
        PROVE  OnceUnlessExcused'
    <2>1. UNCHANGED <<run, marked, sent, slipped, freed>>
      BY <1>3 DEF Publishes
    <2> QED
      BY <1>0, <1>1, <1>3, <2>1, EventsStay
  <1>4. ASSUME NEW c \in Consumers, ConsumerKinds(c) PROVE OnceUnlessExcused'
    <2>0. run[c] \in Runs /\ run[c].page \in SUBSET Recipients
      BY <1>0, FitsAlways DEF Runs
    \* Steps that neither send nor begin nor end a message.
    <2>1. ASSUME NEW k \in Runs, To(c, k), k.pc # "send", ~At(c, "mark"),
                 UNCHANGED <<stream, marked, sent, slipped>>, freed \subseteq freed'
          PROVE  OnceUnlessExcused'
      BY <2>1, AccountKept
    <2>2. ASSUME NEW k \in Runs, Locks(c, k) \/ Ends(c, k) PROVE OnceUnlessExcused'
      <3>1. k.pc # "send"
        BY <2>0, <2>2, MovedFields, FailedFields, WaitingFields DEF Locks, Ends, Pcs
      <3> QED
        BY <2>1, <2>2, <3>1 DEF Locks, Ends, At
    <2>3. CASE Counts(c)
      <3>1. PICK a \in 0..MaxAttempts : To(c, Counted(run[c], a))
        BY <2>3 DEF Counts
      <3> QED
        BY <2>0, <2>1, <2>3, <3>1, CountedFields DEF Counts, At
    <2>4. CASE Fetches(c)
      <3>1. NextPage(c) \in SUBSET Recipients
        BY <1>0 DEF NextPage, FirstPage, Typed, ConsumerTypeOK
      <3>2. Fetched(run[c], NextPage(c)) \in Runs
        BY <2>0, <3>1, FetchedFields
      <3>3. /\ Loop(Fetched(run[c], NextPage(c)), NextPage(c)) \in Runs
            /\ Loop(Fetched(run[c], NextPage(c)), NextPage(c)).pc # "send"
        BY <3>1, <3>2, LoopFields DEF Runs
      <3> QED
        BY <2>1, <2>4, <3>3 DEF Fetches, At
    <2>5. /\ Loop(run[c], run[c].page \ {Current(c)}) \in Runs
          /\ Loop(run[c], run[c].page \ {Current(c)}).pc # "send"
      <3>1. run[c].page \ {Current(c)} \in SUBSET Recipients
        BY <2>0
      <3> QED
        BY <2>0, <3>1, LoopFields DEF Runs
    <2>6. CASE Skips(c)
      BY <2>1, <2>5, <2>6 DEF Skips, At
    <2>7. CASE Notes(c)
      <3>1. Event(c) \in Events
        BY <1>0, <2>7, FitsAlways DEF Notes, At
      <3>2. /\ \A e \in Events : marked[e] \subseteq marked'[e]
            /\ Current(c) \in marked'[Event(c)]
        BY <1>0, <2>7, <3>1 DEF Notes, Typed, ConsumerTypeOK
      <3>3. UNCHANGED <<stream, sent, slipped, freed>>
            /\ To(c, Loop(run[c], run[c].page \ {Current(c)}))
        BY <2>7 DEF Notes
      <3> QED
        BY <2>5, <3>2, <3>3, AccountKept
    <2>8. CASE Unlocks(c)
      BY <2>1, <2>8, WaitingFields DEF Unlocks, At
    <2> QED
      BY <1>4, <2>2, <2>3, <2>4, <2>6, <2>7, <2>8, OnceStops, OnceSends, OnceApproves
         DEF ConsumerKinds
  <1> QED
    BY <1>2, <1>3, <1>4 DEF Kinds

\* A second message to the same user has a cause that is not the number of
\* consumers, of entries or of attempts: a delivery that was cut off, or a lock
\* deleted by a consumer that had lost it, which befalls events that are done only.
THEOREM RepeatsHaveCauses == ConsumerSpec => []RepeatHasCause
  <1> DEFINE Inv == SettledInv /\ OnceInv /\ LockedUntilDone
  <1>1. ConsumerInit => Inv
    <2> SUFFICES ASSUME ConsumerInit PROVE Inv
      OBVIOUS
    <2>1. SettledInv
      BY InitTyped DEF SettledInv, AckedIsSettled, ConsumerInit
    <2>2. WorkersHaveTheLock
      BY DEF ConsumerInit, WorkersHaveTheLock, Working, Waiting
    <2>3. OnceUnlessExcused
      BY DEF ConsumerInit, OnceUnlessExcused, At, Waiting
    <2>4. LockedUntilDone
      BY DEF ConsumerInit, LockedUntilDone, Engaged, Waiting
    <2> QED
      BY <2>1, <2>2, <2>3, <2>4 DEF SettledInv, OnceInv, LockInv
  <1>2. Inv /\ [ConsumerNext]_consumerVars => Inv'
    BY SettledInductive, StepKinds, LockInductive, OnceInductive, DoneLockInductive
       DEF SettledInv, OnceInv, LockInv
  <1>3. Inv => RepeatHasCause
    <2>1. ASSUME Inv, NEW e \in Events, NEW r \in Recipients, sent[e][r] > 1
          PROVE  <<e, r>> \in slipped \/ e \in freed
      BY <2>1 DEF OnceInv, OnceUnlessExcused, Excused
    <2> QED
      BY <2>1 DEF RepeatHasCause, LockedUntilDone
  <1> QED
    BY <1>1, <1>2, <1>3, PTL DEF ConsumerSpec

-----------------------------------------------------------------------------
(* Who has been reached.                                                   *)

Reaching == Typed /\ ReachInv

\* What a consumer owes shrinks, what it has sent does not.
LEMMA ReachGrows ==
    ASSUME Typed, Kinds
    PROVE  /\ \A e \in Events : Reached(e) \subseteq Reached(e)'
           /\ \A e \in Events : Published(e) => owed'[e] \subseteq owed[e]
  <1>1. ASSUME NEW c \in Consumers, At(c, "send"), Delivered(c)
        PROVE  \A e \in Events, r \in Recipients : sent[e][r] > 0 => sent'[e][r] > 0
    BY <1>1, DeliveredOnly
  <1>2. sent' = sent \/ \E c \in Consumers : At(c, "send") /\ Delivered(c)
    BY DEF Kinds, ConsumerKinds, Aside, Publishes, Stops, Locks, Counts, Fetches, Skips,
           Approves, Sends, Notes, Ends, Unlocks, Expires, Changes
  <1>3. \A e \in Events : Published(e) => owed'[e] \subseteq owed[e]
    <2>1. ASSUME NEW n \in Entries, NEW e \in Events, Publishes(n, e)
          PROVE  \A f \in Events : Published(f) => owed'[f] = owed[f]
      BY <2>1, EventsStay
    <2>2. ASSUME NEW S \in SUBSET Recipients, Changes(S)
          PROVE  \A f \in Events : owed'[f] \subseteq owed[f]
      BY <2>2 DEF Changes
    <2>3. \/ owed' = owed
          \/ \E n \in Entries, e \in Events : Publishes(n, e)
          \/ \E S \in SUBSET Recipients : Changes(S)
      BY DEF Kinds, ConsumerKinds, Aside, Stops, Locks, Counts, Fetches, Skips,
             Approves, Sends, Notes, Ends, Unlocks, Expires
    <2> QED
      BY <2>1, <2>2, <2>3
  <1> QED
    BY <1>1, <1>2, <1>3 DEF Reached

LEMMA NotedInductive == Reaching /\ Kinds => NotedIsSent'
  <1> SUFFICES ASSUME Reaching, Kinds PROVE NotedIsSent'
    OBVIOUS
  <1>0. /\ Typed /\ NotedIsSent
        /\ \A e \in Events, r \in Recipients : sent[e][r] > 0 => sent'[e][r] > 0
        /\ marked \in [Events -> SUBSET Recipients]
    BY ReachGrows DEF Reaching, ReachInv, Reached, Typed, ConsumerTypeOK
  \* Nothing is noted, and nothing more is about to be.
  <1>1. ASSUME marked' = marked,
               \A c \in Consumers : At(c, "mark")' =>
                   At(c, "mark") /\ Event(c)' = Event(c) /\ Current(c)' = Current(c)
        PROVE  NotedIsSent'
    <2>1. \A e \in Events : \A r \in marked'[e] : sent'[e][r] > 0
      BY <1>0, <1>1 DEF NotedIsSent
    <2>2. ASSUME NEW c \in Consumers, At(c, "mark")'
          PROVE  sent'[Event(c)'][Current(c)'] > 0
      <3>1. Event(c) \in Events /\ Current(c) \in Recipients
        BY <1>0, <1>1, <2>2, CurrentIsOnPage DEF At
      <3> QED
        BY <1>0, <1>1, <2>2, <3>1 DEF NotedIsSent
    <2> QED
      BY <2>1, <2>2 DEF NotedIsSent
  <1>2. CASE Aside \/ (\E e \in Events : Expires(e)) \/ (\E S \in SUBSET Recipients : Changes(S))
    BY <1>1, <1>2 DEF Aside, Expires, Changes, At, Event, Current
  <1>3. ASSUME NEW n \in Entries, NEW e \in Events, Publishes(n, e) PROVE NotedIsSent'
    <2>1. marked' = marked /\ run' = run
      BY <1>3 DEF Publishes
    <2>2. \A c \in Consumers : At(c, "mark") => Event(c)' = Event(c)
      BY <1>0, <1>3, EventsStay DEF At
    <2> QED
      BY <1>1, <2>1, <2>2 DEF At, Current
  <1>4. ASSUME NEW c \in Consumers, ConsumerKinds(c) PROVE NotedIsSent'
    <2>0. run[c] \in Runs /\ run[c].page \in SUBSET Recipients
      BY <1>0, FitsAlways DEF Runs
    <2>1. ASSUME NEW k \in Runs, To(c, k), k.pc # "mark", UNCHANGED <<stream, marked>>
          PROVE  NotedIsSent'
      BY <1>0, <1>1, <2>1, OthersStay DEF At, Current
    <2>2. ASSUME NEW k \in Runs, Stops(c, k) \/ Locks(c, k) \/ Ends(c, k)
          PROVE  NotedIsSent'
      <3>1. k.pc # "mark"
        BY <2>0, <2>2, MovedFields, FailedFields, WaitingFields
           DEF Stops, Locks, Ends, Pcs
      <3> QED
        BY <2>1, <2>2, <3>1 DEF Stops, Locks, Ends
    <2>3. CASE Counts(c)
      <3>1. PICK a \in 0..MaxAttempts : To(c, Counted(run[c], a))
        BY <2>3 DEF Counts
      <3> QED
        BY <2>0, <2>1, <2>3, <3>1, CountedFields DEF Counts
    <2>4. CASE Fetches(c)
      <3>1. NextPage(c) \in SUBSET Recipients
        BY <1>0 DEF NextPage, FirstPage, Typed, ConsumerTypeOK
      <3>2. Fetched(run[c], NextPage(c)) \in Runs
        BY <2>0, <3>1, FetchedFields
      <3>3. /\ Loop(Fetched(run[c], NextPage(c)), NextPage(c)) \in Runs
            /\ Loop(Fetched(run[c], NextPage(c)), NextPage(c)).pc # "mark"
        BY <3>1, <3>2, LoopFields DEF Runs
      <3> QED
        BY <2>1, <2>4, <3>3 DEF Fetches
    <2>5. /\ Loop(run[c], run[c].page \ {Current(c)}) \in Runs
          /\ Loop(run[c], run[c].page \ {Current(c)}).pc # "mark"
      <3>1. run[c].page \ {Current(c)} \in SUBSET Recipients
        BY <2>0
      <3> QED
        BY <2>0, <3>1, LoopFields DEF Runs
    <2>6. CASE Skips(c)
      BY <2>1, <2>5, <2>6 DEF Skips
    <2>7. CASE Unlocks(c)
      BY <2>1, <2>7, WaitingFields DEF Unlocks
    <2>8. CASE Approves(c)
      <3>1. Moved(run[c], "send") \in Runs /\ Moved(run[c], "send").pc = "send"
        BY <2>0, MovedFields DEF Pcs
      <3> QED
        BY <2>1, <2>8, <3>1 DEF Approves
    <2>9. CASE Sends(c)
      <3> DEFINE k == Moved(run[c], "mark")
      <3>1. k.entry = run[c].entry /\ k.page = run[c].page
        BY <2>0, MovedFields DEF Pcs
      <3>2. UNCHANGED <<stream, marked>> /\ To(c, k) /\ At(c, "send") /\ Delivered(c)
        BY <2>9 DEF Sends
      <3> HIDE DEF k
      <3>3. Event(c)' = Event(c) /\ Current(c)' = Current(c)
        BY <1>0, <3>1, <3>2, OthersStay DEF Event, Current
      <3>4. sent'[Event(c)][Current(c)] > 0
        BY <1>0, <3>2, DeliveredOnly
      <3>5. ASSUME NEW d \in Consumers, d # c, At(d, "mark")'
            PROVE  sent'[Event(d)'][Current(d)'] > 0
        <4>1. At(d, "mark") /\ Event(d)' = Event(d) /\ Current(d)' = Current(d)
          BY <1>0, <3>2, <3>5, OthersStay DEF At, Current
        <4>2. Event(d) \in Events /\ Current(d) \in Recipients
          BY <1>0, <4>1, CurrentIsOnPage DEF At
        <4> QED
          BY <1>0, <4>1, <4>2 DEF NotedIsSent
      <3>6. \A e \in Events : \A r \in marked'[e] : sent'[e][r] > 0
        BY <1>0, <3>2 DEF NotedIsSent
      <3> QED
        BY <3>3, <3>4, <3>5, <3>6 DEF NotedIsSent
    <2>10. CASE Notes(c)
      <3>1. Event(c) \in Events /\ Current(c) \in Recipients /\ sent[Event(c)][Current(c)] > 0
        BY <1>0, <2>10, CurrentIsOnPage DEF Notes, At, NotedIsSent
      <3>2. \A e \in Events : \A r \in marked'[e] :
               r \in marked[e] \/ (e = Event(c) /\ r = Current(c))
        BY <1>0, <2>10, <3>1 DEF Notes
      <3>3. \A e \in Events : \A r \in marked'[e] : sent[e][r] > 0 /\ r \in Recipients
        BY <1>0, <3>1, <3>2 DEF NotedIsSent
      <3>4. ASSUME NEW d \in Consumers, At(d, "mark")'
            PROVE  sent'[Event(d)'][Current(d)'] > 0
        <4>1. To(c, Loop(run[c], run[c].page \ {Current(c)})) /\ stream' = stream
          BY <2>10 DEF Notes
        <4>2. d # c
          BY <1>0, <2>5, <3>4, <4>1, OthersStay DEF At
        <4>3. At(d, "mark") /\ Event(d)' = Event(d) /\ Current(d)' = Current(d)
          BY <1>0, <3>4, <4>1, <4>2, OthersStay DEF At, Current
        <4>4. Event(d) \in Events /\ Current(d) \in Recipients
          BY <1>0, <4>3, CurrentIsOnPage DEF At
        <4> QED
          BY <1>0, <4>3, <4>4 DEF NotedIsSent
      <3> QED
        BY <1>0, <3>3, <3>4 DEF NotedIsSent
    <2> QED
      BY <1>4, <2>2, <2>3, <2>4, <2>6, <2>7, <2>8, <2>9, <2>10 DEF ConsumerKinds
  <1> QED
    BY <1>2, <1>3, <1>4 DEF Kinds

\* Nobody is owed a message who is not a recipient of it any more.
LEMMA OwedInductive == Reaching /\ Kinds => OwedAreEligible'
  <1> SUFFICES ASSUME Reaching, Kinds PROVE OwedAreEligible'
    OBVIOUS
  <1>1. Typed /\ OwedAreEligible
    BY DEF Reaching, ReachInv
  <1>2. ASSUME NEW n \in Entries, NEW e \in Events, Publishes(n, e)
        PROVE  OwedAreEligible'
    <2>1. eligible' = eligible /\ \A f \in Events : owed'[f] \in {owed[f], eligible}
      BY <1>1, <1>2, EventsStay DEF Publishes
    <2> QED
      BY <1>1, <2>1 DEF OwedAreEligible
  <1>3. ASSUME NEW S \in SUBSET Recipients, Changes(S) PROVE OwedAreEligible'
    BY <1>3 DEF Changes, OwedAreEligible
  <1>4. \/ UNCHANGED <<owed, eligible>>
        \/ \E n \in Entries, e \in Events : Publishes(n, e)
        \/ \E S \in SUBSET Recipients : Changes(S)
    BY DEF Kinds, ConsumerKinds, Aside, Stops, Locks, Counts, Fetches, Skips, Approves,
           Sends, Notes, Ends, Unlocks, Expires
  <1> QED
    BY <1>1, <1>2, <1>3, <1>4 DEF OwedAreEligible

\* Progress is not undone by fewer who are owed and more who are reached.
LEMMA ProgressKept ==
    ASSUME NEW k, NEW O, NEW R, NEW P \in SUBSET O, NEW Q, R \subseteq Q,
           Progress(k, O, R)
    PROVE  Progress(k, P, Q)
  BY DEF Progress

\* The loop makes progress when it leaves only people behind who are reached.
LEMMA LoopProgress ==
    ASSUME NEW k \in Runs, NEW page \in SUBSET Recipients,
           NEW O \in SUBSET Recipients, NEW R,
           \A r \in O : r <= k.after /\ r \notin page => r \in R,
           k.last => \A r \in O : r <= k.after
    PROVE  Progress(Loop(k, page), O, R)
  <1> DEFINE l == Loop(k, page)
  <1>1. k.last \in BOOLEAN
    BY DEF Runs
  <1>2. ASSUME page # {} PROVE Progress(l, O, R)
    <2>1. l.pc = "check" /\ l.page = page /\ l.after = k.after /\ l.last = k.last
      BY <1>2, LoopFields
    <2> HIDE DEF l
    <2> QED
      BY <2>1 DEF Progress, LeftBehind
  <1>3. ASSUME page = {}, k.last PROVE Progress(l, O, R)
    <2>1. l.pc = "ack"
      BY <1>3, LoopFields
    <2> HIDE DEF l
    <2> QED
      BY <1>3, <2>1 DEF Progress
  <1>4. ASSUME page = {}, ~k.last PROVE Progress(l, O, R)
    <2>1. l.pc = "page" /\ l.page = page /\ l.after = k.after /\ ~l.last
      BY <1>4, LoopFields
    <2> HIDE DEF l
    <2> QED
      BY <2>1 DEF Progress, LeftBehind
  <1> QED
    BY <1>1, <1>2, <1>3, <1>4

LEMMA AfterIsNumber == ASSUME NEW k \in Runs PROVE k.after \in Nat
  <1>1. \A x \in Recipients \cup {0} : x \in Nat
    BY RecipientsAssumption
  <1>2. k.after \in Recipients \cup {0}
    BY DEF Runs
  <1> QED
    BY <1>1, <1>2, Zenon

\* The next page leaves nobody out: who is still eligible is on it, or on a page
\* behind it, or was on one before it.
LEMMA FetchProgress ==
    ASSUME NEW k \in Runs, k.page = {}, NEW E \in SUBSET Recipients,
           NEW O \in SUBSET E, NEW R, O \cap LeftBehind(k) \subseteq R,
           NEW page, page = FirstPage({r \in E : r > k.after})
    PROVE  Progress(Loop(Fetched(k, page), page), O, R)
  <1> DEFINE S == {r \in E : r > k.after}
             f == Fetched(k, page)
  <1>1. S \in SUBSET Recipients /\ page \in SUBSET S /\ page \in SUBSET Recipients
    BY DEF FirstPage
  <1>2. /\ f \in Runs /\ f.last = IsLast(page)
        /\ f.after = IF page = {} THEN k.after ELSE Greatest(page)
    BY <1>1, FetchedFields
  <1>3. /\ k.after \in Nat /\ \A r \in O : r \in Nat /\ r \in E /\ r \in Recipients
        /\ \A r \in O : r <= k.after => r \in R
    <2>1. k.after \in Nat
      BY AfterIsNumber
    <2>2. \A r \in O : r \in Nat /\ r \in E /\ r \in Recipients
      BY RecipientsAssumption
    <2>3. \A r \in O : r <= k.after => r \in R
      BY <2>2 DEF LeftBehind
    <2> QED
      BY <2>1, <2>2, <2>3
  <1>4. \A r \in O : r <= k.after \/ r \in S
    BY <1>3
  <1>5. ASSUME page # {}
        PROVE  /\ Greatest(page) \in Nat /\ k.after < Greatest(page)
               /\ \A r \in O : r <= Greatest(page) => r <= k.after \/ r \in page
    <2>1. /\ Greatest(page) \in page /\ \A q \in page : q <= Greatest(page)
          /\ Greatest(page) \in S /\ Greatest(page) \in Nat
      BY <1>1, <1>5, GreatestIsLast, RecipientsAssumption
    <2>2. \A r \in S : r <= Greatest(page) => r \in page
      <3> HIDE DEF S
      <3>1. page = FirstPage(S)
        BY DEF S
      <3> QED
        BY <1>1, <2>1, <3>1, PageHasNoGap
    <2> QED
      BY <1>4, <2>1, <2>2
  <1>6. ASSUME IsLast(page) PROVE page = S
    <2> HIDE DEF S
    <2>1. page = FirstPage(S)
      BY DEF S
    <2> QED
      BY <1>1, <1>6, <2>1, LastPageIsAll
  <1>7. \A r \in O : r <= f.after /\ r \notin page => r \in R
    BY <1>2, <1>3, <1>5
  <1>8. f.last => \A r \in O : r <= f.after
    <2> SUFFICES ASSUME f.last, NEW r \in O PROVE r <= f.after
      OBVIOUS
    <2>1. page = S
      BY <1>2, <1>6
    <2>2. CASE page = {}
      BY <1>2, <1>4, <2>1, <2>2
    <2>3. CASE page # {}
      <3>1. r \in page => r <= Greatest(page)
        BY <1>1, <2>3, GreatestIsLast
      <3>2. r <= k.after => r <= Greatest(page)
        BY <1>3, <1>5, <2>3
      <3> QED
        BY <1>2, <1>4, <2>1, <2>3, <3>1, <3>2
    <2> QED
      BY <2>2, <2>3
  <1> HIDE DEF f
  <1>9. O \in SUBSET Recipients
    OBVIOUS
  <1>10. Progress(Loop(f, page), O, R)
    BY <1>1, <1>2, <1>7, <1>8, <1>9, LoopProgress
  <1> QED
    BY <1>10 DEF f

\* What holds of a run before a step, of an event worked on, holds after it.
LEMMA ProgressOf ==
    ASSUME Reaching, Kinds, NEW c \in Consumers, ~At(c, "wait"), NEW k,
           run'[c] = k, Event(c)' = Event(c),
           Progress(k, owed[Event(c)], Reached(Event(c)))
    PROVE  Progress(run[c], owed[Event(c)], Reached(Event(c)))'
  <1>1. Typed
    BY DEF Reaching
  <1>2. PICK e \in Events : e = Event(c) /\ Published(e)
    <2>1. Event(c) \in Events /\ run[c].entry \in Entries
      BY <1>1, FitsAlways DEF Known
    <2> QED
      BY <2>1 DEF Event, Published
  <1>3. owed'[e] \in SUBSET owed[e] /\ Reached(e) \subseteq Reached(e)'
    BY <1>1, <1>2, ReachGrows
  <1>4. Progress(k, owed[e], Reached(e))
    BY <1>2
  <1>5. Reached(e)' = {r \in Recipients : sent'[e][r] > 0}
    BY DEF Reached
  <1>6. Progress(k, owed'[e], {r \in Recipients : sent'[e][r] > 0})
    <2> DEFINE Q == {r \in Recipients : sent'[e][r] > 0}
    <2>1. Reached(e) \subseteq Q
      BY <1>3, <1>5
    <2> HIDE DEF Q
    <2>2. Progress(k, owed'[e], Q)
      BY <1>3, <1>4, <2>1, ProgressKept
    <2> QED
      BY <2>2 DEF Q
  <1>7. Event(c)' = e
    BY <1>2
  <1> QED
    BY <1>6, <1>7 DEF Reached

LEMMA ProgressOfOthers ==
    ASSUME Reaching, Kinds, NEW c \in Consumers, ~At(c, "wait"),
           run'[c] = run[c], Event(c)' = Event(c)
    PROVE  Progress(run[c], owed[Event(c)], Reached(Event(c)))'
  <1>1. Progress(run[c], owed[Event(c)], Reached(Event(c)))
    BY DEF Reaching, ReachInv, PagesReach
  <1> QED
    BY <1>1, ProgressOf

\* Leaving the first of the page when he has been reached, or is not owed.
LEMMA SkipProgress ==
    ASSUME NEW k \in Runs, k.page # {}, k.pc \in {"check", "send", "mark"},
           NEW O \in SUBSET Recipients, NEW R, Progress(k, O, R),
           NEW r, r \in R \/ r \notin O
    PROVE  Progress(Loop(k, k.page \ {r}), O, R)
  <1>1. k.page \ {r} \in SUBSET Recipients
    BY DEF Runs
  <1>2. O \cap LeftBehind(k) \subseteq R /\ (k.last => \A q \in O : q <= k.after)
    BY DEF Progress
  <1>3. \A q \in O : q <= k.after /\ q \notin k.page \ {r} => q \in R
    BY <1>2 DEF LeftBehind
  <1> QED
    BY <1>1, <1>2, <1>3, LoopProgress

LEMMA PagesInductive == Reaching /\ Kinds => PagesReach'
  <1> SUFFICES ASSUME Reaching, Kinds PROVE PagesReach'
    OBVIOUS
  <1> DEFINE Good(c) == Progress(run[c], owed[Event(c)], Reached(Event(c)))
  <1>0. Typed /\ NotedIsSent /\ PagesReach /\ OwedAreEligible
    BY DEF Reaching, ReachInv
  <1>1. ASSUME run' = run, \A c \in Consumers : ~At(c, "wait") => Event(c)' = Event(c)
        PROVE  PagesReach'
    <2> SUFFICES ASSUME NEW c \in Consumers, ~At(c, "wait")' PROVE Good(c)'
      BY DEF PagesReach
    <2>1. ~At(c, "wait") /\ run'[c] = run[c]
      BY <1>1 DEF At
    <2> QED
      BY <1>1, <2>1, ProgressOfOthers
  <1>2. CASE Aside \/ (\E e \in Events : Expires(e)) \/ (\E S \in SUBSET Recipients : Changes(S))
    BY <1>1, <1>2 DEF Aside, Expires, Changes, Event
  <1>3. ASSUME NEW n \in Entries, NEW e \in Events, Publishes(n, e) PROVE PagesReach'
    BY <1>0, <1>1, <1>3, EventsStay
  <1>4. ASSUME NEW c \in Consumers, ConsumerKinds(c) PROVE PagesReach'
    <2>0. run[c] \in Runs /\ Shaped(run[c]) /\ run[c].page \in SUBSET Recipients
      BY <1>0, FitsAlways DEF Runs
    <2>1. ASSUME NEW k, To(c, k), stream' = stream,
                 At(c, "wait")' \/ Good(c)'
          PROVE  PagesReach'
      <3> SUFFICES ASSUME NEW d \in Consumers, ~At(d, "wait")' PROVE Good(d)'
        BY DEF PagesReach
      <3>1. CASE d = c
        BY <2>1, <3>1
      <3>2. CASE d # c
        <4>1. run'[d] = run[d] /\ Event(d)' = Event(d) /\ ~At(d, "wait")
          BY <1>0, <2>1, <3>2, OthersStay DEF At
        <4> QED
          BY <4>1, ProgressOfOthers
      <3> QED
        BY <3>1, <3>2
    <2>2. ASSUME NEW k, To(c, k), stream' = stream,
                 k.pc \in {"wait", "lock", "count", "failed", "unlock"}
          PROVE  PagesReach'
      <3>1. run'[c] = k
        BY <1>0, <2>2, OthersStay
      <3>2. Good(c)'
        BY <2>2, <3>1 DEF Progress
      <3> QED
        BY <2>1, <2>2, <3>2
    <2>3. ASSUME NEW k, To(c, k), stream' = stream,
                 k.entry = run[c].entry, ~At(c, "wait"),
                 Progress(k, owed[Event(c)], Reached(Event(c)))
          PROVE  PagesReach'
      <3>1. run'[c] = k /\ Event(c)' = Event(c)
        BY <1>0, <2>3, OthersStay DEF Event
      <3>2. Good(c)'
        BY <2>3, <3>1, ProgressOf
      <3> QED
        BY <2>1, <2>3, <3>2
    <2>4. ASSUME ~At(c, "wait")
          PROVE  /\ Good(c) /\ owed[Event(c)] \in SUBSET eligible
                 /\ Event(c) \in Events /\ owed[Event(c)] \in SUBSET Recipients
      <3>1. Event(c) \in Events
        BY <1>0, <2>4, FitsAlways
      <3> QED
        BY <1>0, <2>4, <3>1 DEF PagesReach, OwedAreEligible, Typed, ConsumerTypeOK
    <2> HIDE DEF Good
    <2>5. ASSUME NEW k \in Runs, Stops(c, k) \/ Locks(c, k) \/ Ends(c, k)
          PROVE  PagesReach'
      <3>1. k.pc \in {"wait", "lock", "count", "failed", "unlock"}
        BY <2>0, <2>5, MovedFields, FailedFields, WaitingFields
           DEF Stops, Locks, Ends, Pcs
      <3> QED
        BY <2>2, <2>5, <3>1 DEF Stops, Locks, Ends
    <2>6. CASE Unlocks(c)
      BY <2>2, <2>6, WaitingFields DEF Unlocks
    <2>7. CASE Counts(c)
      <3>1. PICK a \in 0..MaxAttempts : To(c, Counted(run[c], a))
        BY <2>7 DEF Counts
      <3>2. run[c].page = {} /\ run[c].after = 0 /\ ~run[c].last /\ ~At(c, "wait")
        BY <2>0, <2>7 DEF Counts, At, Shaped
      <3> DEFINE k == Counted(run[c], a)
      <3>3. /\ k.pc = "page" /\ k.entry = run[c].entry
            /\ k.page = {} /\ k.after = 0 /\ ~k.last
        BY <2>0, <3>2, CountedFields
      <3> HIDE DEF k
      <3>4. LeftBehind(k) = {}
        <4>1. \A r \in Recipients : ~(r <= 0)
          BY RecipientsAssumption
        <4>2. k.after = 0
          BY <3>3
        <4> QED
          BY <4>1, <4>2, Zenon DEF LeftBehind
      <3>5. Progress(k, owed[Event(c)], Reached(Event(c)))
        BY <3>3, <3>4 DEF Progress
      <3>6. To(c, k) /\ stream' = stream
        BY <2>7, <3>1 DEF k, Counts
      <3> QED
        BY <2>3, <3>2, <3>3, <3>5, <3>6
    <2>8. CASE Fetches(c)
      <3> DEFINE p == NextPage(c)
                 k == Loop(Fetched(run[c], p), p)
      <3>1. At(c, "page") /\ ~At(c, "wait") /\ To(c, k) /\ stream' = stream
        BY <2>8 DEF Fetches, At
      <3>2. run[c].page = {} /\ eligible \in SUBSET Recipients
        BY <1>0, <2>0, <3>1 DEF At, Shaped, Typed, ConsumerTypeOK
      <3>3. owed[Event(c)] \cap LeftBehind(run[c]) \subseteq Reached(Event(c))
        BY <2>4, <3>1 DEF Good, Progress, At
      <3>4. Progress(k, owed[Event(c)], Reached(Event(c)))
        BY <2>0, <2>4, <3>1, <3>2, <3>3, FetchProgress DEF NextPage
      <3>5. k.entry = run[c].entry
        <4>1. p \in SUBSET Recipients
          BY <3>2 DEF NextPage, FirstPage
        <4> HIDE DEF p
        <4>2. Fetched(run[c], p) \in Runs /\ Fetched(run[c], p).entry = run[c].entry
          BY <2>0, <4>1, FetchedFields
        <4> QED
          BY <4>1, <4>2, LoopFields
      <3> HIDE DEF p, k
      <3> QED
        BY <2>3, <3>1, <3>4, <3>5
    <2>9. ASSUME run[c].pc \in {"check", "send", "mark"},
                 To(c, Loop(run[c], run[c].page \ {Current(c)})), stream' = stream,
                 Current(c) \in Reached(Event(c)) \/ Current(c) \notin owed[Event(c)]
          PROVE  PagesReach'
      <3>1. ~At(c, "wait") /\ run[c].page # {}
        BY <2>0, <2>9 DEF At, Shaped
      <3>2. Progress(run[c], owed[Event(c)], Reached(Event(c)))
        BY <2>4, <3>1 DEF Good
      <3>3. Progress(Loop(run[c], run[c].page \ {Current(c)}),
                     owed[Event(c)], Reached(Event(c)))
        BY <2>0, <2>4, <2>9, <3>1, <3>2, SkipProgress
      <3>4. run[c].page \ {Current(c)} \in SUBSET Recipients
        BY <2>0
      <3>5. Loop(run[c], run[c].page \ {Current(c)}).entry = run[c].entry
        BY <2>0, <3>4, LoopFields
      <3> QED
        BY <2>3, <2>9, <3>1, <3>3, <3>5
    <2>10. CASE Skips(c)
      <3>1. Event(c) \in Events /\ Current(c) \in Recipients /\ ~At(c, "wait")
        BY <1>0, <2>10, CurrentIsOnPage DEF Skips, At
      <3>2. Current(c) \in Reached(Event(c)) \/ Current(c) \notin owed[Event(c)]
        <4>1. CASE Current(c) \in marked[Event(c)]
          BY <1>0, <3>1, <4>1 DEF NotedIsSent, Reached
        <4>2. CASE Current(c) \notin eligible
          BY <2>4, <3>1, <4>2
        <4> QED
          BY <2>10, <4>1, <4>2 DEF Skips
      <3> QED
        BY <2>9, <2>10, <3>2 DEF Skips, At
    <2>11. CASE Notes(c)
      <3>1. Current(c) \in Recipients
        BY <1>0, <2>11, CurrentIsOnPage DEF Notes, At
      <3>2. Current(c) \in Reached(Event(c))
        BY <1>0, <2>11, <3>1 DEF Notes, NotedIsSent, Reached
      <3> QED
        BY <2>9, <2>11, <3>2 DEF Notes, At
    <2>12. ASSUME NEW pc \in {"send", "mark"}, run[c].pc \in {"check", "send"},
                  To(c, Moved(run[c], pc)), stream' = stream
           PROVE  PagesReach'
      <3> DEFINE k == Moved(run[c], pc)
      <3>1. pc \in Pcs /\ ~At(c, "wait")
        BY <2>12 DEF Pcs, At
      <3>2. /\ k.pc = pc /\ k.entry = run[c].entry /\ k.page = run[c].page
            /\ k.after = run[c].after /\ k.last = run[c].last
        BY <2>0, <3>1, MovedFields
      <3>3. To(c, k)
        BY <2>12
      <3> HIDE DEF k
      <3>4. Progress(run[c], owed[Event(c)], Reached(Event(c)))
        BY <2>4, <3>1 DEF Good
      <3>5. Progress(k, owed[Event(c)], Reached(Event(c)))
        BY <2>12, <3>2, <3>4 DEF Progress, LeftBehind
      <3> QED
        BY <2>3, <2>12, <3>1, <3>2, <3>3, <3>5
    <2>13. CASE Approves(c) \/ Sends(c)
      BY <2>12, <2>13 DEF Approves, Sends, At
    <2> QED
      BY <1>4, <2>5, <2>6, <2>7, <2>8, <2>10, <2>11, <2>13 DEF ConsumerKinds
  <1> QED
    BY <1>2, <1>3, <1>4 DEF Kinds

\* An event is noted as done behind the last page only.
LEMMA DoneInductive == Reaching /\ Kinds => DoneReachedEverybody'
  <1> SUFFICES ASSUME Reaching, Kinds PROVE DoneReachedEverybody'
    OBVIOUS
  <1>1. Typed /\ DoneReachedEverybody /\ PagesReach
    BY DEF Reaching, ReachInv
  <1>2. \A e \in done : e \in Events /\ Published(e)
    BY <1>1 DEF Typed, ConsumerTypeOK, KnownEntries
  <1>3. ASSUME NEW e \in Events, Published(e), owed[e] \subseteq Reached(e)
        PROVE  owed'[e] \subseteq Reached(e)'
    BY <1>1, <1>3, ReachGrows
  <1>4. ASSUME NEW c \in Consumers, At(c, "ack")
        PROVE  /\ Event(c) \in Events /\ Published(Event(c))
               /\ owed[Event(c)] \subseteq Reached(Event(c))
    <2>1. Event(c) \in Events /\ run[c].entry \in Entries
      BY <1>1, <1>4, FitsAlways DEF Known, At
    <2>2. Progress(run[c], owed[Event(c)], Reached(Event(c)))
      BY <1>1, <1>4 DEF PagesReach, At
    <2> QED
      BY <1>4, <2>1, <2>2 DEF Progress, Event, Published, At
  <1>5. \A e \in done : owed[e] \subseteq Reached(e)
    <2> SUFFICES ASSUME NEW e \in done PROVE \A r \in owed[e] : r \in Reached(e)
      OBVIOUS
    <2> QED
      BY <1>1, <1>2 DEF DoneReachedEverybody, Reached, Typed, ConsumerTypeOK
  <1>6. \A e \in done' :
           e \in done \/ \E c \in Consumers : At(c, "ack") /\ e = Event(c)
    BY DEF Kinds, ConsumerKinds, Aside, Publishes, Stops, Locks, Counts, Fetches, Skips,
           Approves, Sends, Notes, Ends, Unlocks, Expires, Changes
  <1>7. \A e \in done' : e \in Events /\ owed'[e] \subseteq Reached(e)'
    BY <1>2, <1>3, <1>4, <1>5, <1>6
  <1> QED
    BY <1>7 DEF DoneReachedEverybody, Reached

\* Whoever could be notified ever since an event was published has got the
\* message when it is done, however the pages were cut, memberships changed and
\* attempts failed in between.
THEOREM EverybodyIsReached == ConsumerSpec => []DoneReachedEverybody
  <1> DEFINE Inv == SettledInv /\ ReachInv
  <1>1. ConsumerInit => Inv
    <2> SUFFICES ASSUME ConsumerInit PROVE Inv
      OBVIOUS
    <2>1. SettledInv
      BY InitTyped DEF SettledInv, AckedIsSettled, ConsumerInit
    <2>2. NotedIsSent
      BY DEF ConsumerInit, NotedIsSent, At, Waiting
    <2>3. PagesReach
      BY DEF ConsumerInit, PagesReach, At, Waiting
    <2>4. OwedAreEligible /\ DoneReachedEverybody
      BY DEF ConsumerInit, OwedAreEligible, DoneReachedEverybody
    <2> QED
      BY <2>1, <2>2, <2>3, <2>4 DEF ReachInv
  <1>2. Inv /\ [ConsumerNext]_consumerVars => Inv'
    <2> SUFFICES ASSUME Inv, [ConsumerNext]_consumerVars PROVE Inv'
      OBVIOUS
    <2>1. SettledInv' /\ Reaching /\ Kinds
      BY SettledInductive, StepKinds DEF SettledInv, Reaching
    <2> QED
      BY <2>1, NotedInductive, PagesInductive, OwedInductive, DoneInductive DEF ReachInv
  <1>3. Inv => DoneReachedEverybody
    BY DEF ReachInv
  <1> QED
    BY <1>1, <1>2, <1>3, PTL DEF ConsumerSpec
=============================================================================

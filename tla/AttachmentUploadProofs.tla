------------------------ MODULE AttachmentUploadProofs ------------------------
(***************************************************************************)
(* Proofs about the photos of issue-service, for any number of users,      *)
(* attachments, issues, files and concurrent CompleteUpload calls.         *)
(***************************************************************************)
EXTENDS AttachmentUpload, TLAPS

\* A call works on a row that exists.
CallsHaveRows ==
    \A c \in Calls : call[c] # Idle => row[call[c].upload].status # "NONE"

\* The verdict is reached last.
VerdictComesLast ==
    \A c \in Calls : /\ At(c, "head") \/ At(c, "get") => call[c].target = "NONE"
                     /\ At(c, "decide") => call[c].target # "NONE"

\* What a call has seen is still in the bucket while nobody has decided, and
\* what it is about to accept was verified.
SeenFileStays ==
    \A c \in Calls : At(c, "get") \/ (At(c, "decide") /\ call[c].target = "READY") =>
        /\ call[c].target = "READY" => call[c].etag \in Valid
        /\ row[call[c].upload].status = "UPLOADING" =>
             call[c].etag \in Files /\ object[call[c].upload] = call[c].etag

UploadInv ==
    /\ UploadTypeOK
    /\ CallsHaveRows
    /\ VerdictComesLast
    /\ SeenFileStays
    /\ OnlyRefusedAreDeleted
    /\ VerifiedFileStays

-----------------------------------------------------------------------------
\* Rows and calls written field by field keep their types.
LEMMA RowFields ==
    ASSUME NEW r \in Attachment, r # NoRow
    PROVE  /\ r \in [by : Users, status : Statuses, etag : Files \cup {NoFile},
                     issue : Issues \cup {NoIssue}]
           /\ r.status # "NONE"
  BY DEF Attachment, Statuses

LEMMA CallFields ==
    ASSUME NEW k \in {Idle} \cup Running, k # Idle
    PROVE  k \in Running /\ k.upload \in Uploads
  BY DEF Running

LEMMA InitUpload == UploadInit => UploadInv
  BY DEF UploadInit, UploadInv, UploadTypeOK, CallsHaveRows, VerdictComesLast,
     SeenFileStays, OnlyRefusedAreDeleted, VerifiedFileStays, Attachment, NoRow, Idle, At

-----------------------------------------------------------------------------
(* Steps of a call leave rows and objects alone, up to its transaction.    *)

LEMMA BeginStep ==
    ASSUME UploadInv, NEW c \in Calls, NEW u \in Users, NEW i \in Uploads,
           BeginComplete(c, u, i)
    PROVE  UploadInv'
  <1> DEFINE new == IF i \in late
               THEN [pc |-> "decide", upload |-> i, etag |-> NoFile, target |-> "EXPIRED"]
               ELSE [pc |-> "head", upload |-> i, etag |-> NoFile, target |-> "NONE"]
  <1>1. new \in Running /\ new.upload = i /\ new.pc \in {"head", "decide"}
        /\ new.target # "READY" /\ (new.pc = "head" <=> new.target = "NONE")
    BY DEF Running
  <1> HIDE DEF new
  <1>2. call' = [call EXCEPT ![c] = new] /\ row[i].status = "UPLOADING"
        /\ UNCHANGED <<row, issue, late, object>>
    BY DEF BeginComplete, new
  <1>3. UploadTypeOK'
    BY <1>1, <1>2 DEF UploadInv, UploadTypeOK
  <1>4. \A d \in Calls : call'[d] = IF d = c THEN new ELSE call[d]
    BY <1>2 DEF UploadInv, UploadTypeOK
  <1>5. CallsHaveRows'
    BY <1>1, <1>2, <1>4 DEF UploadInv, CallsHaveRows, Idle
  <1>6. VerdictComesLast' /\ SeenFileStays'
    BY <1>1, <1>2, <1>4 DEF UploadInv, VerdictComesLast, SeenFileStays, At
  <1>7. OnlyRefusedAreDeleted' /\ VerifiedFileStays'
    BY <1>1, <1>2, <1>4 DEF UploadInv, OnlyRefusedAreDeleted, VerifiedFileStays, At
  <1> QED
    BY <1>3, <1>5, <1>6, <1>7 DEF UploadInv

\* A running call c goes on as k.
LEMMA CallGoesOn ==
    ASSUME UploadInv, NEW c \in Calls, call[c] # Idle, NEW k \in Running,
           k.upload = call[c].upload,
           call' = [call EXCEPT ![c] = k],
           UNCHANGED <<row, issue, late, object>>,
           k.pc # "delete",
           k.pc = "head" \/ k.pc = "get" => k.target = "NONE",
           k.pc = "decide" => k.target # "NONE",
           k.pc = "get" \/ (k.pc = "decide" /\ k.target = "READY") =>
             /\ k.target = "READY" => k.etag \in Valid
             /\ row[k.upload].status = "UPLOADING" =>
                  k.etag \in Files /\ object[k.upload] = k.etag
    PROVE  UploadInv'
  <1>1. UploadTypeOK'
    BY DEF UploadInv, UploadTypeOK
  <1>2. \A d \in Calls : call'[d] = IF d = c THEN k ELSE call[d]
    BY DEF UploadInv, UploadTypeOK
  <1>3. CallsHaveRows'
    BY <1>2 DEF UploadInv, CallsHaveRows
  <1>4. VerdictComesLast' /\ SeenFileStays'
    BY <1>2 DEF UploadInv, VerdictComesLast, SeenFileStays, At
  <1>5. OnlyRefusedAreDeleted' /\ VerifiedFileStays'
    BY <1>2 DEF UploadInv, OnlyRefusedAreDeleted, VerifiedFileStays, At
  <1> QED
    BY <1>1, <1>3, <1>4, <1>5 DEF UploadInv

LEMMA HeadStep ==
    ASSUME UploadInv, NEW c \in Calls, HeadObject(c)
    PROVE  UploadInv'
  <1> DEFINE i == call[c].upload
             f == object[i]
  <1>1. call[c] \in Running /\ call[c] # Idle /\ i \in Uploads
    BY CallFields DEF HeadObject, At, Idle, UploadInv, UploadTypeOK
  <1>2. f \in Files
    BY <1>1 DEF HeadObject, UploadInv, UploadTypeOK
  <1>3. CASE call' = [call EXCEPT ![c].pc = "get", ![c].etag = f]
    <2> DEFINE k == [call[c] EXCEPT !.pc = "get", !.etag = f]
    <2>1. k \in Running /\ k.upload = i /\ k.pc = "get" /\ k.etag = f
          /\ k.target = "NONE"
      BY <1>1, <1>2 DEF Running, HeadObject, UploadInv, VerdictComesLast
    <2>2. call' = [call EXCEPT ![c] = k]
      BY <1>3
    <2> HIDE DEF k
    <2> QED
      BY <1>1, <1>2, <2>1, <2>2, CallGoesOn DEF HeadObject
  <1>4. CASE call' = [call EXCEPT ![c].pc = "decide", ![c].target = "REJECTED"]
    <2> DEFINE k == [call[c] EXCEPT !.pc = "decide", !.target = "REJECTED"]
    <2>1. k \in Running /\ k.upload = i /\ k.pc = "decide" /\ k.target = "REJECTED"
      BY <1>1 DEF Running
    <2>2. call' = [call EXCEPT ![c] = k]
      BY <1>4
    <2> HIDE DEF k
    <2> QED
      BY <1>1, <2>1, <2>2, CallGoesOn DEF HeadObject
  <1> QED
    BY <1>3, <1>4 DEF HeadObject

LEMMA GetStep ==
    ASSUME UploadInv, NEW c \in Calls, GetObject(c)
    PROVE  UploadInv'
  <1> DEFINE i == call[c].upload
  <1>1. call[c] \in Running /\ call[c] # Idle
    BY CallFields DEF GetObject, At, Idle, UploadInv, UploadTypeOK
  <1>2. PICK broken \in BOOLEAN :
          call' = [call EXCEPT ![c].pc = "decide",
                               ![c].target = Verdict(call[c].etag, broken)]
    BY DEF GetObject
  <1> DEFINE k == [call[c] EXCEPT !.pc = "decide",
                                  !.target = Verdict(call[c].etag, broken)]
  <1>3. k \in Running /\ k.upload = i /\ k.pc = "decide" /\ k.etag = call[c].etag
        /\ k.target # "NONE" /\ (k.target = "READY" => k.etag \in Valid)
    BY <1>1 DEF Running, Verdict
  <1>4. call' = [call EXCEPT ![c] = k]
    BY <1>2
  <1>5. row[i].status = "UPLOADING" => call[c].etag \in Files /\ object[i] = call[c].etag
    BY DEF GetObject, UploadInv, SeenFileStays
  <1> HIDE DEF k
  <1> QED
    BY <1>1, <1>3, <1>4, <1>5, CallGoesOn DEF GetObject

\* A call that ends disturbs nobody.
LEMMA CallEnds ==
    ASSUME UploadInv, NEW c \in Calls,
           call' = [call EXCEPT ![c] = Idle],
           UNCHANGED <<row, issue, late, object>>
    PROVE  UploadInv'
  <1>1. UploadTypeOK'
    BY DEF UploadInv, UploadTypeOK
  <1>2. \A d \in Calls : call'[d] = IF d = c THEN Idle ELSE call[d]
    BY DEF UploadInv, UploadTypeOK
  <1>3. CallsHaveRows' /\ VerdictComesLast' /\ SeenFileStays'
    BY <1>2 DEF UploadInv, CallsHaveRows, VerdictComesLast, SeenFileStays, At, Idle
  <1>4. OnlyRefusedAreDeleted' /\ VerifiedFileStays'
    BY <1>2 DEF UploadInv, OnlyRefusedAreDeleted, VerifiedFileStays, At, Idle
  <1> QED
    BY <1>1, <1>3, <1>4 DEF UploadInv

-----------------------------------------------------------------------------
(* The deciding transaction and the clean-up.                              *)

LEMMA DecideStep ==
    ASSUME UploadInv, NEW c \in Calls, Decide(c)
    PROVE  UploadInv'
  <1> DEFINE i == call[c].upload
             r == [row[i] EXCEPT !.status = Target(c),
                     !.etag = IF Target(c) = "READY" THEN call[c].etag ELSE NoFile]
             k == IF Target(c) = "READY" THEN Idle ELSE [call[c] EXCEPT !.pc = "delete"]
  <1>1. call[c] \in Running /\ i \in Uploads /\ row[i].status = "UPLOADING"
    BY CallFields DEF Decide, Deciding, Undecided, At, Idle, UploadInv, UploadTypeOK
  <1>2. row[i] \in [by : Users, status : Statuses, etag : Files \cup {NoFile},
                    issue : Issues \cup {NoIssue}]
    BY <1>1 DEF UploadInv, UploadTypeOK, Attachment, NoRow
  <1>3. /\ Target(c) \in {"READY", "REJECTED", "EXPIRED"}
        /\ Target(c) = "READY" => call[c].target = "READY"
    BY <1>1 DEF Target, Decide, Deciding, UploadInv, VerdictComesLast, Running
  <1>4. Target(c) = "READY" =>
          call[c].etag \in Valid /\ call[c].etag \in Files /\ object[i] = call[c].etag
    BY <1>1, <1>3 DEF Decide, Deciding, UploadInv, SeenFileStays
  <1>5. /\ r \in Attachment /\ r.status = Target(c)
        /\ Target(c) = "READY" => r.etag = call[c].etag
    BY <1>2, <1>3, <1>4 DEF Attachment, Statuses
  <1>6. /\ k \in {Idle} \cup Running
        /\ k # Idle => k.pc = "delete" /\ k.upload = i /\ Target(c) # "READY"
        /\ k = Idle => Target(c) = "READY"
    BY <1>1 DEF Running, Idle
  <1>7. row' = [row EXCEPT ![i] = r] /\ call' = [call EXCEPT ![c] = k]
        /\ UNCHANGED <<issue, late, object>>
    BY DEF Decide
  <1> HIDE DEF r, k
  <1>8. UploadTypeOK'
    BY <1>5, <1>6, <1>7 DEF UploadInv, UploadTypeOK
  <1>9. /\ \A j \in Uploads : row'[j] = IF j = i THEN r ELSE row[j]
        /\ \A d \in Calls : call'[d] = IF d = c THEN k ELSE call[d]
        /\ \A d \in Calls : call[d] # Idle => call[d].upload \in Uploads
    BY <1>7, CallFields DEF UploadInv, UploadTypeOK
  <1>10. CallsHaveRows'
    BY <1>1, <1>3, <1>5, <1>6, <1>9 DEF UploadInv, CallsHaveRows
  <1>11. VerdictComesLast'
    BY <1>6, <1>9 DEF UploadInv, VerdictComesLast, At, Idle
  <1>12. SeenFileStays'
    BY <1>3, <1>5, <1>6, <1>7, <1>9 DEF UploadInv, SeenFileStays, At, Idle
  <1>13. OnlyRefusedAreDeleted'
    BY <1>1, <1>3, <1>5, <1>6, <1>9 DEF UploadInv, OnlyRefusedAreDeleted, At, Idle
  <1>14. VerifiedFileStays'
    BY <1>3, <1>4, <1>5, <1>7, <1>9 DEF UploadInv, VerifiedFileStays
  <1> QED
    BY <1>8, <1>10, <1>11, <1>12, <1>13, <1>14 DEF UploadInv

LEMMA DeleteStep ==
    ASSUME UploadInv, NEW c \in Calls, DeleteObject(c)
    PROVE  UploadInv'
  <1> DEFINE i == call[c].upload
  <1>1. i \in Uploads /\ row[i].status \in {"REJECTED", "EXPIRED"}
    BY CallFields DEF DeleteObject, At, Idle, UploadInv, UploadTypeOK, OnlyRefusedAreDeleted
  <1>2. /\ \A j \in Uploads : object'[j] = IF j = i THEN NoFile ELSE object[j]
        /\ \A d \in Calls : call'[d] = IF d = c THEN Idle ELSE call[d]
        /\ \A d \in Calls : call[d] # Idle => call[d].upload \in Uploads
        /\ UNCHANGED <<row, issue, late>>
    BY CallFields DEF DeleteObject, UploadInv, UploadTypeOK
  <1>3. UploadTypeOK'
    BY DEF DeleteObject, UploadInv, UploadTypeOK
  <1> HIDE DEF i
  <1>4. CallsHaveRows' /\ VerdictComesLast' /\ OnlyRefusedAreDeleted'
    BY <1>2 DEF UploadInv, CallsHaveRows, VerdictComesLast, OnlyRefusedAreDeleted, At, Idle
  <1>5. SeenFileStays'
    BY <1>1, <1>2 DEF UploadInv, SeenFileStays, At, Idle
  <1>6. VerifiedFileStays'
    BY <1>1, <1>2 DEF UploadInv, VerifiedFileStays
  <1> QED
    BY <1>3, <1>4, <1>5, <1>6 DEF UploadInv

-----------------------------------------------------------------------------
(* Clients, the clock and CreateIssue.                                     *)

LEMMA CreateStep ==
    ASSUME UploadInv, NEW u \in Users, NEW i \in Uploads, CreateUpload(u, i)
    PROVE  UploadInv'
  <1> DEFINE r == [by |-> u, status |-> "UPLOADING", etag |-> NoFile, issue |-> NoIssue]
  <1>1. r \in Attachment /\ r.status = "UPLOADING"
    BY DEF Attachment, Statuses
  <1>2. row' = [row EXCEPT ![i] = r] /\ row[i].status = "NONE"
        /\ UNCHANGED <<issue, late, object, call>>
    BY DEF CreateUpload, NoRow
  <1> HIDE DEF r
  <1>3. /\ \A j \in Uploads : row'[j] = IF j = i THEN r ELSE row[j]
        /\ \A d \in Calls : call[d] # Idle => call[d].upload \in Uploads \ {i}
    BY <1>2, CallFields DEF UploadInv, UploadTypeOK, CallsHaveRows
  <1>4. UploadTypeOK'
    BY <1>1, <1>2 DEF UploadInv, UploadTypeOK
  <1>5. CallsHaveRows' /\ VerdictComesLast' /\ SeenFileStays' /\ OnlyRefusedAreDeleted'
    BY <1>2, <1>3 DEF UploadInv, CallsHaveRows, VerdictComesLast, SeenFileStays,
       OnlyRefusedAreDeleted, At, Idle
  <1>6. VerifiedFileStays'
    BY <1>1, <1>2, <1>3 DEF UploadInv, VerifiedFileStays
  <1> QED
    BY <1>4, <1>5, <1>6 DEF UploadInv

\* A URL cannot touch an object that is there, so nothing a call has seen, and
\* nothing that was verified, is replaced.
LEMMA PutStep ==
    ASSUME UploadInv, NEW i \in Uploads, NEW f \in Files, Put(i, f)
    PROVE  UploadInv'
  <1>1. /\ \A j \in Uploads : object'[j] = IF j = i THEN f ELSE object[j]
        /\ object[i] = NoFile
        /\ UNCHANGED <<row, issue, late, call>>
    BY DEF Put, UploadInv, UploadTypeOK
  <1>2. UploadTypeOK'
    BY DEF Put, UploadInv, UploadTypeOK
  <1>3. CallsHaveRows' /\ VerdictComesLast' /\ OnlyRefusedAreDeleted'
    BY <1>1 DEF UploadInv, CallsHaveRows, VerdictComesLast, OnlyRefusedAreDeleted, At
  <1>4. \A d \in Calls : call[d] # Idle => call[d].upload \in Uploads
    BY CallFields DEF UploadInv, UploadTypeOK
  <1>5. SeenFileStays'
    BY <1>1, <1>4, NoFileAssumption DEF UploadInv, SeenFileStays, At, Idle
  <1>6. VerifiedFileStays'
    BY <1>1, NoFileAssumption, ValidAssumption DEF UploadInv, VerifiedFileStays
  <1> QED
    BY <1>2, <1>3, <1>5, <1>6 DEF UploadInv

LEMMA DeadlineStep ==
    ASSUME UploadInv, NEW i \in Uploads, DeadlinePasses(i)
    PROVE  UploadInv'
  BY DEF DeadlinePasses, UploadInv, UploadTypeOK, CallsHaveRows, VerdictComesLast,
     SeenFileStays, OnlyRefusedAreDeleted, VerifiedFileStays, At

LEMMA IssueStep ==
    ASSUME UploadInv, NEW u \in Users, NEW n \in Issues, NEW S \in SUBSET Uploads,
           CreateIssue(u, n, S)
    PROVE  UploadInv'
  <1>1. \A i \in Uploads :
          row'[i] = IF i \in S THEN [row[i] EXCEPT !.status = "ATTACHED", !.issue = n]
                              ELSE row[i]
    BY DEF CreateIssue
  <1>2. \A i \in S : i \in Uploads /\ row[i].status = "READY"
    BY DEF CreateIssue, FreePhoto
  <1>3. \A i \in S : /\ row'[i] \in Attachment
                     /\ row'[i].status = "ATTACHED" /\ row'[i].etag = row[i].etag
    <2> SUFFICES ASSUME NEW i \in S
                 PROVE  /\ row'[i] \in Attachment
                        /\ row'[i].status = "ATTACHED" /\ row'[i].etag = row[i].etag
      OBVIOUS
    <2>1. row[i] \in [by : Users, status : Statuses, etag : Files \cup {NoFile},
                      issue : Issues \cup {NoIssue}]
      BY <1>2 DEF UploadInv, UploadTypeOK, Attachment, NoRow
    <2>2. row'[i] = [row[i] EXCEPT !.status = "ATTACHED", !.issue = n]
      BY <1>1, <1>2
    <2> QED
      BY <2>1, <2>2 DEF Attachment, Statuses
  <1>4. \A i \in Uploads \ S : row'[i] = row[i]
    BY <1>1
  <1>5. UNCHANGED <<late, object, call>>
    BY DEF CreateIssue
  <1>6. UploadTypeOK'
    <2>1. row' \in [Uploads -> Attachment]
      <3>1. \A i \in Uploads : row'[i] \in Attachment
        BY <1>3, <1>4 DEF UploadInv, UploadTypeOK
      <3>2. row' = [i \in Uploads |-> row'[i]]
        BY DEF CreateIssue
      <3> QED
        BY <3>1, <3>2
    <2> QED
      BY <2>1, <1>5 DEF CreateIssue, UploadInv, UploadTypeOK
  <1>7. \A d \in Calls : call[d] # Idle => call[d].upload \in Uploads
    BY CallFields DEF UploadInv, UploadTypeOK
  <1>8. CallsHaveRows' /\ VerdictComesLast'
    BY <1>3, <1>4, <1>5, <1>7 DEF UploadInv, CallsHaveRows, VerdictComesLast, At
  <1>9. SeenFileStays'
    BY <1>3, <1>4, <1>5, <1>7 DEF UploadInv, SeenFileStays, At, Idle
  <1>10. OnlyRefusedAreDeleted'
    BY <1>2, <1>4, <1>5, <1>7 DEF UploadInv, OnlyRefusedAreDeleted, At, Idle
  <1>11. VerifiedFileStays'
    BY <1>2, <1>3, <1>4, <1>5 DEF UploadInv, VerifiedFileStays
  <1> QED
    BY <1>6, <1>8, <1>9, <1>10, <1>11 DEF UploadInv

-----------------------------------------------------------------------------
LEMMA UploadInductive == UploadInv /\ [UploadNext]_uploadVars => UploadInv'
  <1> SUFFICES ASSUME UploadInv, [UploadNext]_uploadVars
               PROVE  UploadInv'
    OBVIOUS
  <1>1. CASE \E u \in Users, i \in Uploads : CreateUpload(u, i)
    BY <1>1, CreateStep
  <1>2. CASE \E i \in Uploads, f \in Files : Put(i, f)
    BY <1>2, PutStep
  <1>3. CASE \E i \in Uploads : DeadlinePasses(i)
    BY <1>3, DeadlineStep
  <1>4. CASE \E c \in Calls, u \in Users, i \in Uploads : BeginComplete(c, u, i)
    BY <1>4, BeginStep
  <1>5. CASE \E c \in Calls : \/ HeadObject(c)
                              \/ GetObject(c)
                              \/ Decide(c)
                              \/ DeleteObject(c)
                              \/ Abandon(c)
    <2>1. ASSUME NEW c \in Calls, Abandon(c)
          PROVE  UploadInv'
      BY <2>1, CallEnds DEF Abandon
    <2> QED
      BY <1>5, <2>1, HeadStep, GetStep, DecideStep, DeleteStep
  <1>6. CASE \E u \in Users, n \in Issues, S \in SUBSET Uploads : CreateIssue(u, n, S)
    BY <1>6, IssueStep
  <1>7. CASE UNCHANGED uploadVars
    BY <1>7 DEF uploadVars, UploadInv, UploadTypeOK, CallsHaveRows, VerdictComesLast,
       SeenFileStays, OnlyRefusedAreDeleted, VerifiedFileStays, At
  <1> QED
    BY <1>1, <1>2, <1>3, <1>4, <1>5, <1>6, <1>7 DEF UploadNext

\* Attachments, objects and calls keep their types.
THEOREM UploadTypeCorrect == UploadSpec => []UploadTypeOK
  <1>1. UploadInv => UploadTypeOK
    BY DEF UploadInv
  <1> QED
    BY <1>1, InitUpload, UploadInductive, PTL DEF UploadSpec

\* A verified photo stays in the bucket as it was verified, however many calls
\* of CompleteUpload, crashes and old URLs there are.
THEOREM VerifiedPhotoStays == UploadSpec => []VerifiedFileStays
  <1>1. UploadInv => VerifiedFileStays
    BY DEF UploadInv
  <1> QED
    BY <1>1, InitUpload, UploadInductive, PTL DEF UploadSpec

\* CompleteUpload deletes objects of refused attachments only.
THEOREM DeletesRefusedOnly == UploadSpec => []OnlyRefusedAreDeleted
  <1>1. UploadInv => OnlyRefusedAreDeleted
    BY DEF UploadInv
  <1> QED
    BY <1>1, InitUpload, UploadInductive, PTL DEF UploadSpec

-----------------------------------------------------------------------------
(* Rows change in three ways: an unused one is filled, an undecided one is *)
(* decided, READY ones are attached to a new issue.                        *)

Filled(i) == row[i] = NoRow /\ row'[i].status = "UPLOADING" /\ row'[i].issue = NoIssue

Decided(i) ==
    /\ row[i].status = "UPLOADING"
    /\ row'[i].status \in {"READY", "REJECTED", "EXPIRED"}
    /\ row'[i].issue = row[i].issue
    /\ row'[i].status = "READY" => i \notin late

RowMoves(i) ==
    /\ Filled(i) \/ Decided(i)
    /\ \A j \in Uploads \ {i} : row'[j] = row[j]
    /\ issue' = issue

Attached(u, n, S) ==
    /\ S # {} /\ issue[n] = NoUser
    /\ issue' = [issue EXCEPT ![n] = u]
    /\ \A i \in S : /\ FreePhoto(u, i)
                    /\ row'[i] = [row[i] EXCEPT !.status = "ATTACHED", !.issue = n]
    /\ \A i \in Uploads \ S : row'[i] = row[i]

RowStep ==
    \/ UNCHANGED <<row, issue>>
    \/ \E i \in Uploads : RowMoves(i)
    \/ \E u \in Users, n \in Issues, S \in SUBSET Uploads : Attached(u, n, S)

LEMMA DecideMoves ==
    ASSUME UploadInv, NEW c \in Calls, Decide(c)
    PROVE  \E i \in Uploads : RowMoves(i)
  <1>1. call[c] \in Running
    BY DEF Decide, Deciding, At, UploadInv, UploadTypeOK, Idle
  <1>2. PICK i \in Uploads : call[c].upload = i
    BY <1>1 DEF Running
  <1>3. Target(c) \in {"READY", "REJECTED", "EXPIRED"}
    BY <1>1 DEF Target, Running, UploadInv, VerdictComesLast, Decide, Deciding
  <1>4. Target(c) = "READY" => i \notin late
    BY <1>2 DEF Target
  <1>5. PICK e : row' = [row EXCEPT ![i].status = Target(c), ![i].etag = e]
    BY <1>2 DEF Decide
  <1>6. row[i].status = "UPLOADING" /\ issue' = issue
    BY <1>2 DEF Decide, Undecided
  <1>7. row[i] \in [by : Users, status : Statuses, etag : Files \cup {NoFile},
                    issue : Issues \cup {NoIssue}]
    BY <1>6 DEF UploadInv, UploadTypeOK, Attachment, NoRow
  <1>8. /\ row'[i] = [[row[i] EXCEPT !.status = Target(c)] EXCEPT !.etag = e]
        /\ \A j \in Uploads \ {i} : row'[j] = row[j]
    BY <1>5 DEF UploadInv, UploadTypeOK
  <1>9. row'[i].status = Target(c) /\ row'[i].issue = row[i].issue
    BY <1>7, <1>8
  <1> QED
    BY <1>3, <1>4, <1>6, <1>8, <1>9 DEF RowMoves, Decided

LEMMA RowSteps == UploadInv /\ [UploadNext]_uploadVars => RowStep
  <1> SUFFICES ASSUME UploadInv, [UploadNext]_uploadVars PROVE RowStep
    OBVIOUS
  <1>1. ASSUME NEW u \in Users, NEW i \in Uploads, CreateUpload(u, i) PROVE RowMoves(i)
    BY <1>1 DEF CreateUpload, UploadInv, UploadTypeOK, RowMoves, Filled
  <1>2. ASSUME NEW u \in Users, NEW n \in Issues, NEW S \in SUBSET Uploads,
               CreateIssue(u, n, S)
        PROVE  Attached(u, n, S)
    BY <1>2 DEF CreateIssue, Attached
  <1>3. ASSUME UNCHANGED <<row, issue>> PROVE RowStep
    BY <1>3 DEF RowStep
  <1>4. ASSUME NEW c \in Calls, Decide(c) PROVE RowStep
    BY <1>4, DecideMoves DEF RowStep
  <1>5. CASE \E u \in Users, i \in Uploads : CreateUpload(u, i)
    BY <1>1, <1>5 DEF RowStep
  <1>6. CASE \E u \in Users, n \in Issues, S \in SUBSET Uploads : CreateIssue(u, n, S)
    BY <1>2, <1>6 DEF RowStep
  <1> QED
    BY <1>3, <1>4, <1>5, <1>6 DEF UploadNext, uploadVars, Put, DeadlinePasses, BeginComplete,
       HeadObject, GetObject, DeleteObject, Abandon

LEMMA OwnPhotosInductive ==
    UploadInv /\ IssueHasOwnPhotos /\ [UploadNext]_uploadVars => IssueHasOwnPhotos'
  <1> SUFFICES ASSUME UploadInv, IssueHasOwnPhotos, [UploadNext]_uploadVars
               PROVE  IssueHasOwnPhotos'
    OBVIOUS
  <1>1. CASE UNCHANGED <<row, issue>>
    BY <1>1 DEF IssueHasOwnPhotos
  <1>2. ASSUME NEW i \in Uploads, RowMoves(i) PROVE IssueHasOwnPhotos'
    <2>1. /\ row[i].status # "ATTACHED" /\ row[i].issue = NoIssue
          /\ row'[i].status # "ATTACHED" /\ row'[i].issue = NoIssue
      BY <1>2 DEF RowMoves, Filled, Decided, NoRow, IssueHasOwnPhotos
    <2>2. \A n \in Issues : n # NoIssue
      BY NullsAssumption
    <2> QED
      BY <1>2, <2>1, <2>2 DEF RowMoves, IssueHasOwnPhotos
  <1>3. ASSUME NEW u \in Users, NEW n \in Issues, NEW S \in SUBSET Uploads, Attached(u, n, S)
        PROVE  IssueHasOwnPhotos'
    <2>1. \A i \in S : /\ row'[i].status = "ATTACHED" /\ row'[i].issue = n
                       /\ row'[i].by = u /\ row[i].issue = NoIssue
      <3> SUFFICES ASSUME NEW i \in S
                   PROVE  /\ row'[i].status = "ATTACHED" /\ row'[i].issue = n
                          /\ row'[i].by = u /\ row[i].issue = NoIssue
        OBVIOUS
      <3>1. row[i].by = u /\ row[i].issue = NoIssue /\ row[i].status = "READY"
        BY <1>3 DEF Attached, FreePhoto
      <3>2. row[i] \in [by : Users, status : Statuses, etag : Files \cup {NoFile},
                        issue : Issues \cup {NoIssue}]
        BY <3>1 DEF UploadInv, UploadTypeOK, Attachment, NoRow
      <3>3. row'[i] = [row[i] EXCEPT !.status = "ATTACHED", !.issue = n]
        BY <1>3 DEF Attached
      <3> QED
        BY <3>1, <3>2, <3>3
    <2>2. /\ issue'[n] = u /\ \A m \in Issues \ {n} : issue'[m] = issue[m]
      BY <1>3 DEF Attached, UploadInv, UploadTypeOK
    <2>3. ASSUME NEW m \in Issues, issue'[m] # NoUser
          PROVE  \E i \in Uploads : row'[i].issue = m
      <3>1. CASE m = n
        BY <1>3, <2>1, <3>1 DEF Attached
      <3>2. CASE m # n
        <4>1. PICK i \in Uploads : row[i].issue = m
          BY <2>2, <2>3, <3>2 DEF IssueHasOwnPhotos
        <4>2. i \notin S
          BY <2>1, <4>1, NullsAssumption
        <4> QED
          BY <1>3, <4>1, <4>2 DEF Attached
      <3> QED
        BY <3>1, <3>2
    <2>4. ASSUME NEW i \in Uploads
          PROVE  /\ (row'[i].status = "ATTACHED") = (row'[i].issue # NoIssue)
                 /\ row'[i].issue # NoIssue => issue'[row'[i].issue] = row'[i].by
      <3>1. CASE i \in S
        BY <2>1, <2>2, <3>1, NullsAssumption
      <3>2. CASE i \notin S
        <4>1. row'[i] = row[i]
          BY <1>3, <3>2 DEF Attached
        <4>2. /\ (row[i].status = "ATTACHED") = (row[i].issue # NoIssue)
              /\ row[i].issue # NoIssue => issue[row[i].issue] = row[i].by
          BY DEF IssueHasOwnPhotos
        <4>3. row[i].issue # NoIssue => row[i].by \in Users /\ row[i].issue \in Issues
          BY DEF UploadInv, UploadTypeOK, Attachment, NoRow
        <4>4. row[i].issue # NoIssue => row[i].issue # n
          BY <1>3, <4>2, <4>3, NullsAssumption DEF Attached
        <4> QED
          BY <2>2, <4>1, <4>2, <4>3, <4>4
      <3> QED
        BY <3>1, <3>2
    <2> QED
      BY <2>3, <2>4 DEF IssueHasOwnPhotos
  <1> QED
    BY <1>1, <1>2, <1>3, RowSteps DEF RowStep

\* Every issue has photos of its creator, and no photo is in two issues.
THEOREM PhotosHaveOneIssue == UploadSpec => []IssueHasOwnPhotos
  <1>1. UploadInit => IssueHasOwnPhotos
    BY DEF UploadInit, IssueHasOwnPhotos, NoRow
  <1> QED
    BY <1>1, InitUpload, UploadInductive, OwnPhotosInductive, PTL DEF UploadSpec

\* The decision about a photo is final, and is not READY after the deadline.
THEOREM DecidedOnce == UploadSpec => PhotoIsDecidedOnce
  <1> DEFINE Once(i) ==
        /\ row[i].status \notin {"NONE", "UPLOADING"} =>
             \/ row'[i] = row[i]
             \/ /\ row[i].status = "READY" /\ row'[i].status = "ATTACHED"
                /\ row'[i].etag = row[i].etag /\ row'[i].by = row[i].by
        /\ row[i].status = "UPLOADING" /\ row'[i].status = "READY" => i \notin late
  <1>1. ASSUME UploadInv, [UploadNext]_uploadVars, NEW i \in Uploads PROVE Once(i)
    <2>1. CASE UNCHANGED <<row, issue>>
      BY <2>1
    <2>2. ASSUME NEW j \in Uploads, RowMoves(j) PROVE Once(i)
      BY <2>2 DEF RowMoves, Filled, Decided, NoRow
    <2>3. ASSUME NEW u \in Users, NEW n \in Issues, NEW S \in SUBSET Uploads,
                 Attached(u, n, S)
          PROVE  Once(i)
      <3>1. CASE i \in S
        <4>1. row[i].status = "READY" /\ row'[i] = [row[i] EXCEPT !.status = "ATTACHED", !.issue = n]
          BY <2>3, <3>1 DEF Attached, FreePhoto
        <4>2. row[i] \in [by : Users, status : Statuses, etag : Files \cup {NoFile},
                          issue : Issues \cup {NoIssue}]
          BY <1>1, <4>1 DEF UploadInv, UploadTypeOK, Attachment, NoRow
        <4> QED
          BY <4>1, <4>2
      <3>2. CASE i \notin S
        BY <2>3, <3>2 DEF Attached
      <3> QED
        BY <3>1, <3>2
    <2> QED
      BY <1>1, <2>1, <2>2, <2>3, RowSteps DEF RowStep
  <1>2. UploadInv /\ [UploadNext]_uploadVars =>
          [\A i \in Uploads : Once(i)]_uploadVars
    BY <1>1
  <1> QED
    BY <1>2, InitUpload, UploadInductive, PTL DEF UploadSpec, PhotoIsDecidedOnce
=============================================================================

--------------------------- MODULE AttachmentUpload ---------------------------
(***************************************************************************)
(* Photos of issue-service: a client reserves an attachment, puts the file *)
(* into the bucket with a presigned URL, asks the service to verify it,    *)
(* and files an issue with the verified photos.                            *)
(*                                                                         *)
(* CompleteUpload holds no lock while it talks to the bucket, so any       *)
(* number of calls for one attachment interleave between its steps: the    *)
(* snapshot, HEAD, GET, the deciding transaction and the clean-up.  A call *)
(* may stop after any step (crash, cancelled request, bucket or database   *)
(* failure, lost answer of a commit).                                      *)
(*                                                                         *)
(* Files stand for contents, told apart by their ETags.  Object key, MIME  *)
(* type, size and deadline are fixed when the row is inserted and have no  *)
(* update, so comparing them again in the transaction always succeeds.     *)
(***************************************************************************)
CONSTANTS
    Users, Uploads,     \* actors, ids of attachments
    Issues,             \* ids of issues
    Calls,              \* CompleteUpload calls that run at the same time
    Files, Valid,       \* contents, and those that pass the verification
    NoUser, NoUpload, NoIssue, NoFile

ASSUME ValidAssumption == Valid \subseteq Files
ASSUME NoFileAssumption == NoFile \notin Files
ASSUME NullsAssumption == NoUser \notin Users /\ NoIssue \notin Issues

VARIABLES
    row,        \* attachments
    issue,      \* issues: who created one
    late,       \* attachments whose upload_expires_at has passed
    object,     \* the bucket: content under the key of an attachment
    call        \* CompleteUpload calls

uploadVars == <<row, issue, late, object, call>>

Statuses == {"UPLOADING", "READY", "ATTACHED", "REJECTED", "EXPIRED"}
NoRow == [by |-> NoUser, status |-> "NONE", etag |-> NoFile, issue |-> NoIssue]
Attachment == {NoRow} \cup
    [by : Users, status : Statuses, etag : Files \cup {NoFile},
     issue : Issues \cup {NoIssue}]

Idle == [pc |-> "idle", upload |-> NoUpload, etag |-> NoFile, target |-> "NONE"]
Running == [pc : {"head", "get", "decide", "delete"}, upload : Uploads,
            etag : Files \cup {NoFile}, target : {"NONE", "READY", "REJECTED", "EXPIRED"}]

At(c, pc) == call[c].pc = pc

-----------------------------------------------------------------------------
\* The row and a presigned URL for its key.
CreateUpload(u, i) ==
    /\ row[i] = NoRow
    /\ row' = [row EXCEPT ![i] = [by |-> u, status |-> "UPLOADING",
                                  etag |-> NoFile, issue |-> NoIssue]]
    /\ UNCHANGED <<issue, late, object, call>>

\* Fault: the URL is signed without If-None-Match.
PutOverwriting(i, f) ==
    /\ row[i] # NoRow
    /\ object' = [object EXCEPT ![i] = f]
    /\ UNCHANGED <<row, issue, late, call>>

\* The bucket takes a PUT while the key has no object (If-None-Match: *).  The
\* URL is signed after the deadline was computed and a PUT takes its time, so
\* the deadline does not bound it.
Put(i, f) ==
    /\ row[i] # NoRow
    /\ object[i] = NoFile
    /\ object' = [object EXCEPT ![i] = f]
    /\ UNCHANGED <<row, issue, late, call>>

DeadlinePasses(i) ==
    /\ row[i] # NoRow
    /\ late' = late \cup {i}
    /\ UNCHANGED <<row, issue, object, call>>

-----------------------------------------------------------------------------
(* CompleteUpload.                                                         *)

\* The unlocked snapshot of the uploader's row; a READY one is returned, any
\* other status is refused.
BeginComplete(c, u, i) ==
    /\ call[c] = Idle
    /\ row[i].by = u
    /\ row[i].status = "UPLOADING"
    /\ call' = [call EXCEPT ![c] =
                  IF i \in late
                  THEN [pc |-> "decide", upload |-> i, etag |-> NoFile, target |-> "EXPIRED"]
                  ELSE [pc |-> "head", upload |-> i, etag |-> NoFile, target |-> "NONE"]]
    /\ UNCHANGED <<row, issue, late, object>>

\* HEAD: a wrong size or type is rejected at once; a missing object ends the
\* call (Abandon).
HeadObject(c) ==
    LET f == object[call[c].upload] IN
    /\ At(c, "head")
    /\ f # NoFile
    /\ \/ call' = [call EXCEPT ![c].pc = "get", ![c].etag = f]
       \/ f \notin Valid /\ call' = [call EXCEPT ![c].pc = "decide", ![c].target = "REJECTED"]
    /\ UNCHANGED <<row, issue, late, object>>

\* Fault: the target of a verified file is never set.
VerdictOfErrorsOnly(f, broken) == IF f \in Valid /\ ~broken THEN "NONE" ELSE "REJECTED"

Verdict(f, broken) == IF f \in Valid /\ ~broken THEN "READY" ELSE "REJECTED"

\* GET with If-Match, and the decoding of the header.  A connection that breaks
\* in the first bytes makes image.DecodeConfig report an unknown format, which
\* is no network error any more; later on it does end the call (Abandon).
GetObject(c) ==
    /\ At(c, "get")
    /\ object[call[c].upload] = call[c].etag
    /\ \E broken \in BOOLEAN :
         call' = [call EXCEPT ![c].pc = "decide",
                              ![c].target = Verdict(call[c].etag, broken)]
    /\ UNCHANGED <<row, issue, late, object>>

Deciding(c) == At(c, "decide")

\* Fault: the transaction trusts the status of the snapshot.
UndecidedInSnapshot(i) == TRUE

\* The row is locked and read again: only an UPLOADING one is decided.
Undecided(i) == row[i].status = "UPLOADING"

\* The clock is read again as well.
Target(c) == IF call[c].upload \in late THEN "EXPIRED" ELSE call[c].target

\* Fault: the object is deleted although the transaction decided nothing.
DecideDeletingAlways(c) ==
    LET i == call[c].upload IN
    /\ Deciding(c)
    /\ row' = IF Undecided(i) THEN [row EXCEPT ![i].status = Target(c),
                  ![i].etag = IF Target(c) = "READY" THEN call[c].etag ELSE NoFile]
              ELSE row
    /\ call' = [call EXCEPT ![c] = IF call[c].target = "READY" THEN Idle
                                   ELSE [@ EXCEPT !.pc = "delete"]]
    /\ UNCHANGED <<issue, late, object>>

\* The deciding transaction.  Only the call that committed a refusal goes on to
\* delete the object.
Decide(c) ==
    LET i == call[c].upload IN
    /\ Deciding(c)
    /\ Undecided(i)
    /\ row' = [row EXCEPT ![i].status = Target(c),
                  ![i].etag = IF Target(c) = "READY" THEN call[c].etag ELSE NoFile]
    /\ call' = [call EXCEPT ![c] = IF Target(c) = "READY" THEN Idle
                                   ELSE [@ EXCEPT !.pc = "delete"]]
    /\ UNCHANGED <<issue, late, object>>

\* The best-effort clean-up after the commit.
DeleteObject(c) ==
    /\ At(c, "delete")
    /\ object' = [object EXCEPT ![call[c].upload] = NoFile]
    /\ call' = [call EXCEPT ![c] = Idle]
    /\ UNCHANGED <<row, issue, late>>

\* The call ends without its next step: the object is missing or changed, the
\* row was decided meanwhile, or anything it depends on failed.
Abandon(c) ==
    /\ call[c] # Idle
    /\ call' = [call EXCEPT ![c] = Idle]
    /\ UNCHANGED <<row, issue, late, object>>

-----------------------------------------------------------------------------
\* Fault: attachments of another user are taken.
FreePhotoOfAnybody(u, i) == row[i].status = "READY"

\* A READY attachment of the user that no issue has.
FreePhoto(u, i) == row[i].by = u /\ row[i].status = "READY" /\ row[i].issue = NoIssue

\* One transaction, the rows locked in the order of their ids.
CreateIssue(u, n, S) ==
    /\ issue[n] = NoUser
    /\ S # {}
    /\ \A i \in S : FreePhoto(u, i)
    /\ issue' = [issue EXCEPT ![n] = u]
    /\ row' = [i \in Uploads |->
                 IF i \in S THEN [row[i] EXCEPT !.status = "ATTACHED", !.issue = n]
                            ELSE row[i]]
    /\ UNCHANGED <<late, object, call>>

-----------------------------------------------------------------------------
UploadInit ==
    /\ row = [i \in Uploads |-> NoRow]
    /\ issue = [n \in Issues |-> NoUser]
    /\ late = {}
    /\ object = [i \in Uploads |-> NoFile]
    /\ call = [c \in Calls |-> Idle]

UploadNext ==
    \/ \E u \in Users, i \in Uploads : CreateUpload(u, i)
    \/ \E i \in Uploads, f \in Files : Put(i, f)
    \/ \E i \in Uploads : DeadlinePasses(i)
    \/ \E c \in Calls, u \in Users, i \in Uploads : BeginComplete(c, u, i)
    \/ \E c \in Calls : \/ HeadObject(c)
                       \/ GetObject(c)
                       \/ Decide(c)
                       \/ DeleteObject(c)
                       \/ Abandon(c)
    \/ \E u \in Users, n \in Issues, S \in SUBSET Uploads : CreateIssue(u, n, S)

UploadSpec == UploadInit /\ [][UploadNext]_uploadVars

-----------------------------------------------------------------------------
(* Safety.                                                                 *)

\* Rows, objects and calls have the types of their columns and variables.
UploadTypeOK ==
    /\ row \in [Uploads -> Attachment]
    /\ issue \in [Issues -> Users \cup {NoUser}]
    /\ late \subseteq Uploads
    /\ object \in [Uploads -> Files \cup {NoFile}]
    /\ call \in [Calls -> {Idle} \cup Running]

\* A photo that was verified stays in the bucket as it was verified, whatever
\* calls with stale answers and whatever URLs are still around: nobody replaces
\* or deletes it (services/issue-service/README.md:91-92).
VerifiedFileStays ==
    \A i \in Uploads : row[i].status \in {"READY", "ATTACHED"} =>
        /\ row[i].etag \in Valid
        /\ object[i] = row[i].etag

\* Whoever is about to delete an object does so for a refused attachment.
OnlyRefusedAreDeleted ==
    \A c \in Calls : At(c, "delete") =>
        row[call[c].upload].status \in {"REJECTED", "EXPIRED"}

\* An issue has photos, each of them its creator's, and a photo is of an issue
\* exactly when it is ATTACHED, also when two requests want the same photo.
IssueHasOwnPhotos ==
    /\ \A n \in Issues : issue[n] # NoUser =>
         \E i \in Uploads : row[i].issue = n
    /\ \A i \in Uploads :
         /\ (row[i].status = "ATTACHED") = (row[i].issue # NoIssue)
         /\ row[i].issue # NoIssue => issue[row[i].issue] = row[i].by

-----------------------------------------------------------------------------
(* What a step may never do.                                               *)

\* A decision is taken once: READY is only followed by ATTACHED, and every
\* other decision, the verified content and the issue of a photo stay.  Nothing
\* is accepted after the deadline, however long the file was read.
PhotoIsDecidedOnce ==
    [][\A i \in Uploads :
         /\ row[i].status \notin {"NONE", "UPLOADING"} =>
              \/ row'[i] = row[i]
              \/ /\ row[i].status = "READY" /\ row'[i].status = "ATTACHED"
                 /\ row'[i].etag = row[i].etag /\ row'[i].by = row[i].by
         /\ row[i].status = "UPLOADING" /\ row'[i].status = "READY" =>
              i \notin late]_uploadVars

\* A failure of the network leaves the call repeatable: a valid photo is not
\* refused before its deadline (services/issue-service/README.md:93).
ValidPhotoIsNotRefused ==
    [][\A i \in Uploads : /\ row[i].status = "UPLOADING"
                          /\ object[i] \in Valid
                          /\ i \notin late
         => row'[i].status # "REJECTED"]_uploadVars
=============================================================================

------------------------ MODULE HouseInvitationsProofs ------------------------
(***************************************************************************)
(* Proofs about the invitations of a house, for any number of users,       *)
(* houses, requests and invitations, and for every quota: what the tables  *)
(* of the invitations say, that invitations implement the workflow they    *)
(* were added to, and that the service with invitations therefore keeps    *)
(* what is proved of the workflow.                                         *)
(***************************************************************************)
EXTENDS HouseInvitations, FiniteSetTheorems, TLAPS

Granted == [house : Houses, max : 1..MaxUses, used : Nat,
            status : {"ACTIVE", "EXHAUSTED", "REVOKED"}]
Filed == [user : Users, house : Houses,
          status : {"PENDING", "APPROVED", "REJECTED", "CANCELLED"}]
Submitted == [applicant : Users, house : Houses,
              status : {"PENDING", "APPROVED", "REJECTED", "CANCELLED"}]

\* Of the tables of the workflow, those an invitation depends on.
InvitationTypeOK ==
    /\ houses \subseteq Houses
    /\ reg \in [RegIds -> {NoRegistration} \cup Submitted]
    /\ join \in [JoinIds -> {NoJoin} \cup Filed]
    /\ invite \in [InviteIds -> {NoInvite} \cup Granted]
    /\ redemption \in [InviteIds -> [Users -> JoinIds \cup {NoRequest}]]

\* An invitation is of a house that exists, and is redeemed by nobody before it
\* is made.
InvitationsName ==
    \A i \in InviteIds : IF invite[i] = NoInvite THEN Redeemers(i) = {}
                                                 ELSE invite[i].house \in houses

InvitationInv ==
    /\ InvitationTypeOK
    /\ InvitationsName
    /\ QuotaCountsUsers
    /\ RedemptionNamesOwnRequest

-----------------------------------------------------------------------------
(* What the steps of the workflow do to the tables an invitation reads.    *)

HousesStay == houses \subseteq houses' /\ houses' \subseteq Houses
Asks(u, h) == [user |-> u, house |-> h, status |-> "PENDING"]
NobodyAsks(u, h) == \A j \in JoinIds : join[j] # Asks(u, h)
Files(u, h, r) ==
    /\ join[r] = NoJoin /\ NobodyAsks(u, h)
    /\ join' = [join EXCEPT ![r] = Asks(u, h)]
Decides(r, s) ==
    /\ join[r].status = "PENDING"
    /\ join' = [join EXCEPT ![r].status = s]
JoinStep ==
    \/ join' = join
    \/ \E u \in Users, h \in Houses, r \in JoinIds : Files(u, h, r)
    \/ \E r \in JoinIds, s \in {"APPROVED", "REJECTED", "CANCELLED"} : Decides(r, s)

LEMMA TransfersAside == TransferNext => UNCHANGED <<houses, reg, join>>
  <1>1. ASSUME NEW late, NEW a, NEW i,
               \/ \E h \in Houses, u \in Users : CreateChairmanTransfer(a, h, u, i, late)
               \/ AcceptChairmanTransfer(a, i, late)
               \/ RejectChairmanTransfer(a, i, late)
               \/ CancelChairmanTransfer(a, i, late)
               \/ ListChairmanTransfers(late)
        PROVE  UNCHANGED <<houses, reg, join>>
    BY <1>1, Zenon DEF CreateChairmanTransfer, AcceptChairmanTransfer,
           RejectChairmanTransfer, CancelChairmanTransfer, ListChairmanTransfers
  <1> QED
    BY <1>1, Zenon DEF TransferNext

LEMMA JoinSteps == InvitationTypeOK /\ Next => JoinStep
  <1> SUFFICES ASSUME InvitationTypeOK, Next PROVE JoinStep
    OBVIOUS
  <1>1. ASSUME NEW a \in Users, NEW h \in Houses, NEW r \in JoinIds,
               CreateJoinRequest(a, h, r)
        PROVE  JoinStep
    <2>1. NobodyAsks(a, h)
      BY <1>1 DEF CreateJoinRequest, NobodyAsks, Asks
    <2> QED
      BY <1>1, <2>1 DEF CreateJoinRequest, JoinStep, Files, Asks
  <1>2. ASSUME NEW a \in Users, NEW r \in JoinIds, ApproveJoinRequest(a, r)
        PROVE  JoinStep
    BY <1>2 DEF ApproveJoinRequest, Open, JoinStep, Decides
  <1>3. ASSUME NEW a \in Users, NEW r \in JoinIds, RejectJoinRequest(a, r)
        PROVE  JoinStep
    BY <1>3 DEF RejectJoinRequest, Open, JoinStep, Decides
  <1>4. ASSUME NEW a \in Users, NEW r \in JoinIds, CancelJoinRequest(a, r)
        PROVE  JoinStep
    BY <1>4 DEF CancelJoinRequest, Open, JoinStep, Decides
  <1>5. CASE RegistrationNext
    BY <1>5 DEF RegistrationNext, CreateHouseRegistration, ApproveHouseRegistration,
           RejectHouseRegistration, CancelHouseRegistration, JoinStep
  <1>6. CASE TransferNext
    BY <1>6, TransfersAside DEF JoinStep
  <1>7. CASE MembersNext
    BY <1>7 DEF MembersNext, DeactivateMembership, ReactivateMembership,
           RemoveMembership, JoinStep
  <1>8. CASE AdministrationNext
    BY <1>8 DEF AdministrationNext, GrantChairmanPermission, RevokeChairmanPermission,
           AssignHouseChairman, RemoveHouseChairman, JoinStep
  <1>9. CASE Replay
    BY <1>9 DEF Replay, tables, JoinStep
  <1> QED
    BY <1>1, <1>2, <1>3, <1>4, <1>5, <1>6, <1>7, <1>8, <1>9 DEF Next, JoinNext

\* Deciding a registration keeps its house and its applicant.
LEMMA SubmittedStatus ==
    ASSUME NEW row \in {NoRegistration} \cup Submitted, row.status = "PENDING",
           NEW s \in {"APPROVED", "REJECTED", "CANCELLED"}
    PROVE  row \in Submitted /\ [row EXCEPT !.status = s] \in Submitted
  <1>1. row \in Submitted
    BY DEF NoRegistration
  <1> QED
    BY <1>1 DEF Submitted

LEMMA HouseSteps ==
    InvitationTypeOK /\ Next =>
        HousesStay /\ reg' \in [RegIds -> {NoRegistration} \cup Submitted]
  <1> DEFINE RegOK == reg \in [RegIds -> {NoRegistration} \cup Submitted]
  <1> SUFFICES ASSUME InvitationTypeOK, Next PROVE HousesStay /\ RegOK'
    OBVIOUS
  <1>1. RegOK /\ houses \subseteq Houses
    BY DEF InvitationTypeOK
  <1>2. ASSUME UNCHANGED <<houses, reg>> PROVE HousesStay /\ RegOK'
    BY <1>1, <1>2 DEF HousesStay
  <1>3. ASSUME NEW a \in Users, NEW i \in RegIds, NEW h \in Houses,
               CreateHouseRegistration(a, h, i)
        PROVE  HousesStay /\ RegOK'
    <2>1. [applicant |-> a, house |-> h, status |-> "PENDING"] \in Submitted
      BY DEF Submitted
    <2> QED
      BY <1>1, <1>3, <2>1 DEF CreateHouseRegistration, HousesStay
  <1>4. ASSUME NEW i \in RegIds, reg[i].status = "PENDING",
               NEW s \in {"APPROVED", "REJECTED", "CANCELLED"},
               reg' = [reg EXCEPT ![i].status = s]
        PROVE  RegOK' /\ reg[i].house \in Houses
    <2>1. reg[i] \in Submitted /\ [reg[i] EXCEPT !.status = s] \in Submitted
      BY <1>1, <1>4, SubmittedStatus
    <2> QED
      BY <1>1, <1>4, <2>1 DEF Submitted
  <1>5. ASSUME NEW a \in Users, NEW i \in RegIds, ApproveHouseRegistration(a, i)
        PROVE  HousesStay /\ RegOK'
    <2>1. RegOK' /\ reg[i].house \in Houses
      BY <1>4, <1>5 DEF ApproveHouseRegistration, Open
    <2> QED
      BY <1>1, <1>5, <2>1 DEF ApproveHouseRegistration, HousesStay
  <1>6. ASSUME NEW a \in Users, NEW i \in RegIds,
               RejectHouseRegistration(a, i) \/ CancelHouseRegistration(a, i)
        PROVE  HousesStay /\ RegOK'
    <2>1. RegOK'
      BY <1>4, <1>6 DEF RejectHouseRegistration, CancelHouseRegistration, Open
    <2> QED
      BY <1>1, <1>6, <2>1 DEF RejectHouseRegistration, CancelHouseRegistration, HousesStay
  <1>7. ASSUME NEW a \in Users, NEW u \in Users, RevokeChairmanPermission(a, u)
        PROVE  HousesStay /\ RegOK'
    <2>1. \A i \in RegIds : reg[i].status = "PENDING" =>
             [reg[i] EXCEPT !.status = "CANCELLED"] \in Submitted
      BY <1>1, SubmittedStatus
    <2>2. reg' = [i \in RegIds |->
                    IF reg[i].applicant = u /\ reg[i].status = "PENDING"
                    THEN [reg[i] EXCEPT !.status = "CANCELLED"] ELSE reg[i]]
      BY <1>7 DEF RevokeChairmanPermission
    <2>3. RegOK'
      BY <1>1, <2>1, <2>2
    <2> QED
      BY <1>1, <1>7, <2>3 DEF RevokeChairmanPermission, HousesStay
  <1>8. CASE JoinNext
    BY <1>2, <1>8 DEF JoinNext, CreateJoinRequest, ApproveJoinRequest, RejectJoinRequest,
           CancelJoinRequest
  <1>9. CASE TransferNext
    BY <1>2, <1>9, TransfersAside
  <1>10. CASE MembersNext
    BY <1>2, <1>10 DEF MembersNext, DeactivateMembership, ReactivateMembership,
           RemoveMembership
  <1>11. CASE AdministrationNext
    BY <1>2, <1>7, <1>11 DEF AdministrationNext, GrantChairmanPermission,
           AssignHouseChairman, RemoveHouseChairman
  <1>12. CASE Replay
    BY <1>2, <1>12 DEF Replay, tables
  <1> QED
    BY <1>3, <1>5, <1>6, <1>8, <1>9, <1>10, <1>11, <1>12 DEF Next, RegistrationNext

-----------------------------------------------------------------------------
(* Requests.                                                               *)

\* What a request asks for does not change, and no request is filed twice.
LEMMA JoinStepKeeps ==
    ASSUME InvitationTypeOK, JoinStep
    PROVE  /\ join' \in [JoinIds -> {NoJoin} \cup Filed]
           /\ \A j \in JoinIds : join[j] # NoJoin =>
                join'[j].user = join[j].user /\ join'[j].house = join[j].house
           /\ (\A i, j \in JoinIds :
                 join[i] = join[j] /\ join[i].status = "PENDING" => i = j)
              => \A i, j \in JoinIds :
                   join'[i] = join'[j] /\ join'[i].status = "PENDING" => i = j
  <1>0. join \in [JoinIds -> {NoJoin} \cup Filed]
    BY DEF InvitationTypeOK
  <1>1. CASE join' = join
    BY <1>0, <1>1
  <1>2. ASSUME NEW u \in Users, NEW h \in Houses, NEW r \in JoinIds, Files(u, h, r)
        PROVE  /\ join' \in [JoinIds -> {NoJoin} \cup Filed]
               /\ \A j \in JoinIds : join[j] # NoJoin => join'[j] = join[j]
               /\ (\A i, j \in JoinIds :
                     join[i] = join[j] /\ join[i].status = "PENDING" => i = j)
                  => \A i, j \in JoinIds :
                       join'[i] = join'[j] /\ join'[i].status = "PENDING" => i = j
    <2>1. Asks(u, h) \in Filed
      BY DEF Asks, Filed
    <2>2. \A j \in JoinIds : join'[j] = IF j = r THEN Asks(u, h) ELSE join[j]
      BY <1>0, <1>2 DEF Files
    <2>3. \A j \in JoinIds \ {r} : join'[j] # Asks(u, h)
      BY <1>2, <2>2 DEF Files, NobodyAsks
    <2>4. join' \in [JoinIds -> {NoJoin} \cup Filed]
      BY <1>0, <1>2, <2>1 DEF Files
    <2>5. \A j \in JoinIds : join[j] # NoJoin => join'[j] = join[j]
      BY <1>2, <2>2 DEF Files
    <2> QED
      BY <2>2, <2>3, <2>4, <2>5
  <1>3. ASSUME NEW r \in JoinIds, NEW s \in {"APPROVED", "REJECTED", "CANCELLED"},
               Decides(r, s)
        PROVE  /\ join' \in [JoinIds -> {NoJoin} \cup Filed]
               /\ \A j \in JoinIds : join[j] # NoJoin =>
                    join'[j].user = join[j].user /\ join'[j].house = join[j].house
               /\ \A j \in JoinIds : join'[j].status = "PENDING" =>
                    j # r /\ join'[j] = join[j]
    <2> DEFINE row == [join[r] EXCEPT !.status = s]
    <2>1. join[r] \in Filed
      BY <1>0, <1>3 DEF Decides, NoJoin
    <2>2. /\ row \in Filed /\ row.user = join[r].user /\ row.house = join[r].house
          /\ row.status = s /\ s # "PENDING"
      BY <2>1 DEF Filed
    <2>3. join' = [join EXCEPT ![r] = row]
      BY <1>3 DEF Decides
    <2> HIDE DEF row
    <2>4. \A j \in JoinIds : join'[j] = IF j = r THEN row ELSE join[j]
      BY <1>0, <2>3
    <2>5. join' \in [JoinIds -> {NoJoin} \cup Filed]
      BY <1>0, <2>2, <2>3
    <2> QED
      BY <2>2, <2>4, <2>5
  <1> QED
    BY <1>1, <1>2, <1>3 DEF JoinStep

\* A redemption is of an invitation that was made, with a request that was filed.
LEMMA RedeemedRows ==
    ASSUME InvitationInv, NEW i \in InviteIds, NEW u \in Users,
           redemption[i][u] # NoRequest
    PROVE  /\ redemption[i][u] \in JoinIds /\ join[redemption[i][u]] # NoJoin
           /\ invite[i] # NoInvite /\ invite[i] \in Granted
           /\ join[redemption[i][u]].user = u
           /\ join[redemption[i][u]].house = invite[i].house
  <1>1. /\ redemption[i][u] \in JoinIds
        /\ join[redemption[i][u]].user = u
        /\ join[redemption[i][u]].house = invite[i].house
    BY DEF InvitationInv, InvitationTypeOK, RedemptionNamesOwnRequest
  <1>2. join[redemption[i][u]] # NoJoin
    BY <1>1, NullAssumption DEF NoJoin
  <1>3. invite[i] # NoInvite
    BY DEF InvitationInv, InvitationsName, Redeemers
  <1> QED
    BY <1>1, <1>2, <1>3 DEF InvitationInv, InvitationTypeOK

\* What the steps of the workflow keep.
LEMMA NamesKept ==
    ASSUME InvitationInv, HousesStay, UNCHANGED inviteVars
    PROVE  InvitationsName' /\ QuotaCountsUsers'
  <1>1. InvitationsName /\ QuotaCountsUsers /\ invite' = invite
        /\ \A i \in InviteIds : Redeemers(i)' = Redeemers(i)
    BY DEF InvitationInv, inviteVars, Redeemers
  <1>2. InvitationsName'
    BY <1>1 DEF InvitationsName, HousesStay
  <1>3. QuotaCountsUsers'
    BY <1>1 DEF QuotaCountsUsers
  <1> QED
    BY <1>2, <1>3

LEMMA WorkflowKeeps ==
    InvitationInv /\ Next /\ UNCHANGED inviteVars => InvitationInv'
  <1> SUFFICES ASSUME InvitationInv, Next, UNCHANGED inviteVars PROVE InvitationInv'
    OBVIOUS
  <1>1. InvitationTypeOK /\ HousesStay /\ JoinStep
        /\ reg' \in [RegIds -> {NoRegistration} \cup Submitted]
    BY JoinSteps, HouseSteps DEF InvitationInv
  <1>2. InvitationTypeOK'
    BY <1>1, JoinStepKeeps DEF InvitationTypeOK, inviteVars, HousesStay
  <1>3. InvitationsName' /\ QuotaCountsUsers'
    BY <1>1, NamesKept
  <1>4. RedemptionNamesOwnRequest'
    <2>1. ASSUME NEW i \in InviteIds, NEW u \in Users, redemption'[i][u] # NoRequest
          PROVE  /\ join'[redemption'[i][u]].user = u
                 /\ join'[redemption'[i][u]].house = invite'[i].house
      BY <1>1, <2>1, RedeemedRows, JoinStepKeeps DEF inviteVars
    <2>2. \A i, j \in JoinIds :
             join'[i] = join'[j] /\ join'[i].status = "PENDING" => i = j
      BY <1>1, JoinStepKeeps DEF InvitationInv, RedemptionNamesOwnRequest
    <2> QED
      BY <2>1, <2>2 DEF RedemptionNamesOwnRequest
  <1> QED
    BY <1>2, <1>3, <1>4 DEF InvitationInv

-----------------------------------------------------------------------------
(* The quota.                                                              *)

\* The quota of one invitation, its redeemers being those of R.
Quota(row, R) ==
    row # NoInvite =>
        /\ row.used = Cardinality(R) /\ row.used <= row.max
        /\ row.status = "ACTIVE" => row.used < row.max
        /\ row.status = "EXHAUSTED" => row.used = row.max

LEMMA QuotaOfAll == QuotaCountsUsers <=> \A i \in InviteIds : Quota(invite[i], Redeemers(i))
  BY DEF QuotaCountsUsers, Quota

LEMMA CreateKeeps ==
    ASSUME InvitationInv, NEW a \in Users, NEW h \in Houses, NEW i \in InviteIds,
           NEW max \in 1..MaxUses, CreateHouseInvitation(a, h, i, max)
    PROVE  InvitationInv'
  <1> DEFINE row == [house |-> h, max |-> max, used |-> 0, status |-> "ACTIVE"]
  <1>0. /\ InvitationTypeOK /\ InvitationsName
        /\ \A j \in InviteIds : Quota(invite[j], Redeemers(j))
    BY QuotaOfAll DEF InvitationInv
  <1>1. row \in Granted /\ row.house = h
    BY MaxUsesAssumption DEF Granted
  <1>2. row # NoInvite /\ Quota(row, {})
    BY FS_EmptySet, MaxUsesAssumption DEF Quota, NoInvite
  <1>3. /\ invite' = [invite EXCEPT ![i] = row] /\ invite[i] = NoInvite
        /\ h \in houses /\ UNCHANGED <<houses, reg, join, redemption>>
    BY DEF CreateHouseInvitation, tables
  <1> HIDE DEF row
  <1>4. InvitationTypeOK'
    BY <1>0, <1>1, <1>3 DEF InvitationTypeOK
  <1>5. /\ \A j \in InviteIds : invite'[j] = IF j = i THEN row ELSE invite[j]
        /\ \A j \in InviteIds : Redeemers(j)' = Redeemers(j)
        /\ Redeemers(i) = {}
    BY <1>0, <1>3 DEF InvitationTypeOK, Redeemers, InvitationsName
  <1>6. InvitationsName'
    BY <1>0, <1>1, <1>2, <1>3, <1>5 DEF InvitationsName
  <1>7. QuotaCountsUsers'
    <2>1. \A j \in InviteIds : Quota(invite'[j], Redeemers(j)')
      BY <1>0, <1>2, <1>5
    <2> QED
      BY <2>1 DEF QuotaCountsUsers, Quota
  <1>8. RedemptionNamesOwnRequest'
    BY <1>3, <1>5, RedeemedRows DEF InvitationInv, RedemptionNamesOwnRequest
  <1> QED
    BY <1>4, <1>6, <1>7, <1>8 DEF InvitationInv

LEMMA RevokeKeeps ==
    ASSUME InvitationInv, NEW a \in Users, NEW i \in InviteIds,
           RevokeHouseInvitation(a, i)
    PROVE  InvitationInv'
  <1> DEFINE row == [invite[i] EXCEPT !.status = "REVOKED"]
  <1>0. /\ InvitationTypeOK /\ InvitationsName
        /\ \A j \in InviteIds : Quota(invite[j], Redeemers(j))
    BY QuotaOfAll DEF InvitationInv
  <1>1. invite[i] # NoInvite /\ invite[i] \in Granted
    BY <1>0 DEF RevokeHouseInvitation, InvitationTypeOK, NoInvite
  <1>2. /\ row \in Granted /\ row.house = invite[i].house /\ row.max = invite[i].max
        /\ row.used = invite[i].used /\ row.status = "REVOKED"
    BY <1>1 DEF Granted
  <1>3. /\ invite' = [invite EXCEPT ![i] = row]
        /\ UNCHANGED <<houses, reg, join, redemption>>
    BY DEF RevokeHouseInvitation, tables
  <1> HIDE DEF row
  <1>4. InvitationTypeOK'
    BY <1>0, <1>2, <1>3 DEF InvitationTypeOK
  <1>5. /\ \A j \in InviteIds : invite'[j] = IF j = i THEN row ELSE invite[j]
        /\ \A j \in InviteIds : Redeemers(j)' = Redeemers(j)
    BY <1>0, <1>3 DEF InvitationTypeOK, Redeemers
  <1>6. row # NoInvite /\ Quota(row, Redeemers(i))
    BY <1>0, <1>1, <1>2 DEF Quota, NoInvite
  <1>7. InvitationsName'
    BY <1>0, <1>1, <1>2, <1>3, <1>5, <1>6 DEF InvitationsName
  <1>8. QuotaCountsUsers'
    <2>1. \A j \in InviteIds : Quota(invite'[j], Redeemers(j)')
      BY <1>0, <1>5, <1>6
    <2> QED
      BY <2>1 DEF QuotaCountsUsers, Quota
  <1>9. RedemptionNamesOwnRequest'
    BY <1>2, <1>3, <1>5, RedeemedRows DEF InvitationInv, RedemptionNamesOwnRequest
  <1> QED
    BY <1>4, <1>7, <1>8, <1>9 DEF InvitationInv

\* One more use, by a user who is not among the redeemers yet.
LEMMA UseCounts ==
    ASSUME NEW row \in Granted, row.status = "ACTIVE", row.used < row.max,
           NEW R \in SUBSET Users, NEW a \in Users \ R, Quota(row, R)
    PROVE  /\ AfterUse(row) \in Granted /\ AfterUse(row).house = row.house
           /\ Quota(AfterUse(row), R \cup {a})
  <1>1. /\ row.used \in Nat /\ row.max \in Nat /\ row.used = Cardinality(R)
    BY MaxUsesAssumption DEF Granted, NoInvite, Quota
  <1>2. Cardinality(R \cup {a}) = row.used + 1
    BY <1>1, UsersAssumption, FS_Subset, FS_AddElement
  <1> DEFINE s == IF row.used + 1 >= row.max THEN "EXHAUSTED" ELSE "ACTIVE"
  <1>3. AfterUse(row) = [row EXCEPT !.used = row.used + 1, !.status = s]
    BY DEF AfterUse
  <1>4. s \in {"ACTIVE", "EXHAUSTED"} /\ row.used + 1 \in Nat
    BY <1>1
  <1> HIDE DEF s
  <1>5. /\ AfterUse(row) \in Granted /\ AfterUse(row).house = row.house
        /\ AfterUse(row).used = row.used + 1 /\ AfterUse(row).status = s
        /\ AfterUse(row).max = row.max
    BY <1>3, <1>4 DEF Granted
  <1>6. Quota(AfterUse(row), R \cup {a})
    BY <1>1, <1>2, <1>5 DEF Quota, s
  <1> QED
    BY <1>5, <1>6

\* A redemption files the request of its user, or finds it filed.
LEMMA RedeemFiles ==
    ASSUME InvitationTypeOK, InvitationsName,
           NEW a \in Users, NEW i \in InviteIds, NEW r \in JoinIds,
           RedeemHouseInvitation(a, i, r)
    PROVE  /\ invite[i] \in Granted /\ invite[i].house \in houses
           /\ invite[i].house \in Houses
           /\ \/ join[r] = Asks(a, invite[i].house) /\ join' = join
              \/ Files(a, invite[i].house, r)
  <1> DEFINE h == invite[i].house
  <1>1. invite[i] \in Granted /\ invite[i] # NoInvite
    BY DEF InvitationTypeOK, RedeemHouseInvitation, Redeemable, NoInvite
  <1>2. h \in houses /\ h \in Houses
    BY <1>1 DEF InvitationsName, InvitationTypeOK
  <1> HIDE DEF h
  <1>3. h = invite[i].house
    BY DEF h
  <1>4. /\ FiledRequest(a, h, r)
        /\ join' = IF join[r] = NoJoin THEN [join EXCEPT ![r] = Asks(a, h)] ELSE join
    BY <1>3 DEF RedeemHouseInvitation, Asks
  <1>5. Asks(a, h) # NoJoin
    BY NullAssumption DEF Asks, NoJoin
  <1>6. \/ join[r] = Asks(a, h)
        \/ join[r] = NoJoin /\ NobodyAsks(a, h)
    BY <1>4 DEF FiledRequest, NobodyAsks, Asks
  <1>7. \/ join[r] = Asks(a, h) /\ join' = join
        \/ Files(a, h, r)
    BY <1>4, <1>5, <1>6 DEF Files
  <1> QED
    BY <1>1, <1>2, <1>3, <1>7

LEMMA RedeemKeeps ==
    ASSUME InvitationInv, NEW a \in Users, NEW i \in InviteIds, NEW r \in JoinIds,
           RedeemHouseInvitation(a, i, r)
    PROVE  InvitationInv'
  <1> DEFINE h == invite[i].house
  <1>0. /\ InvitationTypeOK /\ InvitationsName
        /\ \A j \in InviteIds : Quota(invite[j], Redeemers(j))
    BY QuotaOfAll DEF InvitationInv
  <1>1. /\ invite[i] \in Granted /\ h \in houses /\ h \in Houses
        /\ \/ join[r] = Asks(a, h) /\ join' = join
           \/ Files(a, h, r)
    BY <1>0, RedeemFiles
  <1>2. /\ ~Redeemed(i, a) /\ invite[i].status = "ACTIVE"
        /\ invite[i].used < invite[i].max
        /\ redemption' = [redemption EXCEPT ![i][a] = r]
        /\ invite' = [invite EXCEPT ![i] = AfterUse(invite[i])]
        /\ UNCHANGED <<houses, reg>>
    BY DEF RedeemHouseInvitation, Redeemable
  <1>3. a \notin Redeemers(i) /\ \A j \in InviteIds : Redeemers(j) \in SUBSET Users
    BY <1>2 DEF Redeemed, Redeemers
  <1>4. /\ AfterUse(invite[i]) \in Granted /\ AfterUse(invite[i]).house = h
        /\ Quota(AfterUse(invite[i]), Redeemers(i) \cup {a})
    BY <1>0, <1>1, <1>2, <1>3, UseCounts
  <1>5. \A j \in InviteIds : invite'[j] = IF j = i THEN AfterUse(invite[i]) ELSE invite[j]
    BY <1>0, <1>2 DEF InvitationTypeOK
  <1>6. \A j \in InviteIds, u \in Users :
           redemption'[j][u] = IF j = i /\ u = a THEN r ELSE redemption[j][u]
    BY <1>0, <1>2 DEF InvitationTypeOK
  <1>7. \A j \in InviteIds :
           Redeemers(j)' = IF j = i THEN Redeemers(i) \cup {a} ELSE Redeemers(j)
    BY <1>6, RequestAssumption DEF Redeemers
  <1>8. JoinStep
    BY <1>1 DEF JoinStep
  <1>9. /\ join' \in [JoinIds -> {NoJoin} \cup Filed]
        /\ \A j \in JoinIds : join[j] # NoJoin =>
             join'[j].user = join[j].user /\ join'[j].house = join[j].house
        /\ \A j, k \in JoinIds :
             join'[j] = join'[k] /\ join'[j].status = "PENDING" => j = k
    BY <1>0, <1>8, JoinStepKeeps DEF InvitationInv, RedemptionNamesOwnRequest
  <1>10. join'[r].user = a /\ join'[r].house = h
    <2>1. join'[r] = Asks(a, h)
      BY <1>0, <1>1 DEF Files, InvitationTypeOK
    <2> QED
      BY <2>1 DEF Asks
  <1>11. InvitationTypeOK'
    BY <1>0, <1>2, <1>4, <1>9 DEF InvitationTypeOK
  <1>12. InvitationsName'
    <2>1. invite[i] # NoInvite
      BY <1>2 DEF NoInvite
    <2>2. AfterUse(invite[i]) # NoInvite
      BY <1>4 DEF NoInvite, Granted
    <2> QED
      BY <1>0, <1>1, <1>2, <1>4, <1>5, <1>7, <2>1, <2>2 DEF InvitationsName
  <1>13. QuotaCountsUsers'
    <2>1. \A j \in InviteIds : Quota(invite'[j], Redeemers(j)')
      BY <1>0, <1>4, <1>5, <1>7
    <2> QED
      BY <2>1 DEF QuotaCountsUsers, Quota
  <1>14. RedemptionNamesOwnRequest'
    <2>1. ASSUME NEW j \in InviteIds, NEW u \in Users, redemption'[j][u] # NoRequest
          PROVE  /\ join'[redemption'[j][u]].user = u
                 /\ join'[redemption'[j][u]].house = invite'[j].house
      <3>1. invite'[j].house = invite[j].house
        BY <1>4, <1>5
      <3>2. CASE j = i /\ u = a
        BY <1>4, <1>5, <1>6, <1>10, <3>2
      <3>3. CASE ~(j = i /\ u = a)
        <4>1. redemption'[j][u] = redemption[j][u]
          BY <1>6, <3>3
        <4> QED
          BY <1>9, <2>1, <3>1, <4>1, RedeemedRows
      <3> QED
        BY <3>2, <3>3
    <2> QED
      BY <1>9, <2>1 DEF RedemptionNamesOwnRequest
  <1> QED
    BY <1>11, <1>12, <1>13, <1>14 DEF InvitationInv

-----------------------------------------------------------------------------
LEMMA InvitationInvInit == InvitationInit => InvitationInv
  <1> SUFFICES ASSUME InvitationInit PROVE InvitationInv
    OBVIOUS
  <1>1. InvitationTypeOK
    BY DEF InvitationInit, Init, InvitationTypeOK
  <1>2. \A i \in InviteIds : invite[i] = NoInvite /\ Redeemers(i) = {}
    BY DEF InvitationInit, Redeemers
  <1>3. InvitationsName /\ QuotaCountsUsers
    BY <1>2 DEF InvitationsName, QuotaCountsUsers
  <1>4. RedemptionNamesOwnRequest
    BY DEF InvitationInit, Init, RedemptionNamesOwnRequest, NoJoin
  <1> QED
    BY <1>1, <1>3, <1>4 DEF InvitationInv

LEMMA InvitationInductive == InvitationInv /\ [InvitationNext]_allVars => InvitationInv'
  <1> SUFFICES ASSUME InvitationInv, [InvitationNext]_allVars PROVE InvitationInv'
    OBVIOUS
  <1>1. CASE Next /\ UNCHANGED inviteVars
    BY <1>1, WorkflowKeeps
  <1>2. CASE UNCHANGED allVars
    <2>1. UNCHANGED <<houses, reg, join, invite, redemption>>
      BY <1>2 DEF allVars, vars, inviteVars
    <2>2. InvitationTypeOK' /\ RedemptionNamesOwnRequest' /\ HousesStay
      BY <2>1 DEF InvitationInv, InvitationTypeOK, RedemptionNamesOwnRequest, HousesStay
    <2>3. UNCHANGED inviteVars
      BY <2>1 DEF inviteVars
    <2> QED
      BY <2>2, <2>3, NamesKept DEF InvitationInv
  <1> QED
    BY <1>1, <1>2, CreateKeeps, RevokeKeeps, RedeemKeeps DEF InvitationNext

\* The quota counts users, for every quota and however many users race for the
\* last use.
THEOREM QuotaIsKept == InvitationSpec => []QuotaCountsUsers
  <1>1. InvitationSpec => []InvitationInv
    BY InvitationInvInit, InvitationInductive, PTL DEF InvitationSpec
  <1>2. InvitationInv => QuotaCountsUsers
    BY DEF InvitationInv
  <1> QED
    BY <1>1, <1>2, PTL

\* A redemption stays with its own user's request for its own house.
THEOREM RedemptionsFileRequests == InvitationSpec => []RedemptionNamesOwnRequest
  <1>1. InvitationSpec => []InvitationInv
    BY InvitationInvInit, InvitationInductive, PTL DEF InvitationSpec
  <1>2. InvitationInv => RedemptionNamesOwnRequest
    BY DEF InvitationInv
  <1> QED
    BY <1>1, <1>2, PTL

-----------------------------------------------------------------------------
(* The workflow that the invitations implement.                            *)

Plain == {e \in emitted : e.kind \notin InviteKinds}
PlainStep == {e \in emitted' : e.kind \notin InviteKinds} = emitted'

\* The rows and permissions of the workflow are those of the implementation.
LEMMA SameRows ==
    /\ Workflow!NoRow = NoRow /\ Workflow!NoTransfer = NoTransfer
    /\ Workflow!NoRegistration = NoRegistration /\ Workflow!NoJoin = NoJoin
    /\ Workflow!ActiveChairman = ActiveChairman
    /\ Workflow!ActiveResident = ActiveResident
    /\ \A k, h, u : Workflow!Event(k, h, u) = Event(k, h, u)
    /\ \A r, s : Workflow!Row(r, s) = Row(r, s)
    /\ \A row : Workflow!Joined(row) = Joined(row)
    /\ \A row : Workflow!Open(row) = Open(row)
  BY DEF Workflow!NoRow, NoRow, Workflow!NoTransfer, NoTransfer, Workflow!NoRegistration,
         NoRegistration, Workflow!NoJoin, NoJoin, Workflow!ActiveChairman, ActiveChairman,
         Workflow!ActiveResident, ActiveResident, Workflow!Event, Event, Workflow!Row, Row,
         Workflow!Joined, Joined, Workflow!Open, Open

LEMMA SamePermissions ==
    /\ \A u : Workflow!MayChair(u) <=> MayChair(u)
    /\ \A a, h : Workflow!Manager(a, h) <=> Manager(a, h)
    /\ \A u, h : Workflow!ChairmanSeatFree(u, h) <=> ChairmanSeatFree(u, h)
    /\ \A h : Workflow!AddressUnderReview(h) <=> AddressUnderReview(h)
    /\ \A a, u, h : Workflow!MayManageMember(a, u, h) <=> MayManageMember(a, u, h)
  BY Zenon
     DEF Workflow!MayChair, MayChair, Workflow!Manager, Manager, Workflow!ChairmanSeatFree,
         ChairmanSeatFree, Workflow!AddressUnderReview, AddressUnderReview,
         Workflow!MayManageMember, MayManageMember,
         Workflow!NoRow, NoRow, Workflow!ActiveChairman, ActiveChairman,
         Workflow!ActiveResident, ActiveResident, Workflow!Row, Row

LEMMA SameWrites ==
    /\ \A u, h : Workflow!DefaultTo(u, h) = DefaultTo(u, h)
    /\ \A u, h : Workflow!ClearDefault(u, h) = ClearDefault(u, h)
    /\ \A U, H : Workflow!Demoted(U, H) = Demoted(U, H)
    /\ Workflow!Pending = Pending
    /\ \A h : Workflow!HouseOffers(h) = HouseOffers(h)
    /\ \A T, s : Workflow!Closed(T, s) = Closed(T, s)
  BY Zenon
     DEF Workflow!DefaultTo, DefaultTo, Workflow!ClearDefault, ClearDefault,
         Workflow!Demoted, Demoted, Workflow!Pending, Pending, Workflow!HouseOffers,
         HouseOffers, Workflow!Closed, Closed, Workflow!Row, Row

\* The workflow announces nothing of an invitation.
LEMMA EventKind == \A k, h, u : Event(k, h, u).kind = k
  BY DEF Event

LEMMA NextIsPlain == Next => PlainStep
  <1> SUFFICES ASSUME Next PROVE \A e \in emitted' : e.kind \notin InviteKinds
    BY DEF PlainStep
  <1> USE EventKind DEF InviteKinds
  <1>1. CASE RegistrationNext
    BY <1>1 DEF RegistrationNext, CreateHouseRegistration, ApproveHouseRegistration,
           RejectHouseRegistration, CancelHouseRegistration
  <1>2. CASE JoinNext
    BY <1>2 DEF JoinNext, CreateJoinRequest, ApproveJoinRequest, RejectJoinRequest,
           CancelJoinRequest
  <1>3. ASSUME NEW late, NEW a, NEW i,
               \/ \E h \in Houses, u \in Users : CreateChairmanTransfer(a, h, u, i, late)
               \/ AcceptChairmanTransfer(a, i, late)
               \/ RejectChairmanTransfer(a, i, late)
               \/ CancelChairmanTransfer(a, i, late)
               \/ ListChairmanTransfers(late)
        PROVE  \A e \in emitted' : e.kind \notin InviteKinds
    <2>1. CASE \E h \in Houses, u \in Users : CreateChairmanTransfer(a, h, u, i, late)
      BY <2>1 DEF CreateChairmanTransfer
    <2>2. CASE AcceptChairmanTransfer(a, i, late)
      BY <2>2 DEF AcceptChairmanTransfer
    <2>3. CASE RejectChairmanTransfer(a, i, late)
      BY <2>3 DEF RejectChairmanTransfer
    <2>4. CASE CancelChairmanTransfer(a, i, late)
      BY <2>4 DEF CancelChairmanTransfer
    <2>5. CASE ListChairmanTransfers(late)
      BY <2>5 DEF ListChairmanTransfers
    <2> QED
      BY <1>3, <2>1, <2>2, <2>3, <2>4, <2>5
  <1>4. CASE TransferNext
    BY <1>3, <1>4, Zenon DEF TransferNext
  <1>5. CASE MembersNext
    BY <1>5 DEF MembersNext, DeactivateMembership, ReactivateMembership, RemoveMembership
  <1>6. CASE AdministrationNext
    BY <1>6 DEF AdministrationNext, GrantChairmanPermission, RevokeChairmanPermission,
           AssignHouseChairman, RemoveHouseChairman
  <1>7. CASE Replay
    BY <1>7 DEF Replay
  <1> QED
    BY <1>1, <1>2, <1>4, <1>5, <1>6, <1>7 DEF Next

LEMMA WorkflowRegistration ==
    ASSUME RegistrationNext, PlainStep
    PROVE  Workflow!RegistrationNext
  <1> USE SameRows, SamePermissions, SameWrites DEF PlainStep
  <1>1. ASSUME NEW a \in Users, NEW i \in RegIds, NEW h \in Houses,
               CreateHouseRegistration(a, h, i)
        PROVE  Workflow!CreateHouseRegistration(a, h, i)
    BY <1>1 DEF CreateHouseRegistration, Workflow!CreateHouseRegistration
  <1>2. ASSUME NEW a \in Users, NEW i \in RegIds,
               ApproveHouseRegistration(a, i)
        PROVE  Workflow!ApproveHouseRegistration(a, i)
    BY <1>2 DEF ApproveHouseRegistration, Workflow!ApproveHouseRegistration
  <1>3. ASSUME NEW a \in Users, NEW i \in RegIds,
               RejectHouseRegistration(a, i)
        PROVE  Workflow!RejectHouseRegistration(a, i)
    BY <1>3 DEF RejectHouseRegistration, Workflow!RejectHouseRegistration
  <1>4. ASSUME NEW a \in Users, NEW i \in RegIds,
               CancelHouseRegistration(a, i)
        PROVE  Workflow!CancelHouseRegistration(a, i)
    BY <1>4 DEF CancelHouseRegistration, Workflow!CancelHouseRegistration
  <1> QED
    BY <1>1, <1>2, <1>3, <1>4 DEF RegistrationNext, Workflow!RegistrationNext

LEMMA WorkflowJoin ==
    ASSUME JoinNext, PlainStep
    PROVE  Workflow!JoinNext
  <1> USE SameRows, SamePermissions, SameWrites DEF PlainStep
  <1>1. ASSUME NEW a \in Users, NEW i \in JoinIds, NEW h \in Houses,
               CreateJoinRequest(a, h, i)
        PROVE  Workflow!CreateJoinRequest(a, h, i)
    BY <1>1 DEF CreateJoinRequest, Workflow!CreateJoinRequest
  <1>2. ASSUME NEW a \in Users, NEW i \in JoinIds,
               ApproveJoinRequest(a, i)
        PROVE  Workflow!ApproveJoinRequest(a, i)
    BY <1>2 DEF ApproveJoinRequest, Workflow!ApproveJoinRequest
  <1>3. ASSUME NEW a \in Users, NEW i \in JoinIds,
               RejectJoinRequest(a, i)
        PROVE  Workflow!RejectJoinRequest(a, i)
    BY <1>3 DEF RejectJoinRequest, Workflow!RejectJoinRequest
  <1>4. ASSUME NEW a \in Users, NEW i \in JoinIds,
               CancelJoinRequest(a, i)
        PROVE  Workflow!CancelJoinRequest(a, i)
    BY <1>4 DEF CancelJoinRequest, Workflow!CancelJoinRequest
  <1> QED
    BY <1>1, <1>2, <1>3, <1>4 DEF JoinNext, Workflow!JoinNext

LEMMA WorkflowTransfer ==
    ASSUME TransferNext, PlainStep
    PROVE  Workflow!TransferNext
  <1> USE SameRows, SamePermissions, SameWrites DEF PlainStep
  <1>1. ASSUME NEW late \in SUBSET Pending, NEW a \in Users, NEW i \in TransferIds, NEW h \in Houses, NEW u \in Users,
               CreateChairmanTransfer(a, h, u, i, late)
        PROVE  Workflow!CreateChairmanTransfer(a, h, u, i, late)
    BY <1>1 DEF CreateChairmanTransfer, Workflow!CreateChairmanTransfer
  <1>2. ASSUME NEW late \in SUBSET Pending, NEW a \in Users, NEW i \in TransferIds,
               AcceptChairmanTransfer(a, i, late)
        PROVE  Workflow!AcceptChairmanTransfer(a, i, late)
    BY <1>2 DEF AcceptChairmanTransfer, Workflow!AcceptChairmanTransfer
  <1>3. ASSUME NEW late \in SUBSET Pending, NEW a \in Users, NEW i \in TransferIds,
               RejectChairmanTransfer(a, i, late)
        PROVE  Workflow!RejectChairmanTransfer(a, i, late)
    BY <1>3 DEF RejectChairmanTransfer, Workflow!RejectChairmanTransfer
  <1>4. ASSUME NEW late \in SUBSET Pending, NEW a \in Users, NEW i \in TransferIds,
               CancelChairmanTransfer(a, i, late)
        PROVE  Workflow!CancelChairmanTransfer(a, i, late)
    BY <1>4 DEF CancelChairmanTransfer, Workflow!CancelChairmanTransfer
  <1>5. ASSUME NEW late \in SUBSET Pending,
               ListChairmanTransfers(late)
        PROVE  Workflow!ListChairmanTransfers(late)
    BY <1>5 DEF ListChairmanTransfers, Workflow!ListChairmanTransfers
  <1> QED
    BY <1>1, <1>2, <1>3, <1>4, <1>5 DEF TransferNext, Workflow!TransferNext

LEMMA WorkflowMembers ==
    ASSUME MembersNext, PlainStep
    PROVE  Workflow!MembersNext
  <1> USE SameRows, SamePermissions, SameWrites DEF PlainStep
  <1>1. ASSUME NEW a \in Users, NEW u \in Users, NEW h \in Houses,
               DeactivateMembership(a, u, h)
        PROVE  Workflow!DeactivateMembership(a, u, h)
    BY <1>1 DEF DeactivateMembership, Workflow!DeactivateMembership
  <1>2. ASSUME NEW a \in Users, NEW u \in Users, NEW h \in Houses,
               ReactivateMembership(a, u, h)
        PROVE  Workflow!ReactivateMembership(a, u, h)
    BY <1>2 DEF ReactivateMembership, Workflow!ReactivateMembership
  <1>3. ASSUME NEW a \in Users, NEW u \in Users, NEW h \in Houses,
               RemoveMembership(a, u, h)
        PROVE  Workflow!RemoveMembership(a, u, h)
    BY <1>3 DEF RemoveMembership, Workflow!RemoveMembership
  <1> QED
    BY <1>1, <1>2, <1>3 DEF MembersNext, Workflow!MembersNext

LEMMA WorkflowAdministration ==
    ASSUME AdministrationNext, PlainStep
    PROVE  Workflow!AdministrationNext
  <1> USE SameRows, SamePermissions, SameWrites DEF PlainStep
  <1>1. ASSUME NEW a \in Users, NEW u \in Users,
               GrantChairmanPermission(a, u)
        PROVE  Workflow!GrantChairmanPermission(a, u)
    BY <1>1 DEF GrantChairmanPermission, Workflow!GrantChairmanPermission
  <1>2. ASSUME NEW a \in Users, NEW u \in Users,
               RevokeChairmanPermission(a, u)
        PROVE  Workflow!RevokeChairmanPermission(a, u)
    BY <1>2 DEF RevokeChairmanPermission, Workflow!RevokeChairmanPermission
  <1>3. ASSUME NEW a \in Users, NEW u \in Users, NEW h \in Houses,
               AssignHouseChairman(a, u, h)
        PROVE  Workflow!AssignHouseChairman(a, u, h)
    BY <1>3 DEF AssignHouseChairman, Workflow!AssignHouseChairman
  <1>4. ASSUME NEW a \in Users, NEW h \in Houses,
               RemoveHouseChairman(a, h)
        PROVE  Workflow!RemoveHouseChairman(a, h)
    BY <1>4 DEF RemoveHouseChairman, Workflow!RemoveHouseChairman
  <1> QED
    BY <1>1, <1>2, <1>3, <1>4 DEF AdministrationNext, Workflow!AdministrationNext

LEMMA WorkflowNext == Next /\ PlainStep => Workflow!Next
  <1>1. Replay /\ PlainStep => Workflow!Replay
    BY DEF Replay, Workflow!Replay, tables, Workflow!tables, PlainStep
  <1> QED
    BY <1>1, WorkflowRegistration, WorkflowJoin, WorkflowTransfer, WorkflowMembers,
       WorkflowAdministration DEF Next, Workflow!Next

\* A redemption is a join request of the workflow, or nothing to it; so is
\* whatever else is done to an invitation.
LEMMA RedeemImplements ==
    ASSUME InvitationInv, NEW a \in Users, NEW i \in InviteIds, NEW r \in JoinIds,
           RedeemHouseInvitation(a, i, r)
    PROVE  Workflow!Next
  <1> DEFINE h == invite[i].house
             redeemed == Event("house.invite.redeemed", h, a)
             created == Event("house.join.created", h, a)
  <1>1. /\ h \in houses /\ h \in Houses
        /\ \/ join[r] = Asks(a, h) /\ join' = join
           \/ Files(a, h, r)
    BY RedeemFiles DEF InvitationInv
  <1>2. redeemed.kind \in InviteKinds /\ created.kind \notin InviteKinds
    BY EventKind DEF InviteKinds
  <1>3. /\ member[a][h].status # "ACTIVE"
        /\ emitted' = IF join[r] = NoJoin THEN {created, redeemed} ELSE {redeemed}
        /\ UNCHANGED <<perm, houses, member, defaultHouse, reg, transfer>>
    BY DEF RedeemHouseInvitation, MayRedeem
  <1> HIDE DEF h, redeemed
  <1>4. CASE join[r] = Asks(a, h) /\ join' = join
    <2>1. join[r] # NoJoin
      BY <1>4 DEF Asks, NoJoin
    <2>2. {e \in emitted' : e.kind \notin InviteKinds} = {}
      BY <1>2, <1>3, <2>1
    <2>3. Workflow!Replay
      BY <1>3, <1>4, <2>2 DEF Workflow!Replay, Workflow!tables
    <2> QED
      BY <2>3 DEF Workflow!Next
  <1>5. CASE Files(a, h, r)
    <2>1. {e \in emitted' : e.kind \notin InviteKinds} = {created}
      <3> HIDE DEF created
      <3> QED
        BY <1>2, <1>3, <1>5 DEF Files
    <2>2. \A j \in JoinIds :
             ~(join[j].user = a /\ join[j].house = h /\ join[j].status = "PENDING")
      <3> SUFFICES ASSUME NEW j \in JoinIds, join[j].user = a, join[j].house = h,
                          join[j].status = "PENDING"
                   PROVE  FALSE
        OBVIOUS
      <3>1. join[j] \in Filed
        BY DEF InvitationInv, InvitationTypeOK, NoJoin
      <3>2. join[j] = Asks(a, h)
        BY <3>1 DEF Filed, Asks
      <3> QED
        BY <1>5, <3>2 DEF Files, NobodyAsks
    <2>3. join[r] = NoJoin
          /\ join' = [join EXCEPT ![r] = [user |-> a, house |-> h, status |-> "PENDING"]]
      BY <1>5 DEF Files, Asks
    <2>4. Workflow!CreateJoinRequest(a, h, r)
      BY <1>1, <1>3, <2>1, <2>2, <2>3, SameRows DEF Workflow!CreateJoinRequest
    <2> QED
      BY <1>1, <2>4 DEF Workflow!Next, Workflow!JoinNext
  <1> QED
    BY <1>1, <1>4, <1>5

LEMMA ManagingIsAside ==
    ASSUME NEW a, NEW i, UNCHANGED tables,
           NEW kind \in InviteKinds, NEW h, emitted' = {Event(kind, h, a)}
    PROVE  Workflow!Next
  <1>1. {e \in emitted' : e.kind \notin InviteKinds} = {}
    BY EventKind
  <1>2. Workflow!Replay
    BY <1>1 DEF Workflow!Replay, Workflow!tables, tables
  <1> QED
    BY <1>2 DEF Workflow!Next

LEMMA StepImplements ==
    InvitationInv /\ [InvitationNext]_allVars => [Workflow!Next]_Workflow!vars
  <1> SUFFICES ASSUME InvitationInv, [InvitationNext]_allVars
               PROVE  [Workflow!Next]_Workflow!vars
    OBVIOUS
  <1>1. CASE Next /\ UNCHANGED inviteVars
    BY <1>1, NextIsPlain, WorkflowNext
  <1>2. ASSUME NEW a \in Users, NEW i \in InviteIds, NEW h \in Houses,
               NEW max \in 1..MaxUses, CreateHouseInvitation(a, h, i, max)
        PROVE  Workflow!Next
    <2>1. UNCHANGED tables /\ emitted' = {Event("house.invite.created", h, a)}
      BY <1>2 DEF CreateHouseInvitation
    <2>2. "house.invite.created" \in InviteKinds
      BY DEF InviteKinds
    <2> QED
      BY <2>1, <2>2, ManagingIsAside
  <1>3. ASSUME NEW a \in Users, NEW i \in InviteIds, RevokeHouseInvitation(a, i)
        PROVE  Workflow!Next
    <2>1. /\ UNCHANGED tables
          /\ emitted' = {Event("house.invite.revoked", invite[i].house, a)}
      BY <1>3 DEF RevokeHouseInvitation
    <2>2. "house.invite.revoked" \in InviteKinds
      BY DEF InviteKinds
    <2> QED
      BY <2>1, <2>2, ManagingIsAside
  <1>4. CASE UNCHANGED allVars
    BY <1>4 DEF allVars, vars, inviteVars, Workflow!vars
  <1> QED
    BY <1>1, <1>2, <1>3, <1>4, RedeemImplements DEF InvitationNext

LEMMA InitImplements == InvitationInit => Workflow!Init
  <1> SUFFICES ASSUME InvitationInit PROVE Workflow!Init
    OBVIOUS
  <1>1. {e \in emitted : e.kind \notin InviteKinds} = {}
    BY DEF InvitationInit, Init
  <1> QED
    BY <1>1, SameRows DEF InvitationInit, Init, Workflow!Init

\* Whatever is proved of the workflow holds with invitations as well: to those
\* who do not see its tables an invitation is one more way to ask to join.
THEOREM InvitationsAreWorkflow == InvitationSpec => ImplementsWorkflow
  <1>1. InvitationSpec => []InvitationInv
    BY InvitationInvInit, InvitationInductive, PTL DEF InvitationSpec
  <1> QED
    BY <1>1, InitImplements, StepImplements, PTL
       DEF InvitationSpec, ImplementsWorkflow, Workflow!Spec

-----------------------------------------------------------------------------
(* So the theorems about the workflow are theorems about the service.      *)

Without == INSTANCE HouseWorkflowProofs WITH emitted <- Plain

LEMMA SameWorkflow ==
    /\ Workflow!Init <=> Without!Init
    /\ Workflow!Next <=> Without!Next
    /\ Workflow!vars = Without!vars
  BY DEF Workflow!Init, Workflow!Next, Workflow!RegistrationNext,
         Workflow!JoinNext, Workflow!TransferNext, Workflow!MembersNext,
         Workflow!AdministrationNext, Workflow!Replay,
         Workflow!CreateHouseRegistration, Workflow!ApproveHouseRegistration,
         Workflow!RejectHouseRegistration, Workflow!CancelHouseRegistration,
         Workflow!CreateJoinRequest, Workflow!ApproveJoinRequest,
         Workflow!RejectJoinRequest, Workflow!CancelJoinRequest,
         Workflow!CreateChairmanTransfer, Workflow!AcceptChairmanTransfer,
         Workflow!RejectChairmanTransfer, Workflow!CancelChairmanTransfer,
         Workflow!ListChairmanTransfers, Workflow!DeactivateMembership,
         Workflow!ReactivateMembership, Workflow!RemoveMembership,
         Workflow!GrantChairmanPermission, Workflow!RevokeChairmanPermission,
         Workflow!AssignHouseChairman, Workflow!RemoveHouseChairman,
         Workflow!NoRow, Workflow!NoTransfer, Workflow!NoRegistration,
         Workflow!NoJoin, Workflow!ActiveChairman, Workflow!ActiveResident,
         Workflow!Event, Workflow!Row, Workflow!Joined, Workflow!Open,
         Workflow!MayChair, Workflow!Manager, Workflow!AddressUnderReview,
         Workflow!MayManageMember, Workflow!ChairmanSeatFree,
         Workflow!DefaultTo, Workflow!ClearDefault, Workflow!Demoted,
         Workflow!Pending, Workflow!HouseOffers, Workflow!Closed,
         Workflow!tables, Workflow!vars, Without!Init, Without!Next,
         Without!RegistrationNext, Without!JoinNext, Without!TransferNext,
         Without!MembersNext, Without!AdministrationNext, Without!Replay,
         Without!CreateHouseRegistration, Without!ApproveHouseRegistration,
         Without!RejectHouseRegistration, Without!CancelHouseRegistration,
         Without!CreateJoinRequest, Without!ApproveJoinRequest,
         Without!RejectJoinRequest, Without!CancelJoinRequest,
         Without!CreateChairmanTransfer, Without!AcceptChairmanTransfer,
         Without!RejectChairmanTransfer, Without!CancelChairmanTransfer,
         Without!ListChairmanTransfers, Without!DeactivateMembership,
         Without!ReactivateMembership, Without!RemoveMembership,
         Without!GrantChairmanPermission, Without!RevokeChairmanPermission,
         Without!AssignHouseChairman, Without!RemoveHouseChairman,
         Without!NoRow, Without!NoTransfer, Without!NoRegistration,
         Without!NoJoin, Without!ActiveChairman, Without!ActiveResident,
         Without!Event, Without!Row, Without!Joined, Without!Open,
         Without!MayChair, Without!Manager, Without!AddressUnderReview,
         Without!MayManageMember, Without!ChairmanSeatFree, Without!DefaultTo,
         Without!ClearDefault, Without!Demoted, Without!Pending,
         Without!HouseOffers, Without!Closed, Without!tables, Without!vars,
         Plain

LEMMA ImplementsService == InvitationSpec => Without!Spec
  <1>1. Workflow!Init => Without!Init
    BY SameWorkflow
  <1>2. [Workflow!Next]_Workflow!vars => [Without!Next]_Without!vars
    BY SameWorkflow DEF Workflow!vars, Without!vars, Plain
  <1>3. Workflow!Spec => Without!Init /\ [][Without!Next]_Without!vars
    BY <1>1, <1>2, PTL DEF Workflow!Spec
  <1>4. Without!Init /\ [][Without!Next]_Without!vars => Without!Spec
    BY PTL DEF Without!Spec
  <1> QED
    BY <1>3, <1>4, InvitationsAreWorkflow, PTL DEF ImplementsWorkflow

\* Chairmen, offers, permissions, registrations, houses and default houses are
\* what they are without invitations.
ServiceKeeps ==
    /\ OneChairmanRow
    /\ RevokedHoldNoPower
    /\ OpenOfferIsFromTheChairman
    /\ PendingRegistrationIsApprovable
    /\ HousesComeFromRegistrations
    /\ DefaultHouseIsActive

\* Redeeming invitations next to all other commands does not break any of them.
THEOREM ServiceWithInvitations == InvitationSpec => []ServiceKeeps
  <1> DEFINE Inv == /\ Without!OneChairmanRow
                    /\ Without!RevokedHoldNoPower
                    /\ Without!OpenOfferIsFromTheChairman
                    /\ Without!PendingRegistrationIsApprovable
                    /\ Without!HousesComeFromRegistrations
                    /\ Without!DefaultHouseIsActive
  <1>1. Without!Spec => []Without!OneChairmanRow
    BY Without!OneRow, AdminsAssumption, NullAssumption
  <1>2. Without!Spec => []Without!RevokedHoldNoPower
    BY Without!RevocationIsComplete, AdminsAssumption, NullAssumption
  <1>3. Without!Spec => []Without!OpenOfferIsFromTheChairman
    BY Without!OffersComeFromChairmen, AdminsAssumption, NullAssumption
  <1>4. Without!Spec => []Without!PendingRegistrationIsApprovable
    BY Without!ReviewsCanEndWell, AdminsAssumption, NullAssumption
  <1>5. Without!Spec => []Without!HousesComeFromRegistrations
    BY Without!HousesAreRegistered, AdminsAssumption, NullAssumption
  <1>6. Without!Spec => []Without!DefaultHouseIsActive
    BY Without!DefaultHousesAreOpen, AdminsAssumption, NullAssumption
  <1>7. Inv => ServiceKeeps
    BY Zenon
       DEF ServiceKeeps,
           Without!OneChairmanRow, OneChairmanRow,
           Without!RevokedHoldNoPower, RevokedHoldNoPower,
           Without!OpenOfferIsFromTheChairman, OpenOfferIsFromTheChairman,
           Without!PendingRegistrationIsApprovable, PendingRegistrationIsApprovable,
           Without!HousesComeFromRegistrations, HousesComeFromRegistrations,
           Without!RowsNameHouses, RowsNameHouses,
           Without!DefaultHouseIsActive, DefaultHouseIsActive,
           Without!MayChair, MayChair, Without!Pending, Pending,
           Without!NoRow, NoRow, Without!Row, Row, Without!NoJoin, NoJoin,
           Without!NoTransfer, NoTransfer
  <1> QED
    BY <1>1, <1>2, <1>3, <1>4, <1>5, <1>6, <1>7, ImplementsService, PTL

\* The rows and events that the properties of steps speak of.
LEMMA SameDecisions ==
    /\ Without!NoRow = NoRow
    /\ Without!ActiveChairman = ActiveChairman
    /\ Without!ActiveResident = ActiveResident
    /\ Without!MembershipEvents = MembershipEvents
    /\ \A u, h : Without!JoinApproved(u, h) <=> JoinApproved(u, h)
  BY DEF Without!NoRow, NoRow, Without!ActiveChairman, ActiveChairman, Without!Row, Row,
         Without!ActiveResident, ActiveResident, Without!JoinApproved, JoinApproved,
         Without!MembershipEvents, MembershipEvents

\* A step that changes a membership is one of the workflow.
LEMMA MembersOfWorkflow ==
    [InvitationNext]_allVars /\ member' # member => PlainStep
  <1> SUFFICES ASSUME [InvitationNext]_allVars, member' # member PROVE PlainStep
    OBVIOUS
  <1>1. ~(UNCHANGED tables) /\ ~(UNCHANGED allVars)
    BY DEF tables, allVars, vars
  <1>2. \A a, i, r : ~RedeemHouseInvitation(a, i, r)
    BY DEF RedeemHouseInvitation
  <1>3. \A a, h, i, max : ~CreateHouseInvitation(a, h, i, max)
    BY <1>1 DEF CreateHouseInvitation
  <1>4. \A a, i : ~RevokeHouseInvitation(a, i)
    BY <1>1 DEF RevokeHouseInvitation
  <1>5. Next
    BY <1>1, <1>2, <1>3, <1>4 DEF InvitationNext
  <1> QED
    BY <1>5, NextIsPlain

\* Nor does redeeming an invitation let anybody in without a decision.
THEOREM EntryWithInvitations == InvitationSpec => EntryNeedsDecision
  <1> DEFINE A ==
            \A u \in Users, h \in Houses :
               /\ member[u][h] = NoRow /\ member'[u][h] # NoRow =>
                    \/ JoinApproved(u, h)
                    \/ \E i \in RegIds :
                         /\ reg[i] = [applicant |-> u, house |-> h, status |-> "PENDING"]
                         /\ reg'[i].status = "APPROVED"
                    \/ member'[u][h] = ActiveChairman /\ u \in perm' /\ h \in houses
               /\ JoinApproved(u, h) =>
                    member'[u][h] = IF member[u][h].status = "ACTIVE" THEN member[u][h]
                                                                      ELSE ActiveResident
             B ==
            \A u \in Users, h \in Houses :
               /\ member[u][h] = Without!NoRow /\ member'[u][h] # Without!NoRow =>
                    \/ Without!JoinApproved(u, h)
                    \/ \E i \in RegIds :
                         /\ reg[i] = [applicant |-> u, house |-> h, status |-> "PENDING"]
                         /\ reg'[i].status = "APPROVED"
                    \/ member'[u][h] = Without!ActiveChairman /\ u \in perm' /\ h \in houses
               /\ Without!JoinApproved(u, h) =>
                    member'[u][h] = IF member[u][h].status = "ACTIVE" THEN member[u][h]
                                                                      ELSE Without!ActiveResident
  <1>1. Without!Spec => Without!EntryNeedsDecision
    BY Without!EntryIsDecided, AdminsAssumption, NullAssumption
  <1>2. B => A
    BY SameDecisions
  <1>3. UNCHANGED <<member, join>> => A
    BY DEF JoinApproved
  <1>4. UNCHANGED Without!vars => UNCHANGED <<member, join>>
    BY DEF Without!vars
  <1> HIDE DEF A, B
  <1>5. [B]_Without!vars => [A]_vars
    BY <1>2, <1>3, <1>4
  <1> USE DEF A, B
  <1> QED
    BY <1>1, <1>5, ImplementsService, PTL
       DEF Without!EntryNeedsDecision, EntryNeedsDecision

\* A chairman is replaced as cleanly, an offer is as dead.
THEOREM ReplacementWithInvitations == InvitationSpec => ChairmanIsReplacedCleanly
  <1> DEFINE A ==
            \A h \in Houses, u, v \in Users :
              u # v /\ member[u][h] = ActiveChairman /\ member'[v][h] = ActiveChairman =>
                 /\ member'[u][h] = ActiveResident
                 /\ \A t \in TransferIds :
                      ~(transfer'[t].house = h /\ transfer'[t].status = "PENDING")
             B ==
            \A h \in Houses, u, v \in Users :
              u # v /\ member[u][h] = Without!ActiveChairman
                    /\ member'[v][h] = Without!ActiveChairman =>
                 /\ member'[u][h] = Without!ActiveResident
                 /\ \A t \in TransferIds :
                      ~(transfer'[t].house = h /\ transfer'[t].status = "PENDING")
  <1>1. Without!Spec => Without!ChairmanIsReplacedCleanly
    BY Without!ChairmenAreReplaced, AdminsAssumption, NullAssumption
  <1>2. B => A
    BY SameDecisions
  <1>3. OneChairmanRow /\ UNCHANGED member => A
    BY DEF OneChairmanRow, ActiveChairman, Row
  <1>4. UNCHANGED Without!vars => UNCHANGED member
    BY DEF Without!vars
  <1>5. ServiceKeeps => OneChairmanRow
    BY DEF ServiceKeeps
  <1> HIDE DEF A, B
  <1>6. ServiceKeeps /\ [B]_Without!vars => [A]_vars
    BY <1>2, <1>3, <1>4, <1>5
  <1> USE DEF A, B
  <1> QED
    BY <1>1, <1>6, ImplementsService, ServiceWithInvitations, PTL
       DEF Without!ChairmanIsReplacedCleanly, ChairmanIsReplacedCleanly

\* And every change of access is announced as before.
THEOREM AccessWithInvitations == InvitationSpec => AccessChangesAreAnnounced
  <1> DEFINE A ==
            \A u \in Users, h \in Houses :
              (member[u][h].status = "ACTIVE") # (member'[u][h].status = "ACTIVE") =>
                 \/ \E e \in emitted' : /\ e.kind \in MembershipEvents
                                        /\ e.house = h /\ e.user = u
                 \/ member'[u][h] = ActiveChairman /\ emitted' = {}
             B ==
            \A u \in Users, h \in Houses :
              (member[u][h].status = "ACTIVE") # (member'[u][h].status = "ACTIVE") =>
                 \/ \E e \in Plain' : /\ e.kind \in Without!MembershipEvents
                                      /\ e.house = h /\ e.user = u
                 \/ member'[u][h] = Without!ActiveChairman /\ Plain' = {}
  <1>1. Without!Spec => Without!AccessChangesAreAnnounced
    BY Without!AccessIsAnnounced, AdminsAssumption, NullAssumption
  <1>2. B /\ Plain' = emitted' => A
    BY SameDecisions
  <1>3. UNCHANGED member => A
    OBVIOUS
  <1>4. UNCHANGED Without!vars => UNCHANGED member
    BY DEF Without!vars
  <1>5. [InvitationNext]_allVars /\ member' # member => Plain' = emitted'
    BY MembersOfWorkflow DEF PlainStep, Plain
  <1> HIDE DEF A, B
  <1>6. [InvitationNext]_allVars /\ [B]_Without!vars => [A]_vars
    BY <1>2, <1>3, <1>4, <1>5
  <1>7. InvitationSpec => [][InvitationNext]_allVars
    BY PTL DEF InvitationSpec
  <1> USE DEF A, B
  <1> QED
    BY <1>1, <1>6, <1>7, ImplementsService, PTL
       DEF Without!AccessChangesAreAnnounced, AccessChangesAreAnnounced, Plain
=============================================================================

-------------------------- MODULE HouseWorkflowProofs --------------------------
(***************************************************************************)
(* Proofs about the house workflow, for any number of users, houses,       *)
(* registrations, requests and offers: first what holds also next to an    *)
(* operator who provisions, then what the service keeps alone.             *)
(***************************************************************************)
EXTENDS HouseWorkflow, TLAPS

Memberships == [Users -> [Houses -> Membership]]

-----------------------------------------------------------------------------
(* What the helpers return.                                                *)

\* The rows the operations write are memberships.
LEMMA RowTypes ==
    /\ NoRow \in Membership
    /\ ActiveChairman \in Membership
    /\ ActiveResident \in Membership
    /\ \A row \in Membership : Joined(row) \in Membership
    /\ \A role \in Roles, status \in {"ACTIVE", "INACTIVE"} :
         Row(role, status) \in Membership
  BY DEF Membership, NoRow, ActiveChairman, ActiveResident, Joined, Row, Roles

\* One membership is written.
LEMMA MemberWrite ==
    ASSUME member \in Memberships, NEW u \in Users, NEW h \in Houses,
           NEW row \in Membership
    PROVE  [member EXCEPT ![u][h] = row] \in Memberships
  BY DEF Memberships

\* An existing membership changes its status.
LEMMA StatusWrite ==
    ASSUME member \in Memberships, NEW u \in Users, NEW h \in Houses,
           member[u][h] # NoRow, NEW s \in {"ACTIVE", "INACTIVE"}
    PROVE  /\ [member EXCEPT ![u][h].status = s] \in Memberships
           /\ [member EXCEPT ![u][h].status = s] =
                [member EXCEPT ![u][h] = Row(member[u][h].role, s)]
  <1>1. member[u][h] \in [role : Roles, status : {"ACTIVE", "INACTIVE"}]
    BY DEF Memberships, Membership
  <1>2. [member[u][h] EXCEPT !.status = s] = Row(member[u][h].role, s)
    BY <1>1 DEF Row
  <1>3. Row(member[u][h].role, s) \in Membership
    BY <1>1 DEF Row, Membership
  <1>4. [member EXCEPT ![u][h].status = s] =
          [member EXCEPT ![u][h] = Row(member[u][h].role, s)]
    BY <1>2
  <1> QED
    BY <1>3, <1>4, MemberWrite

\* Taking the chairman role away keeps a row a membership.
LEMMA DemotedType ==
    ASSUME member \in Memberships, NEW U, NEW H
    PROVE  Demoted(U, H) \in Memberships
  <1>1. SUFFICES ASSUME NEW u \in Users, NEW h \in Houses,
                        u \in U, h \in H, member[u][h].role = "CHAIRMAN"
                 PROVE  Row("RESIDENT", member[u][h].status) \in Membership
    BY DEF Demoted, Memberships
  <1>2. member[u][h] \in [role : Roles, status : {"ACTIVE", "INACTIVE"}]
    BY <1>1 DEF Memberships, Membership, NoRow, Row
  <1> QED
    BY <1>2 DEF Row, Membership, Roles

\* The two writes of default_house_id.
LEMMA DefaultTypes ==
    ASSUME defaultHouse \in [Users -> Houses \cup {NoHouse}],
           NEW u \in Users, NEW h \in Houses
    PROVE  /\ DefaultTo(u, h) \in [Users -> Houses \cup {NoHouse}]
           /\ ClearDefault(u, h) \in [Users -> Houses \cup {NoHouse}]
  BY DEF DefaultTo, ClearDefault

\* Offers are closed with one of the final statuses.
LEMMA ClosedType ==
    ASSUME transfer \in [TransferIds -> Transfer], NEW T \in SUBSET Pending,
           NEW s \in {"ACCEPTED", "REJECTED", "CANCELLED", "EXPIRED"}
    PROVE  Closed(T, s) \in [TransferIds -> Transfer]
  <1>1. \A t \in T : transfer[t] \in
          [house : Houses, current : Users, target : Users,
           status : {"PENDING", "ACCEPTED", "REJECTED", "CANCELLED", "EXPIRED"}]
    BY DEF Pending, Transfer, NoTransfer
  <1>2. \A t \in T : [transfer[t] EXCEPT !.status = s] \in Transfer
    BY <1>1 DEF Transfer
  <1> QED
    BY <1>2 DEF Closed

-----------------------------------------------------------------------------
(* Types.  One step per action; the operator's command is among them, so   *)
(* the result holds with and without it.                                   *)

LEMMA InitType == Init => TypeOK
  BY DEF Init, TypeOK, Membership, NoRow, Row, Registration, JoinRequest, Transfer

LEMMA RegistrationType == TypeOK /\ RegistrationNext => TypeOK'
  <1> SUFFICES ASSUME TypeOK, NEW a \in Users, NEW i \in RegIds,
                      \/ \E h \in Houses : CreateHouseRegistration(a, h, i)
                      \/ ApproveHouseRegistration(a, i)
                      \/ RejectHouseRegistration(a, i)
                      \/ CancelHouseRegistration(a, i)
               PROVE  TypeOK'
    BY DEF RegistrationNext
  <1> USE DEF TypeOK, Event, OutboxRow, EventKinds
  <1>1. ASSUME NEW h \in Houses, CreateHouseRegistration(a, h, i) PROVE TypeOK'
    BY <1>1 DEF CreateHouseRegistration, Registration
  <1> DEFINE Filed == [applicant : Users, house : Houses,
                       status : {"PENDING", "APPROVED", "REJECTED", "CANCELLED"}]
  <1>2. Open(reg[i]) => reg[i] \in Filed
    BY DEF Open, Registration, NoRegistration
  <1>3. CASE ApproveHouseRegistration(a, i)
    <2>1. reg[i] \in Filed
      BY <1>2, <1>3 DEF ApproveHouseRegistration
    <2>2. [reg[i] EXCEPT !.status = "APPROVED"] \in Registration
      BY <2>1 DEF Registration
    <2>3. reg' \in [RegIds -> Registration]
      BY <2>2, <1>3 DEF ApproveHouseRegistration
    <2>4. member' \in Memberships
      BY <2>1, <1>3, RowTypes, MemberWrite DEF ApproveHouseRegistration, Memberships
    <2>5. defaultHouse' \in [Users -> Houses \cup {NoHouse}]
      BY <2>1, <1>3, DefaultTypes DEF ApproveHouseRegistration
    <2> QED
      BY <2>1, <2>3, <2>4, <2>5, <1>3 DEF ApproveHouseRegistration, Memberships
  <1>4. CASE RejectHouseRegistration(a, i)
    <2>1. reg[i] \in Filed
      BY <1>2, <1>4 DEF RejectHouseRegistration
    <2>2. [reg[i] EXCEPT !.status = "REJECTED"] \in Registration
      BY <2>1 DEF Registration
    <2> QED
      BY <2>1, <2>2, <1>4 DEF RejectHouseRegistration
  <1>5. CASE CancelHouseRegistration(a, i)
    <2>1. reg[i] \in Filed
      BY <1>2, <1>5 DEF CancelHouseRegistration
    <2>2. [reg[i] EXCEPT !.status = "CANCELLED"] \in Registration
      BY <2>1 DEF Registration
    <2> QED
      BY <2>1, <2>2, <1>5 DEF CancelHouseRegistration
  <1> QED
    BY <1>1, <1>3, <1>4, <1>5

LEMMA JoinType == TypeOK /\ JoinNext => TypeOK'
  <1> SUFFICES ASSUME TypeOK, NEW a \in Users, NEW i \in JoinIds,
                      \/ \E h \in Houses : CreateJoinRequest(a, h, i)
                      \/ ApproveJoinRequest(a, i)
                      \/ RejectJoinRequest(a, i)
                      \/ CancelJoinRequest(a, i)
               PROVE  TypeOK'
    BY DEF JoinNext
  <1> USE DEF TypeOK, Event, OutboxRow, EventKinds
  <1>1. ASSUME NEW h \in Houses, CreateJoinRequest(a, h, i) PROVE TypeOK'
    BY <1>1 DEF CreateJoinRequest, JoinRequest
  <1> DEFINE Filed == [user : Users, house : Houses,
                       status : {"PENDING", "APPROVED", "REJECTED", "CANCELLED"}]
  <1>2. Open(join[i]) => /\ join[i] \in Filed
                         /\ \A s \in {"APPROVED", "REJECTED", "CANCELLED"} :
                              [join[i] EXCEPT !.status = s] \in JoinRequest
    <2> SUFFICES ASSUME Open(join[i])
                 PROVE  /\ join[i] \in Filed
                        /\ \A s \in {"APPROVED", "REJECTED", "CANCELLED"} :
                              [join[i] EXCEPT !.status = s] \in JoinRequest
      OBVIOUS
    <2>1. join[i] \in Filed
      BY DEF Open, JoinRequest, NoJoin
    <2>2. ASSUME NEW s \in {"APPROVED", "REJECTED", "CANCELLED"}
          PROVE  [join[i] EXCEPT !.status = s] \in JoinRequest
      BY <2>1 DEF JoinRequest
    <2> QED
      BY <2>1, <2>2
  <1>3. CASE ApproveJoinRequest(a, i)
    <2>1. Open(join[i])
      BY <1>3 DEF ApproveJoinRequest
    <2>2. join' \in [JoinIds -> JoinRequest]
      BY <2>1, <1>2, <1>3 DEF ApproveJoinRequest
    <2>3. Joined(member[join[i].user][join[i].house]) \in Membership
      BY <2>1, <1>2, RowTypes
    <2>4. member' \in Memberships
      BY <2>1, <2>3, <1>2, <1>3, MemberWrite DEF ApproveJoinRequest, Memberships
    <2>5. defaultHouse' \in [Users -> Houses \cup {NoHouse}]
      BY <2>1, <1>2, <1>3, DefaultTypes DEF ApproveJoinRequest
    <2> QED
      BY <2>1, <2>2, <2>4, <2>5, <1>2, <1>3 DEF ApproveJoinRequest, Memberships
  <1>4. CASE RejectJoinRequest(a, i)
    BY <1>2, <1>4 DEF RejectJoinRequest
  <1>5. CASE CancelJoinRequest(a, i)
    BY <1>2, <1>5 DEF CancelJoinRequest
  <1> QED
    BY <1>1, <1>3, <1>4, <1>5
LEMMA TransferType == TypeOK /\ TransferNext => TypeOK'
  <1> SUFFICES ASSUME TypeOK, NEW late \in SUBSET Pending,
                      \/ \E a \in Users, i \in TransferIds :
                           \/ \E h \in Houses, u \in Users :
                                CreateChairmanTransfer(a, h, u, i, late)
                           \/ AcceptChairmanTransfer(a, i, late)
                           \/ RejectChairmanTransfer(a, i, late)
                           \/ CancelChairmanTransfer(a, i, late)
                      \/ ListChairmanTransfers(late)
               PROVE  TypeOK'
    BY DEF TransferNext
  <1> USE DEF TypeOK, Event, OutboxRow, EventKinds
  <1> DEFINE expired == Closed(late, "EXPIRED")
             Offer == [house : Houses, current : Users, target : Users,
                       status : {"PENDING", "ACCEPTED", "REJECTED", "CANCELLED",
                                 "EXPIRED"}]
  <1>1. expired \in [TransferIds -> Transfer]
    BY ClosedType
  \* An offer that is not late is open in the expired table as it was.
  <1>2. ASSUME NEW i \in Pending \ late
        PROVE  /\ i \in TransferIds
               /\ transfer[i] \in Offer
               /\ \A s \in {"ACCEPTED", "REJECTED", "CANCELLED"} :
                    [expired EXCEPT ![i].status = s] \in [TransferIds -> Transfer]
    <2>1. i \in TransferIds /\ transfer[i] \in Offer
      BY DEF Pending, Transfer, NoTransfer
    <2>2. expired[i] = transfer[i]
      BY <2>1 DEF Closed
    <2>3. ASSUME NEW s \in {"ACCEPTED", "REJECTED", "CANCELLED"}
          PROVE  [expired[i] EXCEPT !.status = s] \in Transfer
      <3> DEFINE row == expired[i]
      <3>1. row \in Offer
        BY <2>1, <2>2
      <3> HIDE DEF row
      <3>2. [row EXCEPT !.status = s] \in Transfer
        BY <3>1 DEF Transfer
      <3> QED
        BY <3>2 DEF row
    <2> HIDE DEF expired
    <2>4. ASSUME NEW s \in {"ACCEPTED", "REJECTED", "CANCELLED"}
          PROVE  [expired EXCEPT ![i].status = s] \in [TransferIds -> Transfer]
      BY <1>1, <2>1, <2>3
    <2> QED
      BY <2>1, <2>4
  <1>3. ASSUME NEW a \in Users, NEW h \in Houses, NEW u \in Users,
               NEW i \in TransferIds, CreateChairmanTransfer(a, h, u, i, late)
        PROVE  TypeOK'
    <2>1. [house |-> h, current |-> a, target |-> u, status |-> "PENDING"] \in Transfer
      BY DEF Transfer
    <2> QED
      BY <1>1, <1>3, <2>1 DEF CreateChairmanTransfer
  <1>4. ASSUME NEW a \in Users, NEW i \in TransferIds,
               AcceptChairmanTransfer(a, i, late)
        PROVE  TypeOK'
    <2>1. i \in Pending \ late
      BY <1>4 DEF AcceptChairmanTransfer
    <2>2. transfer[i] \in Offer /\ transfer' \in [TransferIds -> Transfer]
      BY <2>1, <1>2, <1>4 DEF AcceptChairmanTransfer
    <2>3. [member EXCEPT ![transfer[i].current][transfer[i].house] = ActiveResident]
            \in Memberships
      BY <2>2, RowTypes, MemberWrite DEF Memberships
    <2>4. member' \in Memberships
      BY <2>2, <2>3, <1>4, RowTypes DEF AcceptChairmanTransfer, Memberships
    <2>5. emitted' \subseteq OutboxRow
      BY <2>2, <1>4 DEF AcceptChairmanTransfer
    <2> QED
      BY <2>2, <2>4, <2>5, <1>4 DEF AcceptChairmanTransfer, Memberships
  <1>5. ASSUME NEW a \in Users, NEW i \in TransferIds,
               RejectChairmanTransfer(a, i, late)
        PROVE  TypeOK'
    <2>1. transfer[i] \in Offer /\ transfer' \in [TransferIds -> Transfer]
      BY <1>2, <1>5 DEF RejectChairmanTransfer
    <2>2. emitted' \subseteq OutboxRow
      BY <2>1, <1>5 DEF RejectChairmanTransfer
    <2> QED
      BY <2>1, <2>2, <1>5 DEF RejectChairmanTransfer
  <1>6. ASSUME NEW a \in Users, NEW i \in TransferIds,
               CancelChairmanTransfer(a, i, late)
        PROVE  TypeOK'
    <2>1. transfer[i] \in Offer /\ transfer' \in [TransferIds -> Transfer]
      BY <1>2, <1>6 DEF CancelChairmanTransfer
    <2>2. emitted' \subseteq OutboxRow
      BY <2>1, <1>6 DEF CancelChairmanTransfer
    <2> QED
      BY <2>1, <2>2, <1>6 DEF CancelChairmanTransfer
  <1>7. CASE ListChairmanTransfers(late)
    BY <1>1, <1>7 DEF ListChairmanTransfers
  <1> QED
    BY <1>3, <1>4, <1>5, <1>6, <1>7

LEMMA MembersType == TypeOK /\ MembersNext => TypeOK'
  <1> SUFFICES ASSUME TypeOK, NEW a \in Users, NEW u \in Users, NEW h \in Houses,
                      \/ DeactivateMembership(a, u, h)
                      \/ ReactivateMembership(a, u, h)
                      \/ RemoveMembership(a, u, h)
               PROVE  TypeOK'
    BY DEF MembersNext
  <1> USE DEF TypeOK, Event, OutboxRow, EventKinds, Memberships, MayManageMember
  <1>1. CASE DeactivateMembership(a, u, h)
    <2>1. member' \in Memberships
      BY <1>1, StatusWrite DEF DeactivateMembership
    <2> QED
      BY <1>1, <2>1, DefaultTypes DEF DeactivateMembership
  <1>2. CASE ReactivateMembership(a, u, h)
    <2>1. member' \in Memberships
      BY <1>2, StatusWrite DEF ReactivateMembership
    <2> QED
      BY <1>2, <2>1 DEF ReactivateMembership
  <1>3. CASE RemoveMembership(a, u, h)
    BY <1>3, MemberWrite, RowTypes, DefaultTypes DEF RemoveMembership
  <1> QED
    BY <1>1, <1>2, <1>3

LEMMA AdministrationType == TypeOK /\ AdministrationNext => TypeOK'
  <1> SUFFICES ASSUME TypeOK, NEW a \in Users,
                      \/ \E u \in Users : GrantChairmanPermission(a, u)
                      \/ \E u \in Users : RevokeChairmanPermission(a, u)
                      \/ \E u \in Users, h \in Houses : AssignHouseChairman(a, u, h)
                      \/ \E h \in Houses : RemoveHouseChairman(a, h)
               PROVE  TypeOK'
    BY DEF AdministrationNext
  <1> USE DEF TypeOK, Memberships
  <1>1. ASSUME NEW u \in Users, GrantChairmanPermission(a, u) PROVE TypeOK'
    BY <1>1 DEF GrantChairmanPermission
  <1>2. ASSUME NEW u \in Users, RevokeChairmanPermission(a, u) PROVE TypeOK'
    <2> DEFINE Named == {t \in Pending : u \in {transfer[t].current, transfer[t].target}}
    <2>1. Closed(Named, "CANCELLED") \in [TransferIds -> Transfer]
      BY ClosedType
    <2>2. ASSUME NEW i \in RegIds, reg[i].status = "PENDING"
          PROVE  [reg[i] EXCEPT !.status = "CANCELLED"] \in Registration
      <3>1. reg[i] \in [applicant : Users, house : Houses,
                        status : {"PENDING", "APPROVED", "REJECTED", "CANCELLED"}]
        BY <2>2 DEF Registration, NoRegistration
      <3> QED
        BY <3>1 DEF Registration
    <2>3. reg' \in [RegIds -> Registration]
      BY <1>2, <2>2 DEF RevokeChairmanPermission
    <2> QED
      BY <1>2, <2>1, <2>3, DemotedType DEF RevokeChairmanPermission
  <1>3. ASSUME NEW u \in Users, NEW h \in Houses, AssignHouseChairman(a, u, h)
        PROVE  TypeOK'
    <2>1. Closed(HouseOffers(h), "CANCELLED") \in [TransferIds -> Transfer]
      BY ClosedType DEF HouseOffers
    <2>2. member' \in Memberships
      BY <1>3, DemotedType, RowTypes DEF AssignHouseChairman
    <2> QED
      BY <1>3, <2>1, <2>2, DefaultTypes DEF AssignHouseChairman
  <1>4. ASSUME NEW h \in Houses, RemoveHouseChairman(a, h) PROVE TypeOK'
    <2>1. Closed(HouseOffers(h), "CANCELLED") \in [TransferIds -> Transfer]
      BY ClosedType DEF HouseOffers
    <2> QED
      BY <1>4, <2>1, DemotedType DEF RemoveHouseChairman
  <1> QED
    BY <1>1, <1>2, <1>3, <1>4

LEMMA StepType == TypeOK /\ [OperatorNext]_vars => TypeOK'
  <1> SUFFICES ASSUME TypeOK, [OperatorNext]_vars PROVE TypeOK'
    OBVIOUS
  <1>1. CASE Replay
    BY <1>1 DEF Replay, tables, TypeOK
  <1>2. CASE \E u \in Users, h \in Houses, role \in Roles,
                status \in {"ACTIVE", "INACTIVE"} : Provision(u, h, role, status)
    BY <1>2, MemberWrite, RowTypes, DefaultTypes DEF Provision, TypeOK, Memberships
  <1>3. CASE UNCHANGED vars
    BY <1>3 DEF vars, TypeOK, Pending
  <1> QED
    BY <1>1, <1>2, <1>3, RegistrationType, JoinType, TransferType, MembersType,
       AdministrationType DEF OperatorNext, Next

\* Every reachable state is well typed, also while an operator provisions.
THEOREM TypeCorrect == OperatorSpec => []TypeOK
  <1> QED
    BY InitType, StepType, PTL DEF OperatorSpec

-----------------------------------------------------------------------------
(* Where a written row can be read.                                        *)

LEMMA MemberAt ==
    ASSUME member \in Memberships, NEW u \in Users, NEW h \in Houses, NEW row,
           NEW v \in Users, NEW k \in Houses
    PROVE  [member EXCEPT ![u][h] = row][v][k] =
             IF v = u /\ k = h THEN row ELSE member[v][k]
  BY DEF Memberships

\* A demoted row is no CHAIRMAN row; the others are what they were.
LEMMA DemotedAt ==
    ASSUME member \in Memberships, NEW U, NEW H, NEW v \in Users, NEW k \in Houses
    PROVE  /\ Demoted(U, H)[v][k].role = "CHAIRMAN" =>
                 ~(v \in U /\ k \in H) /\ Demoted(U, H)[v][k] = member[v][k]
           /\ member[v][k] = NoRow => Demoted(U, H)[v][k] = NoRow
  BY DEF Memberships, Demoted, Row, NoRow

LEMMA ClosedAt ==
    ASSUME transfer \in [TransferIds -> Transfer], NEW T \in SUBSET Pending,
           NEW s \in {"ACCEPTED", "REJECTED", "CANCELLED", "EXPIRED"},
           NEW t \in TransferIds
    PROVE  /\ Closed(T, s)[t].house = transfer[t].house
           /\ Closed(T, s)[t] # NoTransfer => transfer[t] # NoTransfer
           /\ Closed(T, s)[t].status = "PENDING" =>
                 t \notin T /\ Closed(T, s)[t] = transfer[t]
  <1>1. t \notin T => Closed(T, s)[t] = transfer[t]
    BY DEF Closed
  <1>2. ASSUME t \in T
        PROVE  /\ Closed(T, s)[t].house = transfer[t].house
               /\ Closed(T, s)[t].status = s
               /\ transfer[t] # NoTransfer
    <2>1. transfer[t] \in [house : Houses, current : Users, target : Users,
            status : {"PENDING", "ACCEPTED", "REJECTED", "CANCELLED", "EXPIRED"}]
      BY <1>2 DEF Pending, Transfer, NoTransfer
    <2>2. Closed(T, s)[t] = [transfer[t] EXCEPT !.status = s]
      BY <1>2 DEF Closed
    <2>3. transfer[t] # NoTransfer
      BY <1>2 DEF Pending, NoTransfer
    <2> QED
      BY <2>1, <2>2, <2>3
  <1> QED
    BY <1>1, <1>2

\* What tells the rows the operations write apart.
LEMMA Rows ==
    /\ ActiveChairman.role = "CHAIRMAN"
    /\ ActiveResident.role # "CHAIRMAN"
    /\ NoRow.role # "CHAIRMAN"
    /\ NoRow # ActiveChairman /\ NoRow # ActiveResident
    /\ ActiveResident # ActiveChairman
    /\ \A row \in Membership : Joined(row).role = "CHAIRMAN" => Joined(row) = row
    /\ \A row \in Membership, s \in {"ACTIVE", "INACTIVE"} :
         /\ Row(row.role, s).role = row.role
         /\ Row(row.role, s) = ActiveChairman => row.role = "CHAIRMAN" /\ s = "ACTIVE"
  BY DEF ActiveChairman, ActiveResident, NoRow, Row, Joined

-----------------------------------------------------------------------------
(* The foreign keys.                                                       *)

LEMMA StepRows ==
    TypeOK /\ RowsNameHouses /\ [OperatorNext]_vars => RowsNameHouses'
  <1> SUFFICES ASSUME TypeOK, RowsNameHouses, [OperatorNext]_vars
               PROVE  RowsNameHouses'
    OBVIOUS
  <1> USE DEF TypeOK, RowsNameHouses
  <1>0. member \in Memberships
    BY DEF Memberships
  <1>1. CASE RegistrationNext
    <2>1. PICK a \in Users, i \in RegIds :
            \/ \E h \in Houses : CreateHouseRegistration(a, h, i)
            \/ ApproveHouseRegistration(a, i)
            \/ RejectHouseRegistration(a, i)
            \/ CancelHouseRegistration(a, i)
      BY <1>1 DEF RegistrationNext
    <2>2. CASE ApproveHouseRegistration(a, i)
      <3>1. reg[i].applicant \in Users /\ reg[i].house \in Houses
        BY <2>2 DEF ApproveHouseRegistration, Open, Registration, NoRegistration
      <3> QED
        BY <2>2, <3>1, <1>0, MemberAt DEF ApproveHouseRegistration
    <2> QED
      BY <2>1, <2>2 DEF CreateHouseRegistration, RejectHouseRegistration,
         CancelHouseRegistration
  <1>2. CASE JoinNext
    <2>1. PICK a \in Users, i \in JoinIds :
            \/ \E h \in Houses : CreateJoinRequest(a, h, i)
            \/ ApproveJoinRequest(a, i)
            \/ RejectJoinRequest(a, i)
            \/ CancelJoinRequest(a, i)
      BY <1>2 DEF JoinNext
    <2>2. ASSUME NEW h \in Houses, CreateJoinRequest(a, h, i)
          PROVE  RowsNameHouses'
      BY <2>2 DEF CreateJoinRequest
    <2>3. Open(join[i]) => /\ join[i].user \in Users
                           /\ join[i].house \in houses
      BY DEF Open, JoinRequest, NoJoin
    <2>4. ASSUME Open(join[i]), NEW s \in {"APPROVED", "REJECTED", "CANCELLED"}
          PROVE  [join[i] EXCEPT !.status = s].house = join[i].house
      BY <2>4 DEF Open, JoinRequest, NoJoin
    <2>5. CASE ApproveJoinRequest(a, i)
      <3>1. join[i].user \in Users /\ join[i].house \in houses
        BY <2>3, <2>5 DEF ApproveJoinRequest
      <3>2. \A v \in Users, k \in Houses \ houses : member'[v][k] = NoRow
        BY <2>5, <3>1, <1>0, MemberAt DEF ApproveJoinRequest
      <3>3. \A j \in JoinIds : join'[j].house = join[j].house
        BY <2>5, <2>4 DEF ApproveJoinRequest
      <3>4. \A j \in JoinIds : join'[j] # NoJoin => join[j] # NoJoin
        BY <2>5, <2>3, <3>1, NullAssumption DEF ApproveJoinRequest, NoJoin
      <3> QED
        BY <2>5, <3>2, <3>3, <3>4 DEF ApproveJoinRequest
    <2>6. CASE RejectJoinRequest(a, i)
      BY <2>6, <2>3, <2>4 DEF RejectJoinRequest
    <2>7. CASE CancelJoinRequest(a, i)
      BY <2>7, <2>3, <2>4 DEF CancelJoinRequest
    <2> QED
      BY <2>1, <2>2, <2>5, <2>6, <2>7
  <1>3. CASE TransferNext
    <2>1. PICK late \in SUBSET Pending :
            \/ \E a \in Users, i \in TransferIds :
                 \/ \E h \in Houses, u \in Users :
                      CreateChairmanTransfer(a, h, u, i, late)
                 \/ AcceptChairmanTransfer(a, i, late)
                 \/ RejectChairmanTransfer(a, i, late)
                 \/ CancelChairmanTransfer(a, i, late)
            \/ ListChairmanTransfers(late)
      BY <1>3 DEF TransferNext
    <2> DEFINE expired == Closed(late, "EXPIRED")
    <2>2. \A t \in TransferIds : expired[t] # NoTransfer => expired[t].house \in houses
      BY ClosedAt
    <2>3. expired \in [TransferIds -> Transfer]
      BY ClosedType
    <2>4. ASSUME NEW i \in Pending \ late
          PROVE  /\ expired[i] = transfer[i]
                 /\ transfer[i].house \in houses
                 /\ \A s : [expired[i] EXCEPT !.status = s].house = transfer[i].house
      <3>1. i \in TransferIds /\ transfer[i] # NoTransfer
        BY DEF Pending, NoTransfer
      <3>2. transfer[i] \in [house : Houses, current : Users, target : Users,
              status : {"PENDING", "ACCEPTED", "REJECTED", "CANCELLED", "EXPIRED"}]
        BY <3>1 DEF Transfer
      <3>3. expired[i] = transfer[i]
        BY <3>1 DEF Closed
      <3>4. ASSUME NEW s PROVE [transfer[i] EXCEPT !.status = s].house = transfer[i].house
        BY <3>2
      <3> QED
        BY <3>1, <3>3, <3>4
    <2> HIDE DEF expired
    <2>5. ASSUME NEW a \in Users, NEW i \in TransferIds, NEW h \in Houses,
                 NEW u \in Users, CreateChairmanTransfer(a, h, u, i, late)
          PROVE  RowsNameHouses'
      <3>1. h \in houses
        BY <2>5, Rows DEF CreateChairmanTransfer
      <3> QED
        BY <2>5, <2>2, <2>3, <3>1 DEF CreateChairmanTransfer, expired
    <2>6. ASSUME NEW i \in Pending \ late, NEW s,
                 transfer' = [expired EXCEPT ![i].status = s]
          PROVE  \A t \in TransferIds :
                   transfer'[t] # NoTransfer => transfer'[t].house \in houses
      BY <2>2, <2>3, <2>4, <2>6
    <2>7. ASSUME NEW a \in Users, NEW i \in TransferIds,
                 AcceptChairmanTransfer(a, i, late)
          PROVE  RowsNameHouses'
      <3>1. i \in Pending \ late /\ transfer[i].house \in houses
        BY <2>4, <2>7 DEF AcceptChairmanTransfer
      <3>2. \A v \in Users, k \in Houses \ houses : member'[v][k] = member[v][k]
        BY <2>7, <3>1 DEF AcceptChairmanTransfer
      <3>3. transfer' = [expired EXCEPT ![i].status = "ACCEPTED"]
        BY <2>7 DEF AcceptChairmanTransfer, expired
      <3>4. \A t \in TransferIds : transfer'[t] # NoTransfer => transfer'[t].house \in houses
        BY <2>6, <3>1, <3>3
      <3>5. houses' = houses /\ join' = join
        BY <2>7 DEF AcceptChairmanTransfer
      <3> QED
        BY <3>2, <3>4, <3>5
    <2>8. ASSUME NEW a \in Users, NEW i \in TransferIds,
                 RejectChairmanTransfer(a, i, late) \/ CancelChairmanTransfer(a, i, late)
          PROVE  RowsNameHouses'
      <3>1. PICK s \in {"REJECTED", "CANCELLED"} :
              transfer' = [expired EXCEPT ![i].status = s]
        BY <2>8 DEF RejectChairmanTransfer, CancelChairmanTransfer, expired
      <3>2. i \in Pending \ late
        BY <2>8 DEF RejectChairmanTransfer, CancelChairmanTransfer
      <3> QED
        BY <2>6, <2>8, <3>1, <3>2 DEF RejectChairmanTransfer, CancelChairmanTransfer
    <2>9. CASE ListChairmanTransfers(late)
      BY <2>2, <2>9 DEF ListChairmanTransfers, expired
    <2> QED
      BY <2>1, <2>5, <2>7, <2>8, <2>9
  <1>4. CASE MembersNext
    <2>1. PICK a \in Users, u \in Users, h \in Houses :
            \/ DeactivateMembership(a, u, h)
            \/ ReactivateMembership(a, u, h)
            \/ RemoveMembership(a, u, h)
      BY <1>4 DEF MembersNext
    <2>2. member[u][h] # NoRow
      BY <2>1 DEF DeactivateMembership, ReactivateMembership, RemoveMembership,
                  MayManageMember
    <2>3. PICK row : member' = [member EXCEPT ![u][h] = row]
      BY <2>1 DEF DeactivateMembership, ReactivateMembership, RemoveMembership
    <2>4. \A v \in Users, k \in Houses \ houses : member'[v][k] = NoRow
      BY <1>0, <2>2, <2>3, MemberAt
    <2> QED
      BY <2>1, <2>4 DEF DeactivateMembership, ReactivateMembership, RemoveMembership
  <1>5. CASE AdministrationNext
    <2>1. ASSUME NEW a \in Users, NEW u \in Users, GrantChairmanPermission(a, u)
          PROVE  RowsNameHouses'
      BY <2>1 DEF GrantChairmanPermission
    <2>2. ASSUME NEW a \in Users, NEW u \in Users, RevokeChairmanPermission(a, u)
          PROVE  RowsNameHouses'
      <3> DEFINE Named == {t \in Pending : u \in {transfer[t].current, transfer[t].target}}
      <3>1. \A t \in TransferIds : /\ Closed(Named, "CANCELLED")[t] # NoTransfer
                                       => transfer[t] # NoTransfer
                                  /\ Closed(Named, "CANCELLED")[t].house = transfer[t].house
        BY ClosedAt
      <3>2. \A t \in TransferIds : transfer'[t] # NoTransfer => transfer'[t].house \in houses
        BY <2>2, <3>1 DEF RevokeChairmanPermission
      <3>3. \A v \in Users, k \in Houses \ houses : member'[v][k] = NoRow
        BY <1>0, <2>2, DemotedAt DEF RevokeChairmanPermission
      <3>4. houses' = houses /\ join' = join
        BY <2>2 DEF RevokeChairmanPermission
      <3> QED
        BY <3>2, <3>3, <3>4
    <2>3. ASSUME NEW h \in Houses
          PROVE  \A t \in TransferIds :
                   Closed(HouseOffers(h), "CANCELLED")[t] # NoTransfer =>
                     Closed(HouseOffers(h), "CANCELLED")[t].house \in houses
      <3>1. HouseOffers(h) \in SUBSET Pending
        BY DEF HouseOffers
      <3> QED
        BY <3>1, ClosedAt
    <2>4. ASSUME NEW a \in Users, NEW u \in Users, NEW h \in Houses,
                 AssignHouseChairman(a, u, h)
          PROVE  RowsNameHouses'
      <3>1. Demoted(Users, {h}) \in Memberships
        BY <1>0, DemotedType
      <3>2. \A v \in Users, k \in Houses \ houses : member'[v][k] = NoRow
        BY <1>0, <2>4, <3>1, DemotedAt DEF AssignHouseChairman, Memberships
      <3> QED
        BY <2>3, <2>4, <3>2 DEF AssignHouseChairman
    <2>5. ASSUME NEW a \in Users, NEW h \in Houses, RemoveHouseChairman(a, h)
          PROVE  RowsNameHouses'
      BY <1>0, <2>3, <2>5, DemotedAt DEF RemoveHouseChairman
    <2> QED
      BY <1>5, <2>1, <2>2, <2>4, <2>5 DEF AdministrationNext
  <1>6. CASE Replay \/ UNCHANGED vars
    BY <1>6 DEF Replay, tables, vars
  <1>7. ASSUME NEW u \in Users, NEW h \in Houses, NEW role \in Roles,
               NEW status \in {"ACTIVE", "INACTIVE"}, Provision(u, h, role, status)
        PROVE  RowsNameHouses'
    BY <1>0, <1>7, MemberAt DEF Provision
  <1> QED
    BY <1>1, <1>2, <1>3, <1>4, <1>5, <1>6, <1>7 DEF OperatorNext, Next

-----------------------------------------------------------------------------
(* One ACTIVE chairman, also with an operator who provisions.  The         *)
(* invariant needs the foreign keys: approving a registration appoints a   *)
(* chairman without looking at the memberships of the new house.           *)

SeatInv == TypeOK /\ RowsNameHouses /\ OneActiveChairman

\* A step that makes nobody ACTIVE chairman.
NobodySeated ==
    \A v \in Users, k \in Houses :
        member'[v][k] = ActiveChairman => member[v][k] = ActiveChairman

\* A step that makes u, and nobody else in h, ACTIVE chairman of h.
Seated(u, h) ==
    \A v \in Users, k \in Houses :
        /\ member'[v][k] = ActiveChairman
        /\ ~(v = u /\ k = h)
        => member[v][k] = ActiveChairman /\ k # h

LEMMA SeatSteps ==
    ASSUME OneActiveChairman,
           NobodySeated \/ \E u \in Users, h \in Houses : Seated(u, h)
    PROVE  OneActiveChairman'
  <1>1. ActiveChairman' = ActiveChairman
    BY DEF ActiveChairman, Row
  <1> QED
    BY <1>1 DEF OneActiveChairman, NobodySeated, Seated

LEMMA SeatRegistration ==
    SeatInv /\ RegistrationNext => OneActiveChairman'
  <1> SUFFICES ASSUME SeatInv, NEW a \in Users, NEW i \in RegIds,
                      \/ \E h \in Houses : CreateHouseRegistration(a, h, i)
                      \/ ApproveHouseRegistration(a, i)
                      \/ RejectHouseRegistration(a, i)
                      \/ CancelHouseRegistration(a, i)
               PROVE  OneActiveChairman'
    BY DEF RegistrationNext
  <1> USE DEF SeatInv
  <1>1. CASE ApproveHouseRegistration(a, i)
    <2> DEFINE u == reg[i].applicant
               h == reg[i].house
    <2>1. u \in Users /\ h \in Houses \ houses
      BY <1>1 DEF ApproveHouseRegistration, Open, TypeOK, Registration, NoRegistration
    <2>2. Seated(u, h)
      BY <1>1, <2>1, MemberAt, Rows
         DEF ApproveHouseRegistration, Seated, RowsNameHouses, TypeOK, Memberships
    <2> QED
      BY <2>1, <2>2, SeatSteps
  <1>2. CASE ~ApproveHouseRegistration(a, i)
    <2>1. NobodySeated
      BY <1>2 DEF CreateHouseRegistration, RejectHouseRegistration,
         CancelHouseRegistration, NobodySeated
    <2> QED
      BY <2>1, SeatSteps
  <1> QED
    BY <1>1, <1>2

LEMMA SeatJoin == SeatInv /\ JoinNext => OneActiveChairman'
  <1> SUFFICES ASSUME SeatInv, NEW a \in Users, NEW i \in JoinIds,
                      \/ \E h \in Houses : CreateJoinRequest(a, h, i)
                      \/ ApproveJoinRequest(a, i)
                      \/ RejectJoinRequest(a, i)
                      \/ CancelJoinRequest(a, i)
               PROVE  NobodySeated
    BY SeatSteps DEF JoinNext, SeatInv
  <1>1. CASE ApproveJoinRequest(a, i)
    <2>1. join[i].user \in Users /\ join[i].house \in Houses
      BY <1>1 DEF ApproveJoinRequest, Open, SeatInv, TypeOK, JoinRequest, NoJoin
    <2>2. ASSUME NEW row, Joined(row) = ActiveChairman PROVE row = ActiveChairman
      BY <2>2, Rows DEF Joined
    <2>3. member \in Memberships
      BY DEF SeatInv, TypeOK, Memberships
    <2> QED
      BY <1>1, <2>1, <2>2, <2>3, MemberAt DEF ApproveJoinRequest, NobodySeated
  <1> QED
    BY <1>1 DEF CreateJoinRequest, RejectJoinRequest, CancelJoinRequest, NobodySeated

LEMMA SeatTransfer == SeatInv /\ TransferNext => OneActiveChairman'
  <1> SUFFICES ASSUME SeatInv, NEW late \in SUBSET Pending, TransferNext
               PROVE  OneActiveChairman'
    BY DEF TransferNext
  <1>1. ASSUME NEW a \in Users, NEW i \in TransferIds, NEW l,
               AcceptChairmanTransfer(a, i, l)
        PROVE  OneActiveChairman'
    <2> DEFINE h == transfer[i].house
               c == transfer[i].current
    <2>1. h \in Houses /\ c \in Users
      BY <1>1 DEF AcceptChairmanTransfer, Pending, SeatInv, TypeOK, Transfer, NoTransfer
    <2>2. Seated(a, h)
      BY <1>1, <2>1, Rows
         DEF AcceptChairmanTransfer, Seated, SeatInv, OneActiveChairman, TypeOK
    <2> QED
      BY <2>1, <2>2, SeatSteps DEF SeatInv
  <1>2. ASSUME member' = member PROVE OneActiveChairman'
    BY <1>2, SeatSteps DEF NobodySeated, SeatInv
  <1> QED
    BY <1>1, <1>2 DEF TransferNext, CreateChairmanTransfer, RejectChairmanTransfer,
       CancelChairmanTransfer, ListChairmanTransfers

LEMMA SeatMembers == SeatInv /\ MembersNext => OneActiveChairman'
  <1> SUFFICES ASSUME SeatInv, NEW a \in Users, NEW u \in Users, NEW h \in Houses,
                      \/ DeactivateMembership(a, u, h)
                      \/ ReactivateMembership(a, u, h)
                      \/ RemoveMembership(a, u, h)
               PROVE  NobodySeated \/ Seated(u, h)
    BY SeatSteps DEF MembersNext, SeatInv
  <1>0. member \in Memberships /\ member[u][h] \in Membership
    BY DEF SeatInv, TypeOK, Memberships
  <1>1. CASE DeactivateMembership(a, u, h)
    <2>1. member' = [member EXCEPT ![u][h] = Row(member[u][h].role, "INACTIVE")]
      BY <1>0, <1>1, StatusWrite DEF DeactivateMembership, MayManageMember
    <2> QED
      BY <1>0, <2>1, MemberAt, Rows DEF NobodySeated
  <1>2. CASE ReactivateMembership(a, u, h)
    <2>1. member' = [member EXCEPT ![u][h] = Row(member[u][h].role, "ACTIVE")]
      BY <1>0, <1>2, StatusWrite DEF ReactivateMembership, MayManageMember
    <2>2. CASE member[u][h].role = "CHAIRMAN"
      BY <1>0, <1>2, <2>1, <2>2, MemberAt
         DEF ReactivateMembership, ChairmanSeatFree, Seated
    <2>3. CASE member[u][h].role # "CHAIRMAN"
      BY <1>0, <2>1, <2>3, MemberAt, Rows DEF NobodySeated
    <2> QED
      BY <2>2, <2>3
  <1>3. CASE RemoveMembership(a, u, h)
    BY <1>0, <1>3, MemberAt, Rows DEF RemoveMembership, NobodySeated
  <1> QED
    BY <1>1, <1>2, <1>3

LEMMA SeatAdministration == SeatInv /\ AdministrationNext => OneActiveChairman'
  <1> SUFFICES ASSUME SeatInv, AdministrationNext PROVE OneActiveChairman'
    OBVIOUS
  <1>0. member \in Memberships
    BY DEF SeatInv, TypeOK, Memberships
  <1>1. ASSUME NEW U, NEW H, member' = Demoted(U, H) PROVE NobodySeated
    BY <1>0, <1>1, DemotedAt, Rows DEF NobodySeated
  <1>2. ASSUME NEW a \in Users, NEW u \in Users, NEW h \in Houses,
               AssignHouseChairman(a, u, h)
        PROVE  Seated(u, h)
    <2>1. Demoted(Users, {h}) \in Memberships
      BY <1>0, DemotedType
    <2>2. ASSUME NEW v \in Users, NEW k \in Houses, ~(v = u /\ k = h)
          PROVE  member'[v][k] = Demoted(Users, {h})[v][k]
      BY <1>2, <2>1, <2>2 DEF AssignHouseChairman, Memberships
    <2> QED
      BY <1>0, <2>2, DemotedAt, Rows DEF Seated
  <1>3. ASSUME member' = member PROVE NobodySeated
    BY <1>3 DEF NobodySeated
  <1> QED
    BY <1>1, <1>2, <1>3, SeatSteps DEF AdministrationNext, GrantChairmanPermission,
       RevokeChairmanPermission, RemoveHouseChairman, SeatInv

LEMMA SeatProvision ==
    ASSUME SeatInv, NEW u \in Users, NEW h \in Houses, NEW role \in Roles,
           NEW status \in {"ACTIVE", "INACTIVE"}, Provision(u, h, role, status)
    PROVE  OneActiveChairman'
  <1>0. member \in Memberships
    BY DEF SeatInv, TypeOK, Memberships
  <1>1. CASE role = "CHAIRMAN" /\ status = "ACTIVE"
    <2>1. Seated(u, h)
      BY <1>0, <1>1, MemberAt DEF Provision, ChairmanSeatFree, Seated
    <2> QED
      BY <2>1, SeatSteps DEF SeatInv
  <1>2. CASE ~(role = "CHAIRMAN" /\ status = "ACTIVE")
    <2>1. Row(role, status) # ActiveChairman
      BY <1>2 DEF Row, ActiveChairman
    <2>2. NobodySeated
      BY <1>0, <2>1, MemberAt DEF Provision, NobodySeated
    <2> QED
      BY <2>2, SeatSteps DEF SeatInv
  <1> QED
    BY <1>1, <1>2

LEMMA SeatInvInductive == SeatInv /\ [OperatorNext]_vars => SeatInv'
  <1> SUFFICES ASSUME SeatInv, [OperatorNext]_vars PROVE SeatInv'
    OBVIOUS
  <1>1. TypeOK' /\ RowsNameHouses'
    BY StepType, StepRows DEF SeatInv
  <1>2. ASSUME Replay \/ UNCHANGED vars PROVE OneActiveChairman'
    <2>1. member' = member
      BY <1>2 DEF Replay, tables, vars
    <2> QED
      BY <2>1, SeatSteps DEF NobodySeated, SeatInv
  <1>3. OneActiveChairman'
    BY <1>2, SeatRegistration, SeatJoin, SeatTransfer, SeatMembers,
       SeatAdministration, SeatProvision DEF OperatorNext, Next, SeatInv
  <1> QED
    BY <1>1, <1>3 DEF SeatInv

LEMMA SeatInvInit == Init => SeatInv
  BY InitType, Rows DEF Init, SeatInv, RowsNameHouses, OneActiveChairman

\* A house has at most one ACTIVE chairman, also while an operator provisions.
THEOREM OneChairman == OperatorSpec => []OneActiveChairman
  <1>1. SeatInv => OneActiveChairman
    BY DEF SeatInv
  <1> QED
    BY SeatInvInit, SeatInvInductive, <1>1, PTL DEF OperatorSpec

-----------------------------------------------------------------------------
(* What the service keeps as long as no operator provisions.  The          *)
(* properties support each other: an accepted offer leaves one CHAIRMAN    *)
(* row because it was made by the only one; an offer has no rival because  *)
(* one address has one chairman; a permission that is revoked leaves       *)
(* nothing because rows, registrations and offers only come to users who   *)
(* have it.  So they are proved together.  Four lemmas say what a step may *)
(* do to chairmen, offers, permissions and registrations; the properties   *)
(* follow from these and not from the operations.  The sources of houses,  *)
(* the default houses of users and what a step may never do come after     *)
(* them, each with the kinds of step that concern it.                      *)

ServiceInv ==
    /\ TypeOK /\ RowsNameHouses
    /\ OneChairmanRow
    /\ RevokedHoldNoPower
    /\ OpenOfferIsFromTheChairman
    /\ PendingRegistrationIsApprovable

Chairs(u, h) == member[u][h].role = "CHAIRMAN"

\* A step that gives nobody a CHAIRMAN row.
NobodyRises ==
    \A v \in Users, k \in Houses : Chairs(v, k)' => Chairs(v, k)

\* A step that gives one to u in h takes it from everybody else in h, and leaves
\* no open offer of h.
Rises(u, h) ==
    /\ MayChair(u)'
    /\ \A v \in Users, k \in Houses : Chairs(v, k)' /\ ~(v = u /\ k = h) => Chairs(v, k) /\ k # h
    /\ \A t \in TransferIds : ~(transfer'[t].house = h /\ transfer'[t].status = "PENDING")

ChairmenStep == NobodyRises \/ \E u \in Users, h \in Houses : Rises(u, h)

-----------------------------------------------------------------------------
(* Chairmen.                                                               *)

LEMMA ClosedPending ==
    ASSUME TypeOK, NEW T \in SUBSET Pending,
           NEW s \in {"ACCEPTED", "REJECTED", "CANCELLED", "EXPIRED"}
    PROVE  \A t \in TransferIds : Closed(T, s)[t].status = "PENDING" =>
               t \in Pending \ T /\ Closed(T, s)[t] = transfer[t]
  BY ClosedAt DEF TypeOK, Pending

LEMMA ChairmenRegistration == ServiceInv /\ RegistrationNext => ChairmenStep
  <1> SUFFICES ASSUME ServiceInv, NEW a \in Users, NEW i \in RegIds,
                      \/ \E h \in Houses : CreateHouseRegistration(a, h, i)
                      \/ ApproveHouseRegistration(a, i)
                      \/ RejectHouseRegistration(a, i)
                      \/ CancelHouseRegistration(a, i)
               PROVE  ChairmenStep
    BY DEF RegistrationNext
  <1> USE DEF ServiceInv
  <1>1. CASE ApproveHouseRegistration(a, i)
    <2>1. PICK u \in Users, h \in Houses \ houses : reg[i].applicant = u /\ reg[i].house = h
      BY <1>1 DEF ApproveHouseRegistration, Open, TypeOK, Registration, NoRegistration
    <2>2. member \in Memberships /\ member' = [member EXCEPT ![u][h] = ActiveChairman]
      BY <1>1, <2>1 DEF ApproveHouseRegistration, TypeOK, Memberships
    <2>3. \A v \in Users : ~Chairs(v, h)
      BY <2>1, Rows DEF RowsNameHouses, Chairs
    <2>4. \A v \in Users, k \in Houses :
              Chairs(v, k)' /\ ~(v = u /\ k = h) => Chairs(v, k) /\ k # h
      <3> SUFFICES ASSUME NEW v \in Users, NEW k \in Houses, Chairs(v, k)', ~(v = u /\ k = h)
                   PROVE  Chairs(v, k) /\ k # h
        OBVIOUS
      <3>1. member'[v][k] = member[v][k]
        BY <2>1, <2>2, MemberAt
      <3> QED
        BY <2>3, <3>1 DEF Chairs
    <2>5. MayChair(u)'
      BY <1>1, <2>1 DEF ApproveHouseRegistration, MayChair
    <2>6. \A t \in TransferIds : transfer[t].house = h => transfer[t].status # "PENDING"
      BY <2>1 DEF RowsNameHouses, NoTransfer
    <2>7. Rises(u, h)
      BY <1>1, <2>4, <2>5, <2>6 DEF Rises, ApproveHouseRegistration
    <2> QED
      BY <2>1, <2>7 DEF ChairmenStep
  <1>2. CASE ~ApproveHouseRegistration(a, i)
    BY <1>2 DEF CreateHouseRegistration, RejectHouseRegistration, CancelHouseRegistration,
                ChairmenStep, NobodyRises, Chairs
  <1> QED
    BY <1>1, <1>2

LEMMA ChairmenJoin == ServiceInv /\ JoinNext => ChairmenStep
  <1> SUFFICES ASSUME ServiceInv, NEW a \in Users, NEW i \in JoinIds,
                      \/ \E h \in Houses : CreateJoinRequest(a, h, i)
                      \/ ApproveJoinRequest(a, i)
                      \/ RejectJoinRequest(a, i)
                      \/ CancelJoinRequest(a, i)
               PROVE  NobodyRises
    BY DEF JoinNext, ChairmenStep
  <1>1. CASE ApproveJoinRequest(a, i)
    <2> DEFINE u == join[i].user
               h == join[i].house
    <2>1. u \in Users /\ h \in Houses
      BY <1>1 DEF ApproveJoinRequest, Open, ServiceInv, TypeOK, JoinRequest, NoJoin
    <2>2. member \in Memberships /\ member' = [member EXCEPT ![u][h] = Joined(member[u][h])]
      BY <1>1 DEF ApproveJoinRequest, ServiceInv, TypeOK, Memberships
    <2>3. Joined(member[u][h]).role = "CHAIRMAN" => Chairs(u, h)
      BY <2>1, <2>2, Rows DEF Memberships, Chairs
    <2> HIDE DEF u, h
    <2> QED
      BY <2>1, <2>2, <2>3, MemberAt DEF NobodyRises, Chairs
  <1> QED
    BY <1>1 DEF CreateJoinRequest, RejectJoinRequest, CancelJoinRequest, NobodyRises, Chairs

LEMMA ChairmenTransfer == ServiceInv /\ TransferNext => ChairmenStep
  <1> SUFFICES ASSUME ServiceInv, TransferNext PROVE ChairmenStep
    OBVIOUS
  <1> USE DEF ServiceInv
  <1>1. ASSUME NEW a \in Users, NEW i \in TransferIds, NEW l \in SUBSET Pending,
               AcceptChairmanTransfer(a, i, l)
        PROVE  ChairmenStep
    <2> DEFINE h == transfer[i].house
               c == transfer[i].current
    <2>1. h \in Houses /\ c \in Users /\ i \in Pending
      BY <1>1 DEF AcceptChairmanTransfer, Pending, TypeOK, Transfer, NoTransfer
    <2>2. /\ member[c][h] = ActiveChairman /\ member[a][h] = ActiveResident
          /\ member' = [member EXCEPT ![c][h] = ActiveResident, ![a][h] = ActiveChairman]
          /\ MayChair(a)'
      BY <1>1 DEF AcceptChairmanTransfer, MayChair
    <2>3. \A v \in Users, k \in Houses : ~(v = a /\ k = h) =>
              member'[v][k] = IF v = c /\ k = h THEN ActiveResident ELSE member[v][k]
      BY <2>1, <2>2 DEF TypeOK
    <2>4. \A v \in Users : Chairs(v, h) => v = c
      BY <2>1, <2>2, Rows DEF OneChairmanRow, Chairs
    <2>5. \A t \in TransferIds : ~(transfer'[t].house = h /\ transfer'[t].status = "PENDING")
      <3> SUFFICES ASSUME NEW t \in TransferIds,
                          transfer'[t].house = h, transfer'[t].status = "PENDING"
                   PROVE  FALSE
        OBVIOUS
      <3>1. Closed(l, "EXPIRED") \in [TransferIds -> Transfer]
        BY ClosedType DEF TypeOK
      <3>2. transfer' = [Closed(l, "EXPIRED") EXCEPT ![i].status = "ACCEPTED"]
        BY <1>1 DEF AcceptChairmanTransfer
      <3>3. t # i
        <4>1. Closed(l, "EXPIRED")[i] = transfer[i]
          BY <1>1 DEF Closed, AcceptChairmanTransfer
        <4>2. transfer[i] \in [house : Houses, current : Users, target : Users,
                status : {"PENDING", "ACCEPTED", "REJECTED", "CANCELLED", "EXPIRED"}]
          BY <2>1 DEF Pending, TypeOK, Transfer, NoTransfer
        <4>3. transfer'[i] = [transfer[i] EXCEPT !.status = "ACCEPTED"]
          BY <2>1, <3>1, <3>2, <4>1 DEF Pending
        <4>4. transfer'[i].status = "ACCEPTED"
          BY <4>2, <4>3
        <4> QED
          BY <4>4
      <3>4. transfer'[t] = Closed(l, "EXPIRED")[t]
        BY <3>1, <3>2, <3>3
      <3>5. t \in Pending /\ transfer[t].house = h
        BY <3>4, ClosedPending
      <3> QED
        BY <2>1, <3>3, <3>5 DEF OpenOfferIsFromTheChairman
    <2>6. Rises(a, h)
      <3> SUFFICES ASSUME NEW v \in Users, NEW k \in Houses,
                          Chairs(v, k)', ~(v = a /\ k = h)
                   PROVE  Chairs(v, k) /\ k # h
        BY <2>2, <2>5 DEF Rises
      <3> HIDE DEF h, c
      <3>1. ~(v = c /\ k = h)
        BY <2>3, Rows DEF Chairs
      <3>2. Chairs(v, k)
        BY <2>3, <3>1 DEF Chairs
      <3> QED
        BY <2>4, <3>1, <3>2
    <2> QED
      BY <2>1, <2>6 DEF ChairmenStep
  <1>2. ASSUME member' = member PROVE ChairmenStep
    BY <1>2 DEF ChairmenStep, NobodyRises, Chairs
  <1> QED
    BY <1>1, <1>2 DEF TransferNext, CreateChairmanTransfer, RejectChairmanTransfer,
       CancelChairmanTransfer, ListChairmanTransfers

LEMMA ChairmenMembers == ServiceInv /\ MembersNext => ChairmenStep
  <1> SUFFICES ASSUME ServiceInv, NEW a \in Users, NEW u \in Users, NEW h \in Houses,
                      \/ DeactivateMembership(a, u, h)
                      \/ ReactivateMembership(a, u, h)
                      \/ RemoveMembership(a, u, h)
               PROVE  NobodyRises
    BY DEF MembersNext, ChairmenStep
  <1>0. member \in Memberships /\ member[u][h] \in Membership
    BY DEF ServiceInv, TypeOK, Memberships
  <1>1. CASE DeactivateMembership(a, u, h)
    <2>1. member' = [member EXCEPT ![u][h] = Row(member[u][h].role, "INACTIVE")]
      BY <1>0, <1>1, StatusWrite DEF DeactivateMembership, MayManageMember
    <2> QED
      BY <1>0, <2>1, MemberAt, Rows DEF NobodyRises, Chairs
  <1>2. CASE ReactivateMembership(a, u, h)
    <2>1. member' = [member EXCEPT ![u][h] = Row(member[u][h].role, "ACTIVE")]
      BY <1>0, <1>2, StatusWrite DEF ReactivateMembership, MayManageMember
    <2> QED
      BY <1>0, <2>1, MemberAt, Rows DEF NobodyRises, Chairs
  <1>3. CASE RemoveMembership(a, u, h)
    BY <1>0, <1>3, MemberAt, Rows DEF RemoveMembership, NobodyRises, Chairs
  <1> QED
    BY <1>1, <1>2, <1>3

LEMMA ChairmenAdministration == ServiceInv /\ AdministrationNext => ChairmenStep
  <1> SUFFICES ASSUME ServiceInv, AdministrationNext PROVE ChairmenStep
    OBVIOUS
  <1>0. member \in Memberships
    BY DEF ServiceInv, TypeOK, Memberships
  <1>1. ASSUME NEW U, NEW H, member' = Demoted(U, H) PROVE ChairmenStep
    BY <1>0, <1>1, DemotedAt DEF ChairmenStep, NobodyRises, Chairs
  <1>2. ASSUME NEW a \in Users, NEW u \in Users, NEW h \in Houses, AssignHouseChairman(a, u, h)
        PROVE  ChairmenStep
    <2>1. Demoted(Users, {h}) \in Memberships
      BY <1>0, DemotedType
    <2>2. ASSUME NEW v \in Users, NEW k \in Houses, ~(v = u /\ k = h)
          PROVE  member'[v][k] = Demoted(Users, {h})[v][k]
      BY <1>2, <2>1, <2>2 DEF AssignHouseChairman, Memberships
    <2>3. \A v \in Users, k \in Houses :
              Chairs(v, k)' /\ ~(v = u /\ k = h) => Chairs(v, k) /\ k # h
      BY <1>0, <2>2, DemotedAt DEF Chairs
    <2>4. \A t \in TransferIds : ~(transfer'[t].house = h /\ transfer'[t].status = "PENDING")
      <3>1. HouseOffers(h) \in SUBSET Pending /\ transfer' = Closed(HouseOffers(h), "CANCELLED")
        BY <1>2 DEF AssignHouseChairman, HouseOffers
      <3>2. TypeOK
        BY DEF ServiceInv
      <3> QED
        BY <3>1, <3>2, ClosedPending DEF HouseOffers
    <2>5. MayChair(u)'
      BY <1>2 DEF AssignHouseChairman, MayChair
    <2> QED
      BY <2>3, <2>4, <2>5 DEF ChairmenStep, Rises
  <1>3. ASSUME member' = member PROVE ChairmenStep
    BY <1>3 DEF ChairmenStep, NobodyRises, Chairs
  <1> QED
    BY <1>1, <1>2, <1>3 DEF AdministrationNext, GrantChairmanPermission,
       RevokeChairmanPermission, RemoveHouseChairman

LEMMA ChairmenSteps == ServiceInv /\ [Next]_vars => ChairmenStep
  <1> SUFFICES ASSUME ServiceInv, [Next]_vars PROVE ChairmenStep
    OBVIOUS
  <1>1. CASE Replay \/ UNCHANGED vars
    BY <1>1 DEF Replay, tables, vars, ChairmenStep, NobodyRises, Chairs
  <1> QED
    BY <1>1, ChairmenRegistration, ChairmenJoin, ChairmenTransfer, ChairmenMembers,
       ChairmenAdministration DEF Next
-----------------------------------------------------------------------------
(* Offers.                                                                 *)

\* An offer made by the step: by the chairman, to somebody who may be one, and
\* the only open one of the house.
NewOffer(t) ==
    /\ transfer'[t].target \in perm' \ {transfer'[t].current}
    /\ transfer'[t].current \in Users
    /\ transfer'[t].house \in Houses
    /\ member'[transfer'[t].current][transfer'[t].house].role = "CHAIRMAN"
    /\ \A s \in TransferIds \ {t} :
         ~(transfer'[s].status = "PENDING" /\ transfer'[s].house = transfer'[t].house)

OfferStep ==
    \A t \in TransferIds : transfer'[t].status = "PENDING" =>
        \/ t \in Pending /\ transfer'[t] = transfer[t]
        \/ NewOffer(t)

LEMMA OffersClosed ==
    ASSUME TypeOK, NEW T \in SUBSET Pending,
           NEW s \in {"ACCEPTED", "REJECTED", "CANCELLED", "EXPIRED"},
           transfer' = Closed(T, s)
    PROVE  OfferStep
  BY ClosedPending DEF OfferStep

LEMMA OffersKept == transfer' = transfer => OfferStep
  BY DEF OfferStep, Pending

\* Deciding one offer after the late ones were expired.
LEMMA OfferDecided ==
    ASSUME TypeOK, NEW T \in SUBSET Pending, NEW i \in Pending \ T,
           NEW s \in {"ACCEPTED", "REJECTED", "CANCELLED", "EXPIRED"},
           transfer' = [Closed(T, "EXPIRED") EXCEPT ![i].status = s]
    PROVE  OfferStep
  <1>1. Closed(T, "EXPIRED") \in [TransferIds -> Transfer]
    BY ClosedType DEF TypeOK
  <1>2. i \in TransferIds
    BY DEF Pending
  <1>3. Closed(T, "EXPIRED")[i] = transfer[i]
    BY <1>2 DEF Closed
  <1>4. transfer[i] \in [house : Houses, current : Users, target : Users,
            status : {"PENDING", "ACCEPTED", "REJECTED", "CANCELLED", "EXPIRED"}]
    BY <1>2 DEF Pending, TypeOK, Transfer, NoTransfer
  <1>5. transfer'[i] = [transfer[i] EXCEPT !.status = s]
    BY <1>1, <1>2, <1>3
  <1>6. transfer'[i].status = s
    BY <1>4, <1>5
  <1>7. \A t \in TransferIds \ {i} : transfer'[t] = Closed(T, "EXPIRED")[t]
    BY <1>1, <1>2
  <1> QED
    BY <1>6, <1>7, ClosedPending DEF OfferStep

LEMMA OffersTransfer == ServiceInv /\ TransferNext => OfferStep
  <1> SUFFICES ASSUME ServiceInv, NEW l \in SUBSET Pending,
                      \/ \E a \in Users, i \in TransferIds :
                           \/ \E h \in Houses, u \in Users : CreateChairmanTransfer(a, h, u, i, l)
                           \/ AcceptChairmanTransfer(a, i, l)
                           \/ RejectChairmanTransfer(a, i, l)
                           \/ CancelChairmanTransfer(a, i, l)
                      \/ ListChairmanTransfers(l)
               PROVE  OfferStep
    BY DEF TransferNext
  <1>0. TypeOK
    BY DEF ServiceInv
  <1>1. ASSUME NEW a \in Users, NEW i \in TransferIds, NEW h \in Houses, NEW u \in Users,
               CreateChairmanTransfer(a, h, u, i, l)
        PROVE  OfferStep
    <2>1. Closed(l, "EXPIRED") \in [TransferIds -> Transfer]
      BY <1>0, ClosedType DEF TypeOK
    <2>2. transfer'[i] = [house |-> h, current |-> a, target |-> u, status |-> "PENDING"]
      BY <1>1, <2>1 DEF CreateChairmanTransfer
    <2>3. \A t \in TransferIds \ {i} : transfer'[t] = Closed(l, "EXPIRED")[t]
      BY <1>1, <2>1 DEF CreateChairmanTransfer
    <2>4. \A t \in TransferIds \ {i} : transfer'[t].status = "PENDING" =>
             t \in Pending \ l /\ transfer'[t] = transfer[t]
      BY <1>0, <2>3, ClosedPending
    <2>5. \A t \in TransferIds \ {i} :
             ~(transfer'[t].status = "PENDING" /\ transfer'[t].house = h)
      BY <1>1, <2>4 DEF CreateChairmanTransfer, HouseOffers
    <2>6. Chairs(a, h)'
      BY <1>1, Rows DEF CreateChairmanTransfer, Chairs
    <2>7. u \in perm' \ {a}
      BY <1>1 DEF CreateChairmanTransfer
    <2>8. transfer'[i].house = h /\ transfer'[i].current = a /\ transfer'[i].target = u
      BY <2>2
    <2>9. NewOffer(i)
      BY <2>5, <2>6, <2>7, <2>8 DEF NewOffer, Chairs
    <2> QED
      BY <2>4, <2>9 DEF OfferStep
  <1>2. ASSUME NEW a \in Users, NEW i \in TransferIds,
               \/ AcceptChairmanTransfer(a, i, l)
               \/ RejectChairmanTransfer(a, i, l)
               \/ CancelChairmanTransfer(a, i, l)
        PROVE  OfferStep
    <2>1. i \in Pending \ l
      BY <1>2 DEF AcceptChairmanTransfer, RejectChairmanTransfer, CancelChairmanTransfer
    <2>2. PICK s \in {"ACCEPTED", "REJECTED", "CANCELLED"} :
            transfer' = [Closed(l, "EXPIRED") EXCEPT ![i].status = s]
      BY <1>2 DEF AcceptChairmanTransfer, RejectChairmanTransfer, CancelChairmanTransfer
    <2> QED
      BY <1>0, <2>1, <2>2, OfferDecided
  <1>3. CASE ListChairmanTransfers(l)
    BY <1>0, <1>3, OffersClosed DEF ListChairmanTransfers
  <1> QED
    BY <1>1, <1>2, <1>3

LEMMA OfferSteps == ServiceInv /\ [Next]_vars => OfferStep
  <1> SUFFICES ASSUME ServiceInv, [Next]_vars, ~TransferNext PROVE OfferStep
    BY OffersTransfer
  <1>0. TypeOK
    BY DEF ServiceInv
  <1>1. CASE AdministrationNext
    <2>1. \A h \in Houses : HouseOffers(h) \in SUBSET Pending
      BY DEF HouseOffers
    <2>2. \A u \in Users :
            {t \in Pending : u \in {transfer[t].current, transfer[t].target}} \in SUBSET Pending
      OBVIOUS
    <2> QED
      BY <1>0, <1>1, <2>1, <2>2, OffersClosed, OffersKept DEF AdministrationNext,
         GrantChairmanPermission, RevokeChairmanPermission, AssignHouseChairman,
         RemoveHouseChairman
  <1>2. CASE RegistrationNext \/ JoinNext
    BY <1>2, OffersKept DEF RegistrationNext, CreateHouseRegistration,
       ApproveHouseRegistration, RejectHouseRegistration, CancelHouseRegistration,
       JoinNext, CreateJoinRequest, ApproveJoinRequest, RejectJoinRequest, CancelJoinRequest
  <1>3. CASE MembersNext \/ Replay \/ UNCHANGED vars
    BY <1>3, OffersKept DEF MembersNext, DeactivateMembership, ReactivateMembership,
       RemoveMembership, Replay, tables, vars
  <1> QED
    BY <1>1, <1>2, <1>3 DEF Next

\* The operations on offers leave permissions, registrations and houses alone.
LEMMA TransferKeeps == TransferNext => perm' = perm /\ reg' = reg /\ houses' = houses
  <1>1. ASSUME NEW a, NEW i, NEW h, NEW u, NEW l, CreateChairmanTransfer(a, h, u, i, l)
        PROVE  perm' = perm /\ reg' = reg /\ houses' = houses
    BY <1>1 DEF CreateChairmanTransfer
  <1>2. ASSUME NEW a, NEW i, NEW l, AcceptChairmanTransfer(a, i, l)
        PROVE  perm' = perm /\ reg' = reg /\ houses' = houses
    BY <1>2 DEF AcceptChairmanTransfer
  <1>3. ASSUME NEW a, NEW i, NEW l,
               \/ RejectChairmanTransfer(a, i, l)
               \/ CancelChairmanTransfer(a, i, l)
               \/ ListChairmanTransfers(l)
        PROVE  perm' = perm /\ reg' = reg /\ houses' = houses
    BY <1>3 DEF RejectChairmanTransfer, CancelChairmanTransfer, ListChairmanTransfers
  <1> QED
    BY <1>1, <1>2, <1>3 DEF TransferNext

-----------------------------------------------------------------------------
(* Permissions.                                                            *)

\* What RevokedHoldNoPower says of one user.
NoPower(u) ==
    /\ \A h \in Houses : ~Chairs(u, h)
    /\ \A i \in RegIds : ~(reg[i].applicant = u /\ reg[i].status = "PENDING")
    /\ \A t \in Pending : u \notin {transfer[t].current, transfer[t].target}

\* Whoever loses the permission in a step holds nothing after it.
PermStep == \A u \in perm \ perm' : NoPower(u)'

LEMMA PermRevoked ==
    ASSUME ServiceInv, NEW a \in Users, NEW u \in Users, RevokeChairmanPermission(a, u)
    PROVE  NoPower(u)'
  <1> USE DEF ServiceInv
  <1>1. ASSUME NEW h \in Houses PROVE ~Chairs(u, h)'
    <2>1. member \in Memberships /\ member' = Demoted({u}, Houses)
      BY DEF RevokeChairmanPermission, TypeOK, Memberships
    <2> QED
      BY <2>1, DemotedAt DEF Chairs
  <1>2. ASSUME NEW i \in RegIds, reg'[i].applicant = u, reg'[i].status = "PENDING" PROVE FALSE
    <2>1. reg'[i] = IF reg[i].applicant = u /\ reg[i].status = "PENDING"
                    THEN [reg[i] EXCEPT !.status = "CANCELLED"] ELSE reg[i]
      BY DEF RevokeChairmanPermission
    <2>2. reg[i].applicant = u =>
            reg[i] \in [applicant : Users, house : Houses,
                        status : {"PENDING", "APPROVED", "REJECTED", "CANCELLED"}]
      BY NullAssumption DEF TypeOK, Registration, NoRegistration
    <2>3. CASE reg[i].applicant = u /\ reg[i].status = "PENDING"
      BY <1>2, <2>1, <2>2, <2>3
    <2>4. CASE ~(reg[i].applicant = u /\ reg[i].status = "PENDING")
      BY <1>2, <2>1, <2>4
    <2> QED
      BY <2>3, <2>4
  <1>3. ASSUME NEW t \in Pending', u \in {transfer'[t].current, transfer'[t].target}
        PROVE  FALSE
    <2> DEFINE T == {s \in Pending : u \in {transfer[s].current, transfer[s].target}}
    <2>1. transfer' = Closed(T, "CANCELLED") /\ T \in SUBSET Pending
      BY DEF RevokeChairmanPermission
    <2>2. t \in TransferIds /\ transfer'[t].status = "PENDING"
      BY DEF Pending
    <2>3. t \in Pending \ T /\ transfer'[t] = transfer[t]
      <3> HIDE DEF T
      <3> QED
        BY <2>1, <2>2, ClosedPending
    <2> QED
      BY <1>3, <2>3
  <1> QED
    BY <1>1, <1>2, <1>3 DEF NoPower

LEMMA PermSteps == ServiceInv /\ [Next]_vars => PermStep
  <1> SUFFICES ASSUME ServiceInv, [Next]_vars PROVE PermStep
    OBVIOUS
  <1>1. CASE AdministrationNext
    BY <1>1, PermRevoked DEF PermStep, AdministrationNext, GrantChairmanPermission,
       RevokeChairmanPermission, AssignHouseChairman, RemoveHouseChairman
  <1>2. CASE RegistrationNext \/ JoinNext
    BY <1>2 DEF PermStep, RegistrationNext, CreateHouseRegistration,
       ApproveHouseRegistration, RejectHouseRegistration, CancelHouseRegistration,
       JoinNext, CreateJoinRequest, ApproveJoinRequest, RejectJoinRequest, CancelJoinRequest
  <1>3. CASE TransferNext
    <2> QED
      BY <1>3, TransferKeeps DEF PermStep
  <1>4. CASE MembersNext \/ Replay \/ UNCHANGED vars
    BY <1>4 DEF PermStep, MembersNext, DeactivateMembership, ReactivateMembership,
       RemoveMembership, Replay, tables, vars
  <1> QED
    BY <1>1, <1>2, <1>3, <1>4 DEF Next

-----------------------------------------------------------------------------
(* Registrations.                                                          *)

UnderReview(j, h) == reg[j].status = "PENDING" /\ reg[j].house = h

\* A registration put under review by the step.
NewRegistration(i) ==
    /\ MayChair(reg[i].applicant)
    /\ reg[i].house \notin houses
    /\ \A j \in RegIds \ {i} : ~UnderReview(j, reg[i].house)

RegistrationStep ==
    /\ \A i \in RegIds : reg'[i].status = "PENDING" => reg'[i] = reg[i] \/ NewRegistration(i)'
    /\ \A i \in RegIds : ~(reg'[i].status = "PENDING" /\ reg'[i].house \in houses' \ houses)

\* Deciding a registration.
LEMMA RegistrationDecided ==
    ASSUME TypeOK, NEW i \in RegIds, reg[i].status = "PENDING",
           NEW s \in {"APPROVED", "REJECTED", "CANCELLED"},
           reg' = [reg EXCEPT ![i].status = s]
    PROVE  /\ reg'[i].status = s /\ reg'[i].house = reg[i].house
           /\ \A j \in RegIds \ {i} : reg'[j] = reg[j]
  <1>1. reg[i] \in [applicant : Users, house : Houses,
                    status : {"PENDING", "APPROVED", "REJECTED", "CANCELLED"}]
    BY DEF TypeOK, Registration, NoRegistration
  <1>2. reg'[i] = [reg[i] EXCEPT !.status = s]
    BY DEF TypeOK
  <1>3. reg'[i].status = s /\ reg'[i].house = reg[i].house
    BY <1>1, <1>2
  <1>4. \A j \in RegIds \ {i} : reg'[j] = reg[j]
    BY DEF TypeOK
  <1> QED
    BY <1>3, <1>4

LEMMA RegistrationsMove == ServiceInv /\ RegistrationNext => RegistrationStep
  <1> SUFFICES ASSUME ServiceInv, NEW a \in Users, NEW i \in RegIds,
                      \/ \E h \in Houses : CreateHouseRegistration(a, h, i)
                      \/ ApproveHouseRegistration(a, i)
                      \/ RejectHouseRegistration(a, i)
                      \/ CancelHouseRegistration(a, i)
               PROVE  RegistrationStep
    BY DEF RegistrationNext
  <1>0. TypeOK
    BY DEF ServiceInv
  <1>1. ASSUME NEW h \in Houses, CreateHouseRegistration(a, h, i) PROVE RegistrationStep
    <2>1. reg'[i] = [applicant |-> a, house |-> h, status |-> "PENDING"]
      BY <1>0, <1>1 DEF CreateHouseRegistration, TypeOK
    <2>2. \A j \in RegIds \ {i} : reg'[j] = reg[j]
      BY <1>0, <1>1 DEF CreateHouseRegistration, TypeOK
    <2>3. houses' = houses /\ h \notin houses /\ MayChair(a)'
      BY <1>1 DEF CreateHouseRegistration, MayChair
    <2>4. \A j \in RegIds : ~UnderReview(j, h)
      BY <1>1 DEF CreateHouseRegistration, AddressUnderReview, UnderReview
    <2>5. NewRegistration(i)'
      BY <2>1, <2>2, <2>3, <2>4 DEF NewRegistration, UnderReview
    <2> QED
      BY <2>2, <2>3, <2>5 DEF RegistrationStep
  <1>2. CASE ApproveHouseRegistration(a, i)
    <2>1. /\ reg[i].status = "PENDING"
          /\ reg' = [reg EXCEPT ![i].status = "APPROVED"]
          /\ houses' = houses \cup {reg[i].house}
      BY <1>2 DEF ApproveHouseRegistration, Open
    <2>2. reg'[i].status = "APPROVED" /\ \A j \in RegIds \ {i} : reg'[j] = reg[j]
      BY <1>0, <2>1, RegistrationDecided
    <2>3. \A j \in RegIds \ {i} : ~(reg[j].status = "PENDING" /\ reg[j].house = reg[i].house)
      BY <2>1 DEF ServiceInv, PendingRegistrationIsApprovable
    <2> QED
      BY <2>1, <2>2, <2>3 DEF RegistrationStep
  <1>3. CASE RejectHouseRegistration(a, i) \/ CancelHouseRegistration(a, i)
    <2>1. PICK s \in {"REJECTED", "CANCELLED"} : reg' = [reg EXCEPT ![i].status = s]
      BY <1>3 DEF RejectHouseRegistration, CancelHouseRegistration
    <2>2. reg[i].status = "PENDING" /\ houses' = houses
      BY <1>3 DEF RejectHouseRegistration, CancelHouseRegistration, Open
    <2>3. reg'[i].status = s /\ \A j \in RegIds \ {i} : reg'[j] = reg[j]
      BY <1>0, <2>1, <2>2, RegistrationDecided
    <2> QED
      BY <2>2, <2>3 DEF RegistrationStep
  <1> QED
    BY <1>1, <1>2, <1>3

LEMMA RegistrationSteps == ServiceInv /\ [Next]_vars => RegistrationStep
  <1> SUFFICES ASSUME ServiceInv, [Next]_vars, ~RegistrationNext PROVE RegistrationStep
    BY RegistrationsMove
  <1>1. ASSUME NEW a \in Users, NEW u \in Users, RevokeChairmanPermission(a, u)
        PROVE  RegistrationStep
    <2>1. ASSUME NEW i \in RegIds, reg'[i].status = "PENDING"
          PROVE  reg'[i] = reg[i]
      <3>1. reg'[i] = IF reg[i].applicant = u /\ reg[i].status = "PENDING"
                      THEN [reg[i] EXCEPT !.status = "CANCELLED"] ELSE reg[i]
        BY <1>1 DEF RevokeChairmanPermission
      <3>2. reg[i].applicant = u =>
              reg[i] \in [applicant : Users, house : Houses,
                          status : {"PENDING", "APPROVED", "REJECTED", "CANCELLED"}]
        BY NullAssumption DEF ServiceInv, TypeOK, Registration, NoRegistration
      <3>3. ~(reg[i].applicant = u /\ reg[i].status = "PENDING")
        BY <2>1, <3>1, <3>2
      <3> QED
        BY <3>1, <3>3
    <2>2. houses' = houses
      BY <1>1 DEF RevokeChairmanPermission
    <2> QED
      BY <2>1, <2>2 DEF RegistrationStep
  <1>2. ASSUME reg' = reg, houses' = houses PROVE RegistrationStep
    BY <1>2 DEF RegistrationStep
  <1>3. CASE AdministrationNext
    BY <1>1, <1>2, <1>3 DEF AdministrationNext, GrantChairmanPermission,
       AssignHouseChairman, RemoveHouseChairman
  <1>4. CASE JoinNext \/ MembersNext \/ Replay \/ UNCHANGED vars
    BY <1>2, <1>4 DEF JoinNext, CreateJoinRequest, ApproveJoinRequest, RejectJoinRequest,
       CancelJoinRequest, MembersNext, DeactivateMembership, ReactivateMembership,
       RemoveMembership, Replay, tables, vars
  <1>5. CASE TransferNext
    <2> QED
      BY <1>2, <1>5, TransferKeeps
  <1> QED
    BY <1>3, <1>4, <1>5 DEF Next

-----------------------------------------------------------------------------
(* The properties follow from the four kinds of step.                      *)

LEMMA StepKinds ==
    ServiceInv /\ [Next]_vars =>
        ChairmenStep /\ OfferStep /\ PermStep /\ RegistrationStep
  BY ChairmenSteps, OfferSteps, PermSteps, RegistrationSteps

LEMMA KeepsOneRow == ServiceInv /\ ChairmenStep => OneChairmanRow'
  BY DEF ServiceInv, ChairmenStep, NobodyRises, Rises, Chairs, OneChairmanRow

\* A CHAIRMAN row after the step was there before, or is held by somebody who may.
LEMMA ChairIsOldOrAllowed ==
    ASSUME ChairmenStep, NEW v \in Users, NEW k \in Houses, Chairs(v, k)'
    PROVE  Chairs(v, k) \/ MayChair(v)'
  BY DEF ChairmenStep, NobodyRises, Rises

LEMMA KeepsRevoked ==
    ServiceInv /\ ChairmenStep /\ OfferStep /\ PermStep /\ RegistrationStep
        => RevokedHoldNoPower'
  <1> SUFFICES ASSUME ServiceInv, ChairmenStep, OfferStep, PermStep, RegistrationStep,
                      NEW u \in Users, ~MayChair(u)'
               PROVE  NoPower(u)'
    BY DEF RevokedHoldNoPower, NoPower, Chairs
  <1>1. CASE MayChair(u)
    BY <1>1 DEF MayChair, PermStep
  <1>2. CASE ~MayChair(u)
    <2>1. NoPower(u)
      BY <1>2 DEF ServiceInv, RevokedHoldNoPower, NoPower, Chairs
    <2>2. \A k \in Houses : ~Chairs(u, k)'
      BY <2>1, ChairIsOldOrAllowed DEF NoPower
    <2>3. \A i \in RegIds : ~(reg'[i].applicant = u /\ reg'[i].status = "PENDING")
      BY <2>1 DEF NoPower, RegistrationStep, NewRegistration
    <2>4. ASSUME NEW t \in TransferIds, transfer'[t].status = "PENDING"
          PROVE  u \notin {transfer'[t].current, transfer'[t].target}
      <3>1. CASE t \in Pending /\ transfer'[t] = transfer[t]
        BY <2>1, <3>1 DEF NoPower
      <3>2. CASE NewOffer(t)
        BY <2>2, <3>2 DEF NewOffer, Chairs, MayChair
      <3> QED
        BY <2>4, <3>1, <3>2 DEF OfferStep
    <2> QED
      BY <2>2, <2>3, <2>4 DEF NoPower, Pending
  <1> QED
    BY <1>1, <1>2

LEMMA KeepsOffers ==
    ServiceInv /\ OneChairmanRow' /\ ChairmenStep /\ OfferStep /\ PermStep
        => OpenOfferIsFromTheChairman'
  <1> SUFFICES ASSUME ServiceInv, OneChairmanRow', ChairmenStep, OfferStep, PermStep,
                      NEW t \in TransferIds, transfer'[t].status = "PENDING"
               PROVE  /\ transfer'[t].target \in perm' \ {transfer'[t].current}
                      /\ \A s \in TransferIds \ {t} : transfer'[s].status = "PENDING" =>
                            transfer'[s].house # transfer'[t].house
                      /\ \A v \in Users \ {transfer'[t].current} :
                            member'[v][transfer'[t].house].role # "CHAIRMAN"
    BY DEF OpenOfferIsFromTheChairman, Pending
  <1>1. CASE NewOffer(t)
    BY <1>1 DEF NewOffer, OneChairmanRow
  <1>2. CASE t \in Pending /\ transfer'[t] = transfer[t]
    <2>1. /\ transfer[t].target \in perm \ {transfer[t].current}
          /\ \A s \in Pending \ {t} : transfer[s].house # transfer[t].house
          /\ \A v \in Users \ {transfer[t].current} : ~Chairs(v, transfer[t].house)
          /\ transfer[t].house \in Houses
      BY <1>2 DEF ServiceInv, OpenOfferIsFromTheChairman, Chairs, Pending, TypeOK,
                  Transfer, NoTransfer
    <2>2. transfer'[t].target \in perm'
      BY <1>2, <2>1 DEF PermStep, NoPower, Pending
    <2>3. \A s \in TransferIds \ {t} : transfer'[s].status = "PENDING" =>
            transfer'[s].house # transfer'[t].house
      BY <1>2, <2>1 DEF OfferStep, NewOffer
    <2>4. ASSUME NEW v \in Users \ {transfer[t].current}, Chairs(v, transfer[t].house)'
          PROVE  FALSE
      <3> DEFINE k == transfer[t].house
      <3>1. k \in Houses /\ transfer'[t].house = k /\ ~Chairs(v, k)
        BY <1>2, <2>1
      <3>2. member'[v][k].role = "CHAIRMAN"
        BY <1>2, <2>4 DEF Chairs
      <3> HIDE DEF k
      <3>3. PICK u \in Users, h \in Houses : Rises(u, h)
        BY <3>1, <3>2 DEF ChairmenStep, NobodyRises, Chairs
      <3>4. v = u /\ k = h
        BY <3>1, <3>2, <3>3 DEF Rises, Chairs
      <3> QED
        BY <3>1, <3>3, <3>4 DEF Rises
    <2> QED
      BY <1>2, <2>1, <2>2, <2>3, <2>4 DEF Chairs
  <1> QED
    BY <1>1, <1>2 DEF OfferStep

LEMMA KeepsRegistrations ==
    ServiceInv /\ PermStep /\ RegistrationStep => PendingRegistrationIsApprovable'
  <1> SUFFICES ASSUME ServiceInv, PermStep, RegistrationStep,
                      NEW i \in RegIds, reg'[i].status = "PENDING"
               PROVE  NewRegistration(i)'
    BY DEF PendingRegistrationIsApprovable, NewRegistration, UnderReview
  <1>1. CASE reg'[i] = reg[i]
    <2>1. /\ reg[i].house \notin houses
          /\ MayChair(reg[i].applicant)
          /\ \A j \in RegIds \ {i} : ~(reg[j].status = "PENDING" /\ reg[j].house = reg[i].house)
      BY <1>1 DEF ServiceInv, PendingRegistrationIsApprovable
    <2>2. reg'[i].house \notin houses'
      BY <1>1, <2>1 DEF RegistrationStep
    <2>3. reg'[i].applicant \in perm' \cup Admins
      BY <1>1, <2>1 DEF MayChair, PermStep, NoPower
    <2>4. \A j \in RegIds \ {i} :
            ~(reg'[j].status = "PENDING" /\ reg'[j].house = reg'[i].house)
      BY <1>1, <2>1 DEF RegistrationStep, NewRegistration, UnderReview
    <2> QED
      BY <2>2, <2>3, <2>4 DEF NewRegistration, MayChair, UnderReview
  <1> QED
    BY <1>1 DEF RegistrationStep

LEMMA ServiceInvInit == Init => ServiceInv
  BY InitType, Rows DEF Init, ServiceInv, RowsNameHouses, OneChairmanRow, RevokedHoldNoPower,
     OpenOfferIsFromTheChairman, PendingRegistrationIsApprovable, Pending,
     NoRegistration, NoTransfer

LEMMA ServiceInvInductive == ServiceInv /\ [Next]_vars => ServiceInv'
  <1> SUFFICES ASSUME ServiceInv, [Next]_vars PROVE ServiceInv'
    OBVIOUS
  <1>1. [OperatorNext]_vars /\ TypeOK /\ RowsNameHouses
    BY DEF OperatorNext, ServiceInv
  <1>2. TypeOK' /\ RowsNameHouses'
    BY <1>1, StepType, StepRows
  <1> QED
    BY <1>2, StepKinds, KeepsOneRow, KeepsRevoked, KeepsOffers, KeepsRegistrations
       DEF ServiceInv

LEMMA ServiceInvAlways == Spec => []ServiceInv
  <1> QED
    BY ServiceInvInit, ServiceInvInductive, PTL DEF Spec

\* No house ever has two CHAIRMAN rows, ACTIVE or not.
THEOREM OneRow == Spec => []OneChairmanRow
  <1>1. ServiceInv => OneChairmanRow
    BY DEF ServiceInv
  <1> QED
    BY ServiceInvAlways, <1>1, PTL

\* Whoever has lost the chairman permission holds no row, no registration under
\* review and no open offer.
THEOREM RevocationIsComplete == Spec => []RevokedHoldNoPower
  <1>1. ServiceInv => RevokedHoldNoPower
    BY DEF ServiceInv
  <1> QED
    BY ServiceInvAlways, <1>1, PTL

\* An open offer has no rival, comes from the chairman or from nobody's
\* successor, and its target may chair the house.
THEOREM OffersComeFromChairmen == Spec => []OpenOfferIsFromTheChairman
  <1>1. ServiceInv => OpenOfferIsFromTheChairman
    BY DEF ServiceInv
  <1> QED
    BY ServiceInvAlways, <1>1, PTL

\* Nothing that happens while a registration is under review makes its approval
\* impossible.
THEOREM ReviewsCanEndWell == Spec => []PendingRegistrationIsApprovable
  <1>1. ServiceInv => PendingRegistrationIsApprovable
    BY DEF ServiceInv
  <1> QED
    BY ServiceInvAlways, <1>1, PTL

-----------------------------------------------------------------------------
(* Houses and the registrations they come from.                            *)

Approved(i) == reg[i].status = "APPROVED"

NobodyApproved ==
    /\ houses' = houses
    /\ \A i \in RegIds : (Approved(i)' <=> Approved(i))
                          /\ (Approved(i) => reg'[i].house = reg[i].house)

Approves(i) ==
    /\ ~Approved(i) /\ Approved(i)' /\ reg'[i].house = reg[i].house
    /\ reg[i].house \notin houses
    /\ houses' = houses \cup {reg[i].house}
    /\ \A j \in RegIds \ {i} : reg'[j] = reg[j]

LEMMA ApprovalSteps ==
    ServiceInv /\ [Next]_vars => NobodyApproved \/ \E i \in RegIds : Approves(i)
  <1> SUFFICES ASSUME ServiceInv, [Next]_vars
               PROVE  NobodyApproved \/ \E i \in RegIds : Approves(i)
    OBVIOUS
  <1>0. TypeOK
    BY DEF ServiceInv
  <1>1. ASSUME reg' = reg, houses' = houses PROVE NobodyApproved
    BY <1>1 DEF NobodyApproved, Approved
  <1>2. ASSUME NEW a \in Users, NEW i \in RegIds, NEW h \in Houses,
               CreateHouseRegistration(a, h, i)
        PROVE  NobodyApproved
    <2>1. reg'[i].status = "PENDING" /\ reg[i].status = "NONE" /\ houses' = houses
      BY <1>0, <1>2 DEF CreateHouseRegistration, TypeOK, NoRegistration
    <2>2. \A j \in RegIds \ {i} : reg'[j] = reg[j]
      BY <1>0, <1>2 DEF CreateHouseRegistration, TypeOK
    <2> QED
      BY <2>1, <2>2 DEF NobodyApproved, Approved
  <1>3. ASSUME NEW a \in Users, NEW i \in RegIds, ApproveHouseRegistration(a, i)
        PROVE  Approves(i)
    <2>1. /\ reg[i].status = "PENDING" /\ reg[i].house \notin houses
          /\ reg' = [reg EXCEPT ![i].status = "APPROVED"]
          /\ houses' = houses \cup {reg[i].house}
      BY <1>3 DEF ApproveHouseRegistration, Open
    <2>2. /\ reg'[i].status = "APPROVED" /\ reg'[i].house = reg[i].house
          /\ \A j \in RegIds \ {i} : reg'[j] = reg[j]
      BY <1>0, <2>1, RegistrationDecided
    <2> QED
      BY <2>1, <2>2 DEF Approves, Approved
  <1>4. ASSUME NEW a \in Users, NEW i \in RegIds,
               RejectHouseRegistration(a, i) \/ CancelHouseRegistration(a, i)
        PROVE  NobodyApproved
    <2>1. PICK s \in {"REJECTED", "CANCELLED"} : reg' = [reg EXCEPT ![i].status = s]
      BY <1>4 DEF RejectHouseRegistration, CancelHouseRegistration
    <2>2. reg[i].status = "PENDING" /\ houses' = houses
      BY <1>4 DEF RejectHouseRegistration, CancelHouseRegistration, Open
    <2>3. reg'[i].status = s /\ \A j \in RegIds \ {i} : reg'[j] = reg[j]
      BY <1>0, <2>1, <2>2, RegistrationDecided
    <2> QED
      BY <2>2, <2>3 DEF NobodyApproved, Approved
  <1>5. ASSUME NEW a \in Users, NEW u \in Users, RevokeChairmanPermission(a, u)
        PROVE  NobodyApproved
    <2>1. ASSUME NEW i \in RegIds
          PROVE  /\ Approved(i)' <=> Approved(i)
                 /\ Approved(i) => reg'[i].house = reg[i].house
      <3>1. reg'[i] = IF reg[i].applicant = u /\ reg[i].status = "PENDING"
                      THEN [reg[i] EXCEPT !.status = "CANCELLED"] ELSE reg[i]
        BY <1>5 DEF RevokeChairmanPermission
      <3>2. reg[i].applicant = u =>
              reg[i] \in [applicant : Users, house : Houses,
                          status : {"PENDING", "APPROVED", "REJECTED", "CANCELLED"}]
        BY <1>0, NullAssumption DEF TypeOK, Registration, NoRegistration
      <3>3. CASE reg[i].applicant = u /\ reg[i].status = "PENDING"
        BY <3>1, <3>2, <3>3 DEF Approved
      <3>4. CASE ~(reg[i].applicant = u /\ reg[i].status = "PENDING")
        BY <3>1, <3>4 DEF Approved
      <3> QED
        BY <3>3, <3>4
    <2>2. houses' = houses
      BY <1>5 DEF RevokeChairmanPermission
    <2> QED
      BY <2>1, <2>2 DEF NobodyApproved
  <1>6. CASE RegistrationNext
    BY <1>2, <1>3, <1>4, <1>6 DEF RegistrationNext
  <1>7. CASE AdministrationNext
    BY <1>1, <1>5, <1>7 DEF AdministrationNext, GrantChairmanPermission,
       AssignHouseChairman, RemoveHouseChairman
  <1>8. CASE JoinNext \/ MembersNext \/ Replay \/ UNCHANGED vars
    BY <1>1, <1>8 DEF JoinNext, CreateJoinRequest, ApproveJoinRequest, RejectJoinRequest,
       CancelJoinRequest, MembersNext, DeactivateMembership, ReactivateMembership,
       RemoveMembership, Replay, tables, vars
  <1>9. CASE TransferNext
    <2>1. reg' = reg /\ houses' = houses
      BY <1>9, TransferKeeps
    <2> QED
      BY <1>1, <2>1
  <1> QED
    BY <1>6, <1>7, <1>8, <1>9 DEF Next

\* Houses and approved registrations, one for the other.
Matched ==
    /\ \A i \in RegIds : Approved(i) => reg[i].house \in houses
    /\ \A h \in houses : \E i \in RegIds : Approved(i) /\ reg[i].house = h
    /\ \A i, j \in RegIds : Approved(i) /\ Approved(j) /\ reg[i].house = reg[j].house => i = j

LEMMA HousesInductive ==
    ServiceInv /\ HousesComeFromRegistrations /\ [Next]_vars => HousesComeFromRegistrations'
  <1> SUFFICES ASSUME ServiceInv, HousesComeFromRegistrations, [Next]_vars
               PROVE  HousesComeFromRegistrations'
    OBVIOUS
  <1>0. RowsNameHouses'
    BY ServiceInvInductive DEF ServiceInv
  <1>1. Matched
    BY DEF HousesComeFromRegistrations, Matched, Approved
  <1>2. ASSUME NobodyApproved PROVE Matched'
    BY <1>1, <1>2 DEF NobodyApproved, Matched
  <1>3. ASSUME NEW i \in RegIds, Approves(i) PROVE Matched'
    BY <1>1, <1>3 DEF Approves, Approved, Matched
  <1>4. Matched'
    BY <1>2, <1>3, ApprovalSteps
  <1>5. houses' = {reg'[i].house : i \in {j \in RegIds : reg'[j].status = "APPROVED"}}
    BY <1>4 DEF Matched, Approved
  <1> QED
    BY <1>0, <1>4, <1>5 DEF HousesComeFromRegistrations, Matched, Approved

\* A house exists because its registration, and no other, was approved.
THEOREM HousesAreRegistered == Spec => []HousesComeFromRegistrations
  <1>1. Init => HousesComeFromRegistrations
    <2>1. ASSUME Init PROVE RowsNameHouses
      BY <2>1, ServiceInvInit DEF ServiceInv
    <2> QED
      BY <2>1 DEF Init, HousesComeFromRegistrations, NoRegistration
  <1> QED
    BY <1>1, ServiceInvAlways, HousesInductive, PTL DEF Spec

-----------------------------------------------------------------------------
(* The default house of a user.                                            *)

ActiveIn(u, h) == member[u][h].status = "ACTIVE"

NobodyLeaves == \A v \in Users, k \in Houses : ActiveIn(v, k) => ActiveIn(v, k)'

Stays == defaultHouse' = defaultHouse /\ NobodyLeaves

Enters(u, h) == defaultHouse' = DefaultTo(u, h) /\ ActiveIn(u, h)' /\ NobodyLeaves

Leaves(u, h) ==
    /\ defaultHouse' = ClearDefault(u, h)
    /\ \A v \in Users, k \in Houses : ~(v = u /\ k = h) => member'[v][k] = member[v][k]

EntryStep == Stays \/ \E u \in Users, h \in Houses : Enters(u, h) \/ Leaves(u, h)

\* Demotion leaves every status alone.
LEMMA DemotedStatus ==
    ASSUME member \in Memberships, NEW U, NEW H, NEW v \in Users, NEW k \in Houses
    PROVE  Demoted(U, H)[v][k].status = member[v][k].status
  BY DEF Memberships, Demoted, Row

LEMMA EntryApprovals ==
    ASSUME ServiceInv, NEW a \in Users
    PROVE  /\ \A i \in RegIds : ApproveHouseRegistration(a, i) => EntryStep
           /\ \A i \in JoinIds : ApproveJoinRequest(a, i) => EntryStep
  <1>0. member \in Memberships
    BY DEF ServiceInv, TypeOK, Memberships
  <1>1. ASSUME NEW i \in RegIds, ApproveHouseRegistration(a, i) PROVE EntryStep
    <2>1. PICK u \in Users, h \in Houses : reg[i].applicant = u /\ reg[i].house = h
      BY <1>1 DEF ApproveHouseRegistration, Open, ServiceInv, TypeOK, Registration, NoRegistration
    <2>2. member' = [member EXCEPT ![u][h] = ActiveChairman] /\ defaultHouse' = DefaultTo(u, h)
      BY <1>1, <2>1 DEF ApproveHouseRegistration
    <2>3. ActiveChairman.status = "ACTIVE"
      BY DEF ActiveChairman, Row
    <2>4. ASSUME NEW v \in Users, NEW k \in Houses
          PROVE  /\ ~(v = u /\ k = h) => member'[v][k] = member[v][k]
                 /\ v = u /\ k = h => ActiveIn(v, k)'
      BY <1>0, <2>1, <2>2, <2>3, MemberAt DEF ActiveIn
    <2>5. Enters(u, h)
      BY <2>1, <2>2, <2>4 DEF Enters, NobodyLeaves, ActiveIn
    <2> QED
      BY <2>1, <2>5 DEF EntryStep
  <1>2. ASSUME NEW i \in JoinIds, ApproveJoinRequest(a, i) PROVE EntryStep
    <2>1. PICK u \in Users, h \in Houses : join[i].user = u /\ join[i].house = h
      BY <1>2 DEF ApproveJoinRequest, Open, ServiceInv, TypeOK, JoinRequest, NoJoin
    <2>2. /\ member' = [member EXCEPT ![u][h] = Joined(member[u][h])]
          /\ defaultHouse' = DefaultTo(u, h)
      BY <1>2, <2>1 DEF ApproveJoinRequest
    <2>3. Joined(member[u][h]).status = "ACTIVE"
      BY DEF Joined, ActiveResident, Row
    <2>4. ASSUME NEW v \in Users, NEW k \in Houses
          PROVE  /\ ~(v = u /\ k = h) => member'[v][k] = member[v][k]
                 /\ v = u /\ k = h => ActiveIn(v, k)'
      BY <1>0, <2>1, <2>2, <2>3, MemberAt DEF ActiveIn
    <2>5. Enters(u, h)
      BY <2>1, <2>2, <2>4 DEF Enters, NobodyLeaves, ActiveIn
    <2> QED
      BY <2>1, <2>5 DEF EntryStep
  <1> QED
    BY <1>1, <1>2

LEMMA EntryTransfer == ServiceInv /\ TransferNext => EntryStep
  <1> SUFFICES ASSUME ServiceInv, TransferNext PROVE EntryStep
    OBVIOUS
  <1>1. ASSUME NEW a \in Users, NEW i \in TransferIds, NEW l,
               AcceptChairmanTransfer(a, i, l)
        PROVE  EntryStep
    <2> DEFINE h == transfer[i].house
               c == transfer[i].current
    <2>1. /\ member' = [member EXCEPT ![c][h] = ActiveResident, ![a][h] = ActiveChairman]
          /\ defaultHouse' = defaultHouse
      BY <1>1 DEF AcceptChairmanTransfer
    <2>2. ActiveChairman.status = "ACTIVE" /\ ActiveResident.status = "ACTIVE"
      BY DEF ActiveChairman, ActiveResident, Row
    <2>3. member \in [Users -> [Houses -> Membership]]
      BY DEF ServiceInv, TypeOK
    <2> HIDE DEF h, c
    <2>4. NobodyLeaves
      BY <2>1, <2>2, <2>3 DEF NobodyLeaves, ActiveIn
    <2> QED
      BY <2>1, <2>4 DEF EntryStep, Stays
  <1>2. ASSUME NEW a, NEW i, NEW h, NEW u, NEW l, CreateChairmanTransfer(a, h, u, i, l)
        PROVE  EntryStep
    BY <1>2 DEF CreateChairmanTransfer, EntryStep, Stays, NobodyLeaves, ActiveIn
  <1>3. ASSUME NEW a, NEW i, NEW l,
               \/ RejectChairmanTransfer(a, i, l)
               \/ CancelChairmanTransfer(a, i, l)
               \/ ListChairmanTransfers(l)
        PROVE  EntryStep
    BY <1>3 DEF RejectChairmanTransfer, CancelChairmanTransfer, ListChairmanTransfers,
                EntryStep, Stays, NobodyLeaves, ActiveIn
  <1> QED
    BY <1>1, <1>2, <1>3 DEF TransferNext

LEMMA EntryMembers == ServiceInv /\ MembersNext => EntryStep
  <1> SUFFICES ASSUME ServiceInv, NEW a \in Users, NEW u \in Users, NEW h \in Houses,
                      \/ DeactivateMembership(a, u, h)
                      \/ ReactivateMembership(a, u, h)
                      \/ RemoveMembership(a, u, h)
               PROVE  EntryStep
    BY DEF MembersNext
  <1>0. member \in Memberships /\ member[u][h] \in Membership
    BY DEF ServiceInv, TypeOK, Memberships
  <1>1. CASE DeactivateMembership(a, u, h)
    <2>1. member' = [member EXCEPT ![u][h] = Row(member[u][h].role, "INACTIVE")]
      BY <1>0, <1>1, StatusWrite DEF DeactivateMembership, MayManageMember
    <2>2. Leaves(u, h)
      BY <1>0, <1>1, <2>1, MemberAt DEF DeactivateMembership, Leaves
    <2> QED
      BY <2>2 DEF EntryStep
  <1>2. CASE ReactivateMembership(a, u, h)
    <2>1. member' = [member EXCEPT ![u][h] = Row(member[u][h].role, "ACTIVE")]
      BY <1>0, <1>2, StatusWrite DEF ReactivateMembership, MayManageMember
    <2>2. Row(member[u][h].role, "ACTIVE").status = "ACTIVE"
      BY DEF Row
    <2>3. NobodyLeaves
      BY <1>0, <2>1, <2>2, MemberAt DEF NobodyLeaves, ActiveIn
    <2> QED
      BY <1>2, <2>3 DEF ReactivateMembership, EntryStep, Stays
  <1>3. CASE RemoveMembership(a, u, h)
    <2>1. Leaves(u, h)
      BY <1>0, <1>3, MemberAt DEF RemoveMembership, Leaves
    <2> QED
      BY <2>1 DEF EntryStep
  <1> QED
    BY <1>1, <1>2, <1>3

LEMMA EntryAdministration == ServiceInv /\ AdministrationNext => EntryStep
  <1> SUFFICES ASSUME ServiceInv, AdministrationNext PROVE EntryStep
    OBVIOUS
  <1>0. member \in Memberships
    BY DEF ServiceInv, TypeOK, Memberships
  <1>1. ASSUME NEW U, NEW H, member' = Demoted(U, H), defaultHouse' = defaultHouse
        PROVE  EntryStep
    BY <1>0, <1>1, DemotedStatus DEF EntryStep, Stays, NobodyLeaves, ActiveIn
  <1>2. ASSUME NEW a \in Users, NEW u \in Users, NEW h \in Houses, AssignHouseChairman(a, u, h)
        PROVE  EntryStep
    <2>1. Demoted(Users, {h}) \in Memberships
      BY <1>0, DemotedType
    <2>2. /\ member' = [Demoted(Users, {h}) EXCEPT ![u][h] = ActiveChairman]
          /\ defaultHouse' = DefaultTo(u, h)
      BY <1>2 DEF AssignHouseChairman
    <2>3. /\ member'[u][h] = ActiveChairman
          /\ \A v \in Users, k \in Houses : ~(v = u /\ k = h) =>
                member'[v][k] = Demoted(Users, {h})[v][k]
      BY <2>1, <2>2 DEF Memberships
    <2>4. ActiveChairman.status = "ACTIVE"
      BY DEF ActiveChairman, Row
    <2>5. NobodyLeaves
      BY <1>0, <2>3, <2>4, DemotedStatus DEF NobodyLeaves, ActiveIn
    <2> QED
      BY <2>2, <2>3, <2>4, <2>5 DEF EntryStep, Enters, ActiveIn
  <1>3. ASSUME NEW a \in Users, NEW u \in Users, GrantChairmanPermission(a, u)
        PROVE  EntryStep
    BY <1>3 DEF GrantChairmanPermission, EntryStep, Stays, NobodyLeaves, ActiveIn
  <1> QED
    BY <1>1, <1>2, <1>3 DEF AdministrationNext, RevokeChairmanPermission, RemoveHouseChairman

LEMMA EntrySteps == ServiceInv /\ [Next]_vars => EntryStep
  <1> SUFFICES ASSUME ServiceInv, [Next]_vars PROVE EntryStep
    OBVIOUS
  <1>1. ASSUME member' = member, defaultHouse' = defaultHouse PROVE EntryStep
    BY <1>1 DEF EntryStep, Stays, NobodyLeaves, ActiveIn
  <1>2. CASE RegistrationNext
    BY <1>1, <1>2, EntryApprovals DEF RegistrationNext, CreateHouseRegistration,
       RejectHouseRegistration, CancelHouseRegistration
  <1>3. CASE JoinNext
    BY <1>1, <1>3, EntryApprovals DEF JoinNext, CreateJoinRequest, RejectJoinRequest,
       CancelJoinRequest
  <1>4. CASE Replay \/ UNCHANGED vars
    BY <1>1, <1>4 DEF Replay, tables, vars
  <1> QED
    BY <1>2, <1>3, <1>4, EntryTransfer, EntryMembers, EntryAdministration DEF Next

LEMMA DefaultInductive ==
    ServiceInv /\ DefaultHouseIsActive /\ [Next]_vars => DefaultHouseIsActive'
  <1> SUFFICES ASSUME ServiceInv, DefaultHouseIsActive, [Next]_vars,
                      NEW v \in Users, defaultHouse'[v] # NoHouse
               PROVE  member'[v][defaultHouse'[v]].status = "ACTIVE"
    BY DEF DefaultHouseIsActive
  <1>0. /\ defaultHouse \in [Users -> Houses \cup {NoHouse}]
        /\ defaultHouse[v] # NoHouse => ActiveIn(v, defaultHouse[v])
    BY DEF ServiceInv, TypeOK, DefaultHouseIsActive, ActiveIn
  <1>1. CASE Stays
    BY <1>0, <1>1 DEF Stays, NobodyLeaves, ActiveIn
  <1>2. ASSUME NEW u \in Users, NEW h \in Houses, Enters(u, h)
        PROVE  member'[v][defaultHouse'[v]].status = "ACTIVE"
    <2>1. defaultHouse'[v] = defaultHouse[v] \/ (v = u /\ defaultHouse'[v] = h)
      BY <1>0, <1>2 DEF Enters, DefaultTo
    <2> QED
      BY <1>0, <1>2, <2>1 DEF Enters, NobodyLeaves, ActiveIn
  <1>3. ASSUME NEW u \in Users, NEW h \in Houses, Leaves(u, h)
        PROVE  member'[v][defaultHouse'[v]].status = "ACTIVE"
    <2>1. defaultHouse'[v] = defaultHouse[v] /\ ~(v = u /\ defaultHouse[v] = h)
      BY <1>0, <1>3 DEF Leaves, ClearDefault
    <2>2. defaultHouse[v] \in Houses /\ member'[v][defaultHouse[v]] = member[v][defaultHouse[v]]
      BY <1>0, <1>3, <2>1 DEF Leaves
    <2> QED
      BY <1>0, <2>1, <2>2 DEF ActiveIn
  <1> QED
    BY <1>1, <1>2, <1>3, EntrySteps DEF EntryStep

\* Whatever house a user opens by default, the user is an ACTIVE member of it.
THEOREM DefaultHousesAreOpen == Spec => []DefaultHouseIsActive
  <1>1. Init => DefaultHouseIsActive
    BY DEF Init, DefaultHouseIsActive
  <1> QED
    BY <1>1, ServiceInvAlways, DefaultInductive, PTL DEF Spec

-----------------------------------------------------------------------------
(* Access.                                                                 *)

Announced(u, h) ==
    \E e \in emitted' : e.kind \in MembershipEvents /\ e.house = h /\ e.user = u

\* Access and rows of all others stay.
OthersStay(u, h) ==
    \A v \in Users, k \in Houses : ~(v = u /\ k = h) =>
        /\ ActiveIn(v, k) <=> ActiveIn(v, k)'
        /\ member[v][k] = NoRow => member'[v][k] = NoRow

NoneApproved == \A v \in Users, k \in Houses : ~JoinApproved(v, k)

RegistrationApproved(u, h) ==
    \E i \in RegIds : /\ reg[i] = [applicant |-> u, house |-> h, status |-> "PENDING"]
                      /\ reg'[i].status = "APPROVED"

\* Nobody's access changes.
AccessStays ==
    /\ NoneApproved
    /\ \A v \in Users, k \in Houses : /\ ActiveIn(v, k) <=> ActiveIn(v, k)'
                                      /\ member[v][k] = NoRow => member'[v][k] = NoRow

Manages(u, h) == NoneApproved /\ member[u][h] # NoRow /\ Announced(u, h)

Founds(u, h) == NoneApproved /\ RegistrationApproved(u, h) /\ Announced(u, h)

Joins(u, h) ==
    /\ JoinApproved(u, h) /\ Announced(u, h)
    /\ \A v \in Users, k \in Houses : JoinApproved(v, k) => v = u /\ k = h
    /\ member'[u][h] = Joined(member[u][h])

GetsSeat(u, h) ==
    NoneApproved /\ member'[u][h] = ActiveChairman /\ u \in perm' /\ h \in houses /\ emitted' = {}

AccessStep ==
    \/ AccessStays
    \/ \E u \in Users, h \in Houses :
         OthersStay(u, h) /\ (Manages(u, h) \/ Founds(u, h) \/ Joins(u, h) \/ GetsSeat(u, h))

LEMMA AccessRegistration == ServiceInv /\ RegistrationNext => AccessStep
  <1> SUFFICES ASSUME ServiceInv, NEW a \in Users, NEW i \in RegIds,
                      \/ \E h \in Houses : CreateHouseRegistration(a, h, i)
                      \/ ApproveHouseRegistration(a, i)
                      \/ RejectHouseRegistration(a, i)
                      \/ CancelHouseRegistration(a, i)
               PROVE  AccessStep
    BY DEF RegistrationNext
  <1>1. join' = join /\ NoneApproved
    <2>1. join' = join
      BY DEF CreateHouseRegistration, ApproveHouseRegistration, RejectHouseRegistration,
             CancelHouseRegistration
    <2> QED
      BY <2>1 DEF NoneApproved, JoinApproved
  <1>2. CASE ApproveHouseRegistration(a, i)
    <2>1. /\ reg[i] \in [applicant : Users, house : Houses,
                         status : {"PENDING", "APPROVED", "REJECTED", "CANCELLED"}]
          /\ reg[i].status = "PENDING"
      BY <1>2 DEF ApproveHouseRegistration, Open, ServiceInv, TypeOK, Registration, NoRegistration
    <2>2. PICK u \in Users, h \in Houses :
              reg[i] = [applicant |-> u, house |-> h, status |-> "PENDING"]
      BY <2>1
    <2>3. /\ member' = [member EXCEPT ![u][h] = ActiveChairman]
          /\ Event("house.membership.created", h, u) \in emitted'
          /\ reg' = [reg EXCEPT ![i].status = "APPROVED"]
      BY <1>2, <2>2 DEF ApproveHouseRegistration
    <2>4. member \in Memberships
      BY DEF ServiceInv, TypeOK, Memberships
    <2>5. OthersStay(u, h)
      BY <2>3, <2>4, MemberAt DEF OthersStay, ActiveIn
    <2>6. Announced(u, h)
      BY <2>3 DEF Announced, Event, MembershipEvents
    <2>7. RegistrationApproved(u, h)
      <3>1. reg'[i] = [reg[i] EXCEPT !.status = "APPROVED"]
        BY <2>3 DEF ServiceInv, TypeOK
      <3>2. reg'[i].status = "APPROVED"
        BY <2>1, <3>1
      <3> QED
        BY <2>2, <3>2 DEF RegistrationApproved
    <2> QED
      BY <1>1, <2>5, <2>6, <2>7 DEF AccessStep, Founds
  <1>3. CASE member' = member
    BY <1>1, <1>3 DEF AccessStep, AccessStays, ActiveIn
  <1> QED
    BY <1>2, <1>3 DEF CreateHouseRegistration, RejectHouseRegistration, CancelHouseRegistration

LEMMA AccessJoin == ServiceInv /\ JoinNext => AccessStep
  <1> SUFFICES ASSUME ServiceInv, NEW a \in Users, NEW i \in JoinIds,
                      \/ \E h \in Houses : CreateJoinRequest(a, h, i)
                      \/ ApproveJoinRequest(a, i)
                      \/ RejectJoinRequest(a, i)
                      \/ CancelJoinRequest(a, i)
               PROVE  AccessStep
    BY DEF JoinNext
  <1>0. member \in Memberships /\ join \in [JoinIds -> JoinRequest]
    BY DEF ServiceInv, TypeOK, Memberships
  <1>1. CASE ApproveJoinRequest(a, i)
    <2>1. /\ join[i] \in [user : Users, house : Houses,
                          status : {"PENDING", "APPROVED", "REJECTED", "CANCELLED"}]
          /\ join[i].status = "PENDING"
      BY <1>0, <1>1 DEF ApproveJoinRequest, Open, JoinRequest, NoJoin
    <2>2. PICK u \in Users, h \in Houses :
              join[i] = [user |-> u, house |-> h, status |-> "PENDING"]
      BY <2>1
    <2>3. /\ member' = [member EXCEPT ![u][h] = Joined(member[u][h])]
          /\ Event("house.membership.activated", h, u) \in emitted'
          /\ join' = [join EXCEPT ![i].status = "APPROVED"]
      BY <1>1, <2>2 DEF ApproveJoinRequest
    <2>4. OthersStay(u, h) /\ member'[u][h] = Joined(member[u][h])
      <3>1. PICK row : row = Joined(member[u][h])
        OBVIOUS
      <3>2. member' = [member EXCEPT ![u][h] = row]
        BY <2>3, <3>1
      <3>3. \A v \in Users, k \in Houses :
                member'[v][k] = IF v = u /\ k = h THEN row ELSE member[v][k]
        BY <1>0, <3>2, MemberAt
      <3> QED
        BY <3>1, <3>3 DEF OthersStay, ActiveIn
    <2>5. Announced(u, h)
      BY <2>3 DEF Announced, Event, MembershipEvents
    <2>6. /\ join'[i] = [join[i] EXCEPT !.status = "APPROVED"]
          /\ \A j \in JoinIds \ {i} : join'[j] = join[j]
      BY <1>0, <2>3
    <2>7. join'[i].status = "APPROVED"
      BY <2>1, <2>6
    <2>8. JoinApproved(u, h)
      BY <2>2, <2>7 DEF JoinApproved
    <2>9. ASSUME NEW v \in Users, NEW k \in Houses, JoinApproved(v, k) PROVE v = u /\ k = h
      <3>1. PICK j \in JoinIds : /\ join[j] = [user |-> v, house |-> k, status |-> "PENDING"]
                                 /\ join'[j].status = "APPROVED"
        BY <2>9 DEF JoinApproved
      <3>2. j = i
        BY <2>6, <3>1
      <3> QED
        BY <2>2, <3>1, <3>2
    <2> QED
      BY <2>4, <2>5, <2>8, <2>9 DEF AccessStep, Joins
  <1>2. ASSUME NEW row, join' = [join EXCEPT ![i] = row], row.status # "APPROVED", member' = member
        PROVE  AccessStep
    <2>1. \A j \in JoinIds : join'[j] = IF j = i THEN row ELSE join[j]
      BY <1>0, <1>2
    <2>2. NoneApproved
      BY <1>2, <2>1 DEF NoneApproved, JoinApproved
    <2> QED
      BY <1>2, <2>2 DEF AccessStep, AccessStays, ActiveIn
  <1>3. ASSUME NEW h \in Houses, CreateJoinRequest(a, h, i) PROVE AccessStep
    <2>1. PICK row : row = [user |-> a, house |-> h, status |-> "PENDING"]
      OBVIOUS
    <2>2. row.status # "APPROVED" /\ join' = [join EXCEPT ![i] = row] /\ member' = member
      BY <1>3, <2>1 DEF CreateJoinRequest
    <2> QED
      BY <1>2, <2>2
  <1>4. ASSUME RejectJoinRequest(a, i) \/ CancelJoinRequest(a, i) PROVE AccessStep
    <2>1. join[i] \in [user : Users, house : Houses,
                       status : {"PENDING", "APPROVED", "REJECTED", "CANCELLED"}]
      BY <1>0, <1>4 DEF RejectJoinRequest, CancelJoinRequest, Open, JoinRequest, NoJoin
    <2>2. PICK s \in {"REJECTED", "CANCELLED"} : join' = [join EXCEPT ![i].status = s]
      BY <1>4 DEF RejectJoinRequest, CancelJoinRequest
    <2>3. PICK row : row = [join[i] EXCEPT !.status = s]
      OBVIOUS
    <2>4. row.status # "APPROVED" /\ join' = [join EXCEPT ![i] = row]
      BY <2>1, <2>2, <2>3
    <2> QED
      BY <1>2, <1>4, <2>4 DEF RejectJoinRequest, CancelJoinRequest
  <1> QED
    BY <1>1, <1>3, <1>4

LEMMA AccessMembers == ServiceInv /\ MembersNext => AccessStep
  <1> SUFFICES ASSUME ServiceInv, NEW a \in Users, NEW u \in Users, NEW h \in Houses,
                      \/ DeactivateMembership(a, u, h)
                      \/ ReactivateMembership(a, u, h)
                      \/ RemoveMembership(a, u, h)
               PROVE  AccessStep
    BY DEF MembersNext
  <1>1. join' = join /\ member[u][h] # NoRow
    BY DEF DeactivateMembership, ReactivateMembership, RemoveMembership, MayManageMember
  <1>2. Announced(u, h)
    <2>1. PICK kind \in MembershipEvents : emitted' = {Event(kind, h, u)}
      BY DEF DeactivateMembership, ReactivateMembership, RemoveMembership, MembershipEvents
    <2>2. Event(kind, h, u) \in emitted'
      BY <2>1
    <2> QED
      BY <2>1, <2>2 DEF Announced, Event
  <1>3. OthersStay(u, h)
    <2>0. member \in Memberships
      BY DEF ServiceInv, TypeOK, Memberships
    <2>1. PICK row : member' = [member EXCEPT ![u][h] = row]
      BY <1>1, <2>0, StatusWrite DEF DeactivateMembership, ReactivateMembership, RemoveMembership
    <2> QED
      BY <2>0, <2>1, MemberAt DEF OthersStay, ActiveIn
  <1>4. NoneApproved
    BY <1>1 DEF NoneApproved, JoinApproved
  <1> QED
    BY <1>1, <1>2, <1>3, <1>4 DEF AccessStep, Manages

LEMMA AccessTransfer == ServiceInv /\ TransferNext => AccessStep
  <1> SUFFICES ASSUME ServiceInv, TransferNext PROVE AccessStep
    OBVIOUS
  <1>1. join' = join
    <2>1. ASSUME NEW a, NEW i, NEW h, NEW u, NEW l,
                 \/ CreateChairmanTransfer(a, h, u, i, l) \/ AcceptChairmanTransfer(a, i, l)
                 \/ RejectChairmanTransfer(a, i, l) \/ CancelChairmanTransfer(a, i, l)
                 \/ ListChairmanTransfers(l)
          PROVE  join' = join
      BY <2>1 DEF CreateChairmanTransfer, AcceptChairmanTransfer, RejectChairmanTransfer,
                  CancelChairmanTransfer, ListChairmanTransfers
    <2> QED
      BY <2>1 DEF TransferNext
  <1>2. NoneApproved
    BY <1>1 DEF NoneApproved, JoinApproved
  <1>3. ASSUME NEW a \in Users, NEW i \in TransferIds, NEW l, AcceptChairmanTransfer(a, i, l)
        PROVE  AccessStep
    <2>1. PICK h, c : /\ member' = [member EXCEPT ![c][h] = ActiveResident, ![a][h] = ActiveChairman]
                      /\ member[c][h] = ActiveChairman /\ member[a][h] = ActiveResident
      BY <1>3 DEF AcceptChairmanTransfer
    <2>2. /\ ActiveChairman.status = "ACTIVE" /\ ActiveResident.status = "ACTIVE"
          /\ ActiveResident # NoRow /\ ActiveChairman # NoRow
      BY DEF ActiveChairman, ActiveResident, NoRow, Row
    <2>3. member \in [Users -> [Houses -> Membership]]
      BY DEF ServiceInv, TypeOK
    <2> QED
      BY <1>2, <2>1, <2>2, <2>3 DEF AccessStep, AccessStays, ActiveIn
  <1>4. CASE member' = member
    BY <1>2, <1>4 DEF AccessStep, AccessStays, ActiveIn
  <1> QED
    BY <1>3, <1>4 DEF TransferNext, CreateChairmanTransfer, RejectChairmanTransfer,
                      CancelChairmanTransfer, ListChairmanTransfers

LEMMA AccessAdministration == ServiceInv /\ AdministrationNext => AccessStep
  <1> SUFFICES ASSUME ServiceInv, AdministrationNext PROVE AccessStep
    OBVIOUS
  <1>0. member \in Memberships
    BY DEF ServiceInv, TypeOK, Memberships
  <1>1. join' = join
    BY DEF AdministrationNext, GrantChairmanPermission, RevokeChairmanPermission,
           AssignHouseChairman, RemoveHouseChairman
  <1>2. NoneApproved
    BY <1>1 DEF NoneApproved, JoinApproved
  <1>3. ASSUME NEW U, NEW H, member' = Demoted(U, H) PROVE AccessStep
    BY <1>0, <1>2, <1>3, DemotedStatus, DemotedAt DEF AccessStep, AccessStays, ActiveIn
  <1>4. ASSUME NEW a \in Users, NEW u \in Users, NEW h \in Houses, AssignHouseChairman(a, u, h)
        PROVE  AccessStep
    <2>1. Demoted(Users, {h}) \in Memberships
      BY <1>0, DemotedType
    <2>2. /\ member' = [Demoted(Users, {h}) EXCEPT ![u][h] = ActiveChairman]
          /\ u \in perm' /\ h \in houses /\ emitted' = {}
      BY <1>4 DEF AssignHouseChairman
    <2>3. /\ member'[u][h] = ActiveChairman
          /\ \A v \in Users, k \in Houses : ~(v = u /\ k = h) =>
                member'[v][k] = Demoted(Users, {h})[v][k]
      BY <2>1, <2>2 DEF Memberships
    <2>4. OthersStay(u, h)
      BY <1>0, <2>3, DemotedStatus, DemotedAt DEF OthersStay, ActiveIn
    <2> QED
      BY <1>2, <2>2, <2>3, <2>4 DEF AccessStep, GetsSeat
  <1>5. CASE member' = member
    BY <1>2, <1>5 DEF AccessStep, AccessStays, ActiveIn
  <1> QED
    BY <1>3, <1>4, <1>5 DEF AdministrationNext, GrantChairmanPermission,
                            RevokeChairmanPermission, RemoveHouseChairman

LEMMA AccessSteps == ServiceInv /\ [Next]_vars => AccessStep
  <1>1. ASSUME UNCHANGED tables PROVE AccessStep
    BY <1>1 DEF tables, AccessStep, AccessStays, ActiveIn, NoneApproved, JoinApproved
  <1> QED
    BY <1>1, AccessRegistration, AccessJoin, AccessMembers, AccessTransfer, AccessAdministration
       DEF Next, Replay, vars, tables

\* Nobody enters a house without a decision, and the approval of a join request
\* neither restores nor takes away a role.
THEOREM EntryIsDecided == Spec => EntryNeedsDecision
  <1> DEFINE Decided ==
        \A u \in Users, h \in Houses :
         /\ member[u][h] = NoRow /\ member'[u][h] # NoRow =>
              \/ JoinApproved(u, h)
              \/ \E i \in RegIds :
                   /\ reg[i] = [applicant |-> u, house |-> h, status |-> "PENDING"]
                   /\ reg'[i].status = "APPROVED"
              \/ member'[u][h] = ActiveChairman /\ u \in perm' /\ h \in houses
         /\ JoinApproved(u, h) =>
              member'[u][h] = IF member[u][h].status = "ACTIVE" THEN member[u][h]
                                                                ELSE ActiveResident
  <1>1. ServiceInv /\ [Next]_vars => [Decided]_vars
    <2> SUFFICES ASSUME AccessStep, NEW u \in Users, NEW h \in Houses
                 PROVE  /\ member[u][h] = NoRow /\ member'[u][h] # NoRow =>
                             \/ JoinApproved(u, h) \/ RegistrationApproved(u, h)
                             \/ member'[u][h] = ActiveChairman /\ u \in perm' /\ h \in houses
                        /\ JoinApproved(u, h) => member'[u][h] = Joined(member[u][h])
      BY AccessSteps DEF RegistrationApproved, Joined
    <2>1. CASE AccessStays
      BY <2>1 DEF AccessStays, NoneApproved
    <2>2. ASSUME NEW v \in Users, NEW k \in Houses, OthersStay(v, k),
                 Manages(v, k) \/ Founds(v, k) \/ Joins(v, k) \/ GetsSeat(v, k)
          PROVE  /\ member[u][h] = NoRow /\ member'[u][h] # NoRow =>
                      \/ JoinApproved(u, h) \/ RegistrationApproved(u, h)
                      \/ member'[u][h] = ActiveChairman /\ u \in perm' /\ h \in houses
                 /\ JoinApproved(u, h) => member'[u][h] = Joined(member[u][h])
      BY <2>2 DEF OthersStay, Manages, Founds, Joins, GetsSeat, NoneApproved
    <2> QED
      BY <2>1, <2>2 DEF AccessStep
  <1> QED
    BY <1>1, ServiceInvAlways, PTL DEF Spec, EntryNeedsDecision

\* Whoever gains or loses access is told so, unless seated by an administrator.
THEOREM AccessIsAnnounced == Spec => AccessChangesAreAnnounced
  <1> DEFINE Told ==
        \A u \in Users, h \in Houses :
         (member[u][h].status = "ACTIVE") # (member'[u][h].status = "ACTIVE") =>
            \/ \E e \in emitted' : /\ e.kind \in MembershipEvents
                                   /\ e.house = h /\ e.user = u
            \/ member'[u][h] = ActiveChairman /\ emitted' = {}
  <1>1. ServiceInv /\ [Next]_vars => [Told]_vars
    <2> SUFFICES ASSUME AccessStep, NEW u \in Users, NEW h \in Houses,
                        ~(ActiveIn(u, h) <=> ActiveIn(u, h)')
                 PROVE  Announced(u, h) \/ (member'[u][h] = ActiveChairman /\ emitted' = {})
      BY AccessSteps DEF Announced, ActiveIn
    <2>1. CASE AccessStays
      BY <2>1 DEF AccessStays
    <2>2. ASSUME NEW v \in Users, NEW k \in Houses, OthersStay(v, k),
                 Manages(v, k) \/ Founds(v, k) \/ Joins(v, k) \/ GetsSeat(v, k)
          PROVE  Announced(u, h) \/ (member'[u][h] = ActiveChairman /\ emitted' = {})
      BY <2>2 DEF OthersStay, Manages, Founds, Joins, GetsSeat
    <2> QED
      BY <2>1, <2>2 DEF AccessStep
  <1> QED
    BY <1>1, ServiceInvAlways, PTL DEF Spec, AccessChangesAreAnnounced

\* Nobody becomes an administrator of a house.
NoNewAdministrator ==
    \A v \in Users, k \in Houses :
        member'[v][k].role = "ADMIN" => member[v][k].role = "ADMIN"

LEMMA RolesStep == ServiceInv /\ [Next]_vars => NoNewAdministrator
  <1> SUFFICES ASSUME ServiceInv, [Next]_vars PROVE NoNewAdministrator
    OBVIOUS
  <1>0. member \in Memberships
    BY DEF ServiceInv, TypeOK, Memberships
  <1>1. /\ ActiveChairman.role # "ADMIN" /\ ActiveResident.role # "ADMIN" /\ NoRow.role # "ADMIN"
        /\ \A row : Joined(row).role = "ADMIN" => Joined(row) = row
    BY DEF ActiveChairman, ActiveResident, NoRow, Row, Joined
  <1>2. ASSUME NEW u \in Users, NEW h \in Houses, NEW row,
               row.role = "ADMIN" => member[u][h].role = "ADMIN",
               member' = [member EXCEPT ![u][h] = row]
        PROVE  NoNewAdministrator
    BY <1>0, <1>2, MemberAt DEF NoNewAdministrator
  <1>3. CASE member' = member
    BY <1>3 DEF NoNewAdministrator
  <1>4. CASE RegistrationNext
    <2>1. ASSUME NEW a \in Users, NEW i \in RegIds, ApproveHouseRegistration(a, i)
          PROVE  NoNewAdministrator
      <3>1. PICK u \in Users, h \in Houses : reg[i].applicant = u /\ reg[i].house = h
        BY <2>1 DEF ApproveHouseRegistration, Open, ServiceInv, TypeOK, Registration, NoRegistration
      <3>2. member' = [member EXCEPT ![u][h] = ActiveChairman]
        BY <2>1, <3>1 DEF ApproveHouseRegistration
      <3> QED
        BY <1>1, <1>2, <3>2
    <2> QED
      BY <1>3, <1>4, <2>1 DEF RegistrationNext, CreateHouseRegistration, RejectHouseRegistration,
                              CancelHouseRegistration
  <1>5. CASE JoinNext
    <2>1. ASSUME NEW a \in Users, NEW i \in JoinIds, ApproveJoinRequest(a, i)
          PROVE  NoNewAdministrator
      <3>1. PICK u \in Users, h \in Houses : join[i].user = u /\ join[i].house = h
        BY <2>1 DEF ApproveJoinRequest, Open, ServiceInv, TypeOK, JoinRequest, NoJoin
      <3>2. PICK row : row = Joined(member[u][h])
        OBVIOUS
      <3>3. member' = [member EXCEPT ![u][h] = row]
        BY <2>1, <3>1, <3>2 DEF ApproveJoinRequest
      <3> QED
        BY <1>1, <1>2, <3>2, <3>3 DEF Joined
    <2> QED
      BY <1>3, <1>5, <2>1 DEF JoinNext, CreateJoinRequest, RejectJoinRequest, CancelJoinRequest
  <1>6. CASE TransferNext
    <2>1. ASSUME NEW a \in Users, NEW i \in TransferIds, NEW l, AcceptChairmanTransfer(a, i, l)
          PROVE  NoNewAdministrator
      <3>1. PICK h, c : member' = [member EXCEPT ![c][h] = ActiveResident, ![a][h] = ActiveChairman]
        BY <2>1 DEF AcceptChairmanTransfer
      <3> QED
        BY <1>0, <1>1, <3>1 DEF NoNewAdministrator, Memberships
    <2> QED
      BY <1>3, <1>6, <2>1 DEF TransferNext, CreateChairmanTransfer, RejectChairmanTransfer,
                              CancelChairmanTransfer, ListChairmanTransfers
  <1>7. CASE MembersNext
    <2> SUFFICES ASSUME NEW a \in Users, NEW u \in Users, NEW h \in Houses,
                        \/ DeactivateMembership(a, u, h)
                        \/ ReactivateMembership(a, u, h)
                        \/ RemoveMembership(a, u, h)
                 PROVE  NoNewAdministrator
      BY <1>7 DEF MembersNext
    <2>1. ASSUME NEW s, member' = [member EXCEPT ![u][h] = Row(member[u][h].role, s)]
          PROVE  NoNewAdministrator
      <3>1. PICK row : row = Row(member[u][h].role, s)
        OBVIOUS
      <3>2. row.role = member[u][h].role
        BY <3>1 DEF Row
      <3> QED
        BY <1>2, <2>1, <3>1, <3>2
    <2>2. CASE DeactivateMembership(a, u, h)
      <3>1. member' = [member EXCEPT ![u][h] = Row(member[u][h].role, "INACTIVE")]
        BY <1>0, <2>2, StatusWrite DEF DeactivateMembership, MayManageMember
      <3> QED
        BY <2>1, <3>1
    <2>3. CASE ReactivateMembership(a, u, h)
      <3>1. member' = [member EXCEPT ![u][h] = Row(member[u][h].role, "ACTIVE")]
        BY <1>0, <2>3, StatusWrite DEF ReactivateMembership, MayManageMember
      <3> QED
        BY <2>1, <3>1
    <2>4. CASE RemoveMembership(a, u, h)
      BY <1>1, <1>2, <2>4 DEF RemoveMembership
    <2> QED
      BY <2>2, <2>3, <2>4
  <1>8. CASE AdministrationNext
    <2>1. ASSUME NEW U, NEW H, NEW v \in Users, NEW k \in Houses, Demoted(U, H)[v][k].role = "ADMIN"
          PROVE  member[v][k].role = "ADMIN"
      BY <1>0, <2>1 DEF Demoted, Memberships, Row
    <2>2. ASSUME NEW a \in Users, NEW u \in Users, NEW h \in Houses, AssignHouseChairman(a, u, h)
          PROVE  NoNewAdministrator
      <3>1. Demoted(Users, {h}) \in Memberships
        BY <1>0, DemotedType
      <3>2. member' = [Demoted(Users, {h}) EXCEPT ![u][h] = ActiveChairman]
        BY <2>2 DEF AssignHouseChairman
      <3>3. \A v \in Users, k \in Houses :
                member'[v][k] = IF v = u /\ k = h THEN ActiveChairman ELSE Demoted(Users, {h})[v][k]
        BY <3>1, <3>2 DEF Memberships
      <3> QED
        BY <1>1, <2>1, <3>3 DEF NoNewAdministrator
    <2>3. ASSUME NEW U, NEW H, member' = Demoted(U, H) PROVE NoNewAdministrator
      BY <2>1, <2>3 DEF NoNewAdministrator
    <2> QED
      BY <1>3, <1>8, <2>2, <2>3 DEF AdministrationNext, GrantChairmanPermission,
                                   RevokeChairmanPermission, RemoveHouseChairman
  <1> QED
    BY <1>3, <1>4, <1>5, <1>6, <1>7, <1>8 DEF Next, Replay, vars, tables

\* When one chairman replaces another, no offer of the house stays open and the
\* former one stays in the house as a resident.
THEOREM ChairmenAreReplaced == Spec => ChairmanIsReplacedCleanly
  <1> DEFINE Clean ==
        \A h \in Houses, u, v \in Users :
         u # v /\ member[u][h] = ActiveChairman /\ member'[v][h] = ActiveChairman =>
            /\ member'[u][h] = ActiveResident
            /\ \A t \in TransferIds : ~(transfer'[t].house = h /\ transfer'[t].status = "PENDING")
  <1>1. ServiceInv /\ ServiceInv' /\ [Next]_vars => [Clean]_vars
    <2> SUFFICES ASSUME ServiceInv, ServiceInv', [Next]_vars,
                        NEW h \in Houses, NEW u \in Users, NEW v \in Users, u # v,
                        member[u][h] = ActiveChairman, member'[v][h] = ActiveChairman
                 PROVE  /\ member'[u][h] = ActiveResident
                        /\ \A t \in TransferIds :
                               ~(transfer'[t].house = h /\ transfer'[t].status = "PENDING")
      OBVIOUS
    <2>1. Chairs(u, h) /\ Chairs(v, h)' /\ ~Chairs(v, h) /\ ~Chairs(u, h)'
      BY Rows DEF Chairs, ServiceInv, OneChairmanRow
    <2>2. Rises(v, h)
      BY <2>1, ChairmenSteps DEF ChairmenStep, NobodyRises, Rises
    <2>3. ActiveIn(u, h)'
      <3>1. ActiveIn(u, h)
        BY DEF ActiveIn, ActiveChairman, Row
      <3>2. ASSUME NEW w \in Users, NEW k \in Houses, Leaves(w, k) PROVE FALSE
        BY <2>1, <3>2 DEF Leaves, Chairs
      <3> QED
        BY <3>1, <3>2, EntrySteps DEF EntryStep, Stays, Enters, NobodyLeaves
    <2>4. member'[u][h] \in Membership
      BY DEF ServiceInv, TypeOK
    <2>5. member'[u][h].role # "ADMIN"
      BY RolesStep, <2>1 DEF NoNewAdministrator, Chairs
    <2>6. member'[u][h] \in [role : Roles, status : {"ACTIVE", "INACTIVE"}]
      BY <2>3, <2>4 DEF Membership, ActiveIn, NoRow, Row
    <2>7. member'[u][h].role = "RESIDENT" /\ member'[u][h].status = "ACTIVE"
      BY <2>1, <2>3, <2>5, <2>6 DEF Chairs, ActiveIn, Roles
    <2>8. member'[u][h] = ActiveResident
      BY <2>6, <2>7 DEF ActiveResident, Row
    <2> QED
      BY <2>2, <2>8 DEF Rises
  <1> QED
    BY <1>1, ServiceInvAlways, PTL DEF Spec, ChairmanIsReplacedCleanly
=============================================================================

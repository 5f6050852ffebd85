---------------------------- MODULE HouseWorkflow ----------------------------
(***************************************************************************)
(* The house workflow of identity-service: who may register and run a      *)
(* house, who is a member of it, and how the chairmanship changes hands.   *)
(*                                                                         *)
(* Every operation of internal/house runs in one PostgreSQL transaction    *)
(* that first takes the same advisory lock (service.go:150), and an error  *)
(* rolls the transaction back.  An operation is therefore one action whose *)
(* guard is the conjunction of the handler's checks; a refused operation   *)
(* changes nothing and is not an action.  Read-only operations and         *)
(* repeated decisions commit a transaction that writes nothing: Replay.    *)
(*                                                                         *)
(* A house is identified with its normalized address: the unique index     *)
(* houses_normalized_address_unique makes that a key, rows of houses are   *)
(* never updated or deleted.  Ids of the other tables are drawn from       *)
(* finite pools whose unused members are rows of status "NONE".            *)
(***************************************************************************)
CONSTANTS
    Users,          \* rows of users
    Admins,         \* ADMIN_USER_IDS, the platform administrators
    Houses,         \* normalized addresses
    RegIds,         \* ids of house_registrations
    JoinIds,        \* ids of join_requests
    TransferIds,    \* ids of chairman_transfers
    NoUser, NoHouse \* SQL NULL

ASSUME AdminsAssumption == Admins \subseteq Users
ASSUME NullAssumption == NoUser \notin Users /\ NoHouse \notin Houses

VARIABLES
    perm,           \* chairman_permissions: users allowed to chair a house
    houses,         \* houses that exist
    member,         \* memberships, at most one row for a user and a house
    defaultHouse,   \* users.default_house_id
    reg,            \* house_registrations
    join,           \* join_requests
    transfer,       \* chairman_transfers
    emitted         \* identity_outbox rows the last transaction inserted

tables == <<perm, houses, member, defaultHouse, reg, join, transfer>>
vars == <<perm, houses, member, defaultHouse, reg, join, transfer, emitted>>

-----------------------------------------------------------------------------
(* Rows.                                                                   *)

Row(role, status) == [role |-> role, status |-> status]
NoRow == Row("NONE", "NONE")
ActiveChairman == Row("CHAIRMAN", "ACTIVE")
ActiveResident == Row("RESIDENT", "ACTIVE")

NoRegistration == [applicant |-> NoUser, house |-> NoHouse, status |-> "NONE"]
NoJoin == [user |-> NoUser, house |-> NoHouse, status |-> "NONE"]
NoTransfer == [house |-> NoHouse, current |-> NoUser, target |-> NoUser,
               status |-> "NONE"]

Event(kind, h, u) == [kind |-> kind, house |-> h, user |-> u]

Roles == {"RESIDENT", "CHAIRMAN", "ADMIN"}
Membership == {NoRow} \cup [role : Roles, status : {"ACTIVE", "INACTIVE"}]
Registration == {NoRegistration} \cup
    [applicant : Users, house : Houses,
     status : {"PENDING", "APPROVED", "REJECTED", "CANCELLED"}]
JoinRequest == {NoJoin} \cup
    [user : Users, house : Houses,
     status : {"PENDING", "APPROVED", "REJECTED", "CANCELLED"}]
Transfer == {NoTransfer} \cup
    [house : Houses, current : Users, target : Users,
     status : {"PENDING", "ACCEPTED", "REJECTED", "CANCELLED", "EXPIRED"}]
EventKinds ==
    {"house.registration.created", "house.registration.approved",
     "house.registration.rejected", "house.registration.cancelled",
     "house.created", "house.chairman.assigned", "house.membership.created",
     "house.join.created", "house.join.approved", "house.join.rejected",
     "house.join.cancelled", "house.membership.activated",
     "house.membership.deactivated", "house.membership.removed",
     "house.chairman.transfer_requested", "house.chairman.transfer_completed",
     "house.chairman.transfer_accepted", "house.chairman.transfer_rejected",
     "house.chairman.transfer_cancelled"}
OutboxRow == [kind : EventKinds, house : Houses \cup {NoHouse}, user : Users]

-----------------------------------------------------------------------------
(* Permissions the handlers consult.                                       *)

\* chairmanAllowed, or a platform administrator.
MayChair(u) == u \in perm \cup Admins

\* manager(): the actor works in the house of its session, and is a platform
\* administrator or an ACTIVE chairman or administrator of that house.
Manager(a, h) ==
    \/ a \in Admins
    \/ member[a][h] \in {ActiveChairman, Row("ADMIN", "ACTIVE")}

\* The unique index memberships_one_active_chairman admits u as chairman of h.
ChairmanSeatFree(u, h) == \A v \in Users \ {u} : member[v][h] # ActiveChairman

\* Every write of default_house_id on activation: COALESCE(default_house_id, h).
DefaultTo(u, h) ==
    IF defaultHouse[u] = NoHouse THEN [defaultHouse EXCEPT ![u] = h]
                                 ELSE defaultHouse

\* Fault: it is never cleared.
KeepDefault(u, h) == defaultHouse

\* Clearing it when a membership of h stops being ACTIVE.
ClearDefault(u, h) ==
    IF defaultHouse[u] = h THEN [defaultHouse EXCEPT ![u] = NoHouse]
                           ELSE defaultHouse

\* Faults: only ACTIVE rows lose the role; it goes with the access.
DemotedActiveOnly(U, H) ==
    [u \in Users |-> [h \in Houses |->
        IF u \in U /\ h \in H /\ member[u][h] = ActiveChairman
        THEN ActiveResident ELSE member[u][h]]]
DemotedAndExcluded(U, H) ==
    [u \in Users |-> [h \in Houses |->
        IF u \in U /\ h \in H /\ member[u][h].role = "CHAIRMAN"
        THEN Row("RESIDENT", "INACTIVE") ELSE member[u][h]]]

\* UPDATE memberships SET role='RESIDENT' for the CHAIRMAN rows of U x H,
\* whatever their status.
Demoted(U, H) ==
    [u \in Users |-> [h \in Houses |->
        IF u \in U /\ h \in H /\ member[u][h].role = "CHAIRMAN"
        THEN Row("RESIDENT", member[u][h].status)
        ELSE member[u][h]]]

Pending == {t \in TransferIds : transfer[t].status = "PENDING"}

\* Fault: they outlive the chairman.
NoHouseOffers(h) == {}

\* The open offers of a house, which go with its chairman.
HouseOffers(h) == {t \in Pending : transfer[t].house = h}

\* chairman_transfers after the offers in T were closed with status s.
Closed(T, s) ==
    [t \in TransferIds |->
        IF t \in T THEN [transfer[t] EXCEPT !.status = s] ELSE transfer[t]]

\* Fault: any recorded decision can be taken again.
OpenForever(row) == row.status # "NONE"

\* transition(): only a PENDING row is decided; deciding it the same way again
\* is Replay.
Open(row) == row.status = "PENDING"

-----------------------------------------------------------------------------
(* House registrations (registration.go).                                  *)

\* Fault: the index is missing.
NoAddressIndex(h) == FALSE

\* The unique index registrations_pending_address finds the address taken.
AddressUnderReview(h) ==
    \E j \in RegIds : reg[j].house = h /\ reg[j].status = "PENDING"

CreateHouseRegistration(a, h, i) ==
    /\ MayChair(a)
    /\ h \notin houses
    /\ reg[i] = NoRegistration
    /\ ~AddressUnderReview(h)
    /\ reg' = [reg EXCEPT ![i] =
                 [applicant |-> a, house |-> h, status |-> "PENDING"]]
    /\ emitted' = {Event("house.registration.created", NoHouse, a)}
    /\ UNCHANGED <<perm, houses, member, defaultHouse, join, transfer>>

\* The insert into houses fails when the address is taken meanwhile.
ApproveHouseRegistration(a, i) ==
    LET u == reg[i].applicant
        h == reg[i].house IN
    /\ a \in Admins
    /\ Open(reg[i])
    /\ MayChair(u)
    /\ h \notin houses
    /\ houses' = houses \cup {h}
    /\ member' = [member EXCEPT ![u][h] = ActiveChairman]
    /\ defaultHouse' = DefaultTo(u, h)
    /\ reg' = [reg EXCEPT ![i].status = "APPROVED"]
    /\ emitted' = {Event(k, h, u) : k \in
                     {"house.created", "house.chairman.assigned",
                      "house.membership.created", "house.registration.approved"}}
    /\ UNCHANGED <<perm, join, transfer>>

RejectHouseRegistration(a, i) ==
    /\ a \in Admins
    /\ Open(reg[i])
    /\ reg' = [reg EXCEPT ![i].status = "REJECTED"]
    /\ emitted' = {Event("house.registration.rejected", NoHouse, reg[i].applicant)}
    /\ UNCHANGED <<perm, houses, member, defaultHouse, join, transfer>>

CancelHouseRegistration(a, i) ==
    /\ a = reg[i].applicant
    /\ Open(reg[i])
    /\ reg' = [reg EXCEPT ![i].status = "CANCELLED"]
    /\ emitted' = {Event("house.registration.cancelled", NoHouse, a)}
    /\ UNCHANGED <<perm, houses, member, defaultHouse, join, transfer>>

-----------------------------------------------------------------------------
(* Join requests (registration.go).                                        *)

\* createJoin when no PENDING request exists; an existing one is returned as
\* it is, which is Replay.
CreateJoinRequest(a, h, i) ==
    /\ h \in houses
    /\ member[a][h].status # "ACTIVE"
    /\ \A j \in JoinIds :
         ~(join[j].user = a /\ join[j].house = h /\ join[j].status = "PENDING")
    /\ join[i] = NoJoin
    /\ join' = [join EXCEPT ![i] = [user |-> a, house |-> h, status |-> "PENDING"]]
    /\ emitted' = {Event("house.join.created", h, a)}
    /\ UNCHANGED <<perm, houses, member, defaultHouse, reg, transfer>>

\* Fault: the role of an INACTIVE row comes back with the approval.
JoinedWithOldRole(row) ==
    IF row = NoRow THEN ActiveResident ELSE [row EXCEPT !.status = "ACTIVE"]

\* The upsert keeps the role of an ACTIVE row and makes any other a RESIDENT.
Joined(row) == IF row.status = "ACTIVE" THEN row ELSE ActiveResident

ApproveJoinRequest(a, i) ==
    LET u == join[i].user
        h == join[i].house IN
    /\ Open(join[i])
    /\ Manager(a, h)
    /\ member' = [member EXCEPT ![u][h] = Joined(@)]
    /\ defaultHouse' = DefaultTo(u, h)
    /\ join' = [join EXCEPT ![i].status = "APPROVED"]
    /\ emitted' = {Event("house.membership.activated", h, u),
                   Event("house.join.approved", h, u)}
    /\ UNCHANGED <<perm, houses, reg, transfer>>

RejectJoinRequest(a, i) ==
    /\ Open(join[i])
    /\ Manager(a, join[i].house)
    /\ join' = [join EXCEPT ![i].status = "REJECTED"]
    /\ emitted' = {Event("house.join.rejected", join[i].house, join[i].user)}
    /\ UNCHANGED <<perm, houses, member, defaultHouse, reg, transfer>>

CancelJoinRequest(a, i) ==
    /\ Open(join[i])
    /\ a = join[i].user
    /\ join' = [join EXCEPT ![i].status = "CANCELLED"]
    /\ emitted' = {Event("house.join.cancelled", join[i].house, a)}
    /\ UNCHANGED <<perm, houses, member, defaultHouse, reg, transfer>>

-----------------------------------------------------------------------------
(* Chairman transfers (members.go).  Every transfer operation first        *)
(* expires the offers whose 48 hours have passed; the expiry is kept only  *)
(* when the operation commits.  Time is abstracted to the set of PENDING   *)
(* offers the statement finds late: now() is the start of the transaction, *)
(* before the wait for the advisory lock, so a later transaction may even  *)
(* find fewer of them late.                                                *)

CreateChairmanTransfer(a, h, target, i, late) ==
    LET expired == Closed(late, "EXPIRED") IN
    /\ target \in perm
    /\ target # a
    /\ Manager(a, h)
    /\ member[a][h] = ActiveChairman
    /\ member[target][h] = ActiveResident
    /\ transfer[i] = NoTransfer
    \* chairman_transfers_one_pending
    /\ HouseOffers(h) \subseteq late
    /\ transfer' = [expired EXCEPT ![i] =
                      [house |-> h, current |-> a, target |-> target,
                       status |-> "PENDING"]]
    /\ emitted' = {Event("house.chairman.transfer_requested", h, target)}
    /\ UNCHANGED <<perm, houses, member, defaultHouse, reg, join>>

\* Both updates must hit exactly one row: the offering user still chairs the
\* house and the target is still an ACTIVE RESIDENT of it.
AcceptChairmanTransfer(a, i, late) ==
    LET h == transfer[i].house
        c == transfer[i].current IN
    /\ i \in Pending \ late
    /\ a = transfer[i].target
    /\ a \in perm
    /\ member[c][h] = ActiveChairman
    /\ member[a][h] = ActiveResident
    /\ member' = [member EXCEPT ![c][h] = ActiveResident, ![a][h] = ActiveChairman]
    /\ transfer' = [Closed(late, "EXPIRED") EXCEPT ![i].status = "ACCEPTED"]
    /\ emitted' = {Event("house.chairman.transfer_completed", h, c),
                   Event("house.chairman.transfer_accepted", h, a)}
    /\ UNCHANGED <<perm, houses, defaultHouse, reg, join>>

RejectChairmanTransfer(a, i, late) ==
    /\ i \in Pending \ late
    /\ a = transfer[i].target
    /\ transfer' = [Closed(late, "EXPIRED") EXCEPT ![i].status = "REJECTED"]
    /\ emitted' = {Event("house.chairman.transfer_rejected",
                         transfer[i].house, transfer[i].current)}
    /\ UNCHANGED <<perm, houses, member, defaultHouse, reg, join>>

CancelChairmanTransfer(a, i, late) ==
    /\ i \in Pending \ late
    /\ a = transfer[i].current \/ a \in Admins
    /\ transfer' = [Closed(late, "EXPIRED") EXCEPT ![i].status = "CANCELLED"]
    /\ emitted' = {Event("house.chairman.transfer_cancelled",
                         transfer[i].house, transfer[i].target)}
    /\ UNCHANGED <<perm, houses, member, defaultHouse, reg, join>>

\* Listing the offers, or repeating a decision, commits the expiry alone.
ListChairmanTransfers(late) ==
    /\ transfer' = Closed(late, "EXPIRED")
    /\ emitted' = {}
    /\ UNCHANGED <<perm, houses, member, defaultHouse, reg, join>>

-----------------------------------------------------------------------------
(* Membership management (members.go).                                     *)

\* Only a platform administrator, with the override, touches a chairman or an
\* administrator of the house.
MayManageMember(a, u, h) ==
    /\ Manager(a, h)
    /\ member[u][h] # NoRow
    /\ member[u][h].role \in {"CHAIRMAN", "ADMIN"} => a \in Admins

\* Fault: the event is addressed to the manager.
DeactivateMembershipTellingActor(a, u, h) ==
    /\ MayManageMember(a, u, h)
    /\ member[u][h].status = "ACTIVE"
    /\ member' = [member EXCEPT ![u][h].status = "INACTIVE"]
    /\ defaultHouse' = ClearDefault(u, h)
    /\ emitted' = {Event("house.membership.deactivated", h, a)}
    /\ UNCHANGED <<perm, houses, reg, join, transfer>>

DeactivateMembership(a, u, h) ==
    /\ MayManageMember(a, u, h)
    /\ member[u][h].status = "ACTIVE"
    /\ member' = [member EXCEPT ![u][h].status = "INACTIVE"]
    /\ defaultHouse' = ClearDefault(u, h)
    /\ emitted' = {Event("house.membership.deactivated", h, u)}
    /\ UNCHANGED <<perm, houses, reg, join, transfer>>

\* The role is kept: an inactive chairman comes back as chairman, unless the
\* unique index finds another one.
ReactivateMembership(a, u, h) ==
    /\ MayManageMember(a, u, h)
    /\ member[u][h].status = "INACTIVE"
    /\ member[u][h].role = "CHAIRMAN" => ChairmanSeatFree(u, h)
    /\ member' = [member EXCEPT ![u][h].status = "ACTIVE"]
    /\ emitted' = {Event("house.membership.activated", h, u)}
    /\ UNCHANGED <<perm, houses, defaultHouse, reg, join, transfer>>

\* Fault: the row is kept with the status the response reports.
RemoveMembershipSoftly(a, u, h) ==
    /\ MayManageMember(a, u, h)
    /\ member' = [member EXCEPT ![u][h].status = "REMOVED"]
    /\ defaultHouse' = ClearDefault(u, h)
    /\ emitted' = {Event("house.membership.removed", h, u)}
    /\ UNCHANGED <<perm, houses, reg, join, transfer>>

RemoveMembership(a, u, h) ==
    /\ MayManageMember(a, u, h)
    /\ member' = [member EXCEPT ![u][h] = NoRow]
    /\ defaultHouse' = ClearDefault(u, h)
    /\ emitted' = {Event("house.membership.removed", h, u)}
    /\ UNCHANGED <<perm, houses, reg, join, transfer>>

-----------------------------------------------------------------------------
(* Platform administration (admin.go): audited, but no outbox row.         *)

GrantChairmanPermission(a, u) ==
    /\ a \in Admins
    /\ perm' = perm \cup {u}
    /\ emitted' = {}
    /\ UNCHANGED <<houses, member, defaultHouse, reg, join, transfer>>

RevokeChairmanPermission(a, u) ==
    /\ a \in Admins
    /\ perm' = perm \ {u}
    /\ member' = Demoted({u}, Houses)
    /\ reg' = [i \in RegIds |->
                 IF reg[i].applicant = u /\ reg[i].status = "PENDING"
                 THEN [reg[i] EXCEPT !.status = "CANCELLED"] ELSE reg[i]]
    /\ transfer' = Closed({t \in Pending : u \in {transfer[t].current,
                                                  transfer[t].target}},
                          "CANCELLED")
    /\ emitted' = {}
    /\ UNCHANGED <<houses, defaultHouse, join>>

AssignHouseChairman(a, u, h) ==
    /\ a \in Admins
    /\ h \in houses
    /\ perm' = perm \cup {u}
    /\ member' = [Demoted(Users, {h}) EXCEPT ![u][h] = ActiveChairman]
    /\ transfer' = Closed(HouseOffers(h), "CANCELLED")
    /\ defaultHouse' = DefaultTo(u, h)
    /\ emitted' = {}
    /\ UNCHANGED <<houses, reg, join>>

RemoveHouseChairman(a, h) ==
    /\ a \in Admins
    /\ h \in houses
    /\ member' = Demoted(Users, {h})
    /\ transfer' = Closed(HouseOffers(h), "CANCELLED")
    /\ emitted' = {}
    /\ UNCHANGED <<perm, houses, defaultHouse, reg, join>>

-----------------------------------------------------------------------------
(* A transaction that writes nothing: reads, and the repetition of a       *)
(* decision or of a request that is still PENDING.                         *)

Replay == emitted' = {} /\ UNCHANGED tables

(* The operator's command `app provision` (admin/provision.go), which      *)
(* takes the same lock and writes a membership directly.                   *)

Provision(u, h, role, status) ==
    /\ role = "CHAIRMAN" /\ status = "ACTIVE" => ChairmanSeatFree(u, h)
    /\ houses' = houses \cup {h}
    /\ member' = [member EXCEPT ![u][h] = Row(role, status)]
    /\ perm' = IF role = "CHAIRMAN" /\ status = "ACTIVE"
               THEN perm \cup {u} ELSE perm
    /\ defaultHouse' = IF status = "ACTIVE" THEN DefaultTo(u, h) ELSE defaultHouse
    /\ emitted' = {}
    /\ UNCHANGED <<reg, join, transfer>>

-----------------------------------------------------------------------------
Init ==
    /\ perm = {}
    /\ houses = {}
    /\ member = [u \in Users |-> [h \in Houses |-> NoRow]]
    /\ defaultHouse = [u \in Users |-> NoHouse]
    /\ reg = [i \in RegIds |-> NoRegistration]
    /\ join = [i \in JoinIds |-> NoJoin]
    /\ transfer = [i \in TransferIds |-> NoTransfer]
    /\ emitted = {}

RegistrationNext ==
    \E a \in Users, i \in RegIds :
        \/ \E h \in Houses : CreateHouseRegistration(a, h, i)
        \/ ApproveHouseRegistration(a, i)
        \/ RejectHouseRegistration(a, i)
        \/ CancelHouseRegistration(a, i)

JoinNext ==
    \E a \in Users, i \in JoinIds :
        \/ \E h \in Houses : CreateJoinRequest(a, h, i)
        \/ ApproveJoinRequest(a, i)
        \/ RejectJoinRequest(a, i)
        \/ CancelJoinRequest(a, i)

TransferNext ==
    \E late \in SUBSET Pending :
        \/ \E a \in Users, i \in TransferIds :
             \/ \E h \in Houses, u \in Users : CreateChairmanTransfer(a, h, u, i, late)
             \/ AcceptChairmanTransfer(a, i, late)
             \/ RejectChairmanTransfer(a, i, late)
             \/ CancelChairmanTransfer(a, i, late)
        \/ ListChairmanTransfers(late)

MembersNext ==
    \E a \in Users, u \in Users, h \in Houses :
        \/ DeactivateMembership(a, u, h)
        \/ ReactivateMembership(a, u, h)
        \/ RemoveMembership(a, u, h)

AdministrationNext ==
    \E a \in Users :
        \/ \E u \in Users : GrantChairmanPermission(a, u)
        \/ \E u \in Users : RevokeChairmanPermission(a, u)
        \/ \E u \in Users, h \in Houses : AssignHouseChairman(a, u, h)
        \/ \E h \in Houses : RemoveHouseChairman(a, h)

Next ==
    \/ RegistrationNext
    \/ JoinNext
    \/ TransferNext
    \/ MembersNext
    \/ AdministrationNext
    \/ Replay

OperatorNext ==
    \/ Next
    \/ \E u \in Users, h \in Houses, role \in Roles, status \in {"ACTIVE", "INACTIVE"} :
         Provision(u, h, role, status)

\* The service alone, and the service next to an operator who provisions: TLC
\* checks the first, the proofs cover both.
Spec == Init /\ [][Next]_vars
OperatorSpec == Init /\ [][OperatorNext]_vars

-----------------------------------------------------------------------------
(* Safety.                                                                 *)

\* Every table holds rows of its columns' types.
TypeOK ==
    /\ perm \subseteq Users
    /\ houses \subseteq Houses
    /\ member \in [Users -> [Houses -> Membership]]
    /\ defaultHouse \in [Users -> Houses \cup {NoHouse}]
    /\ reg \in [RegIds -> Registration]
    /\ join \in [JoinIds -> JoinRequest]
    /\ transfer \in [TransferIds -> Transfer]
    /\ emitted \subseteq OutboxRow

\* A house has at most one ACTIVE CHAIRMAN.  The unique index is a guard only
\* where a handler can meet it (reactivation, provisioning): the registration,
\* the hand-over and the administrative assignment must keep it by themselves.
OneActiveChairman ==
    \A h \in Houses, u, v \in Users :
        member[u][h] = ActiveChairman /\ member[v][h] = ActiveChairman => u = v

\* Without an operator at work a house has at most one CHAIRMAN row of any
\* status, ACTIVE or not: reactivating an excluded chairman never meets the
\* index, and an offer that outlived an excluded chairman has no rival.
OneChairmanRow ==
    \A h \in Houses, u, v \in Users :
        member[u][h].role = "CHAIRMAN" /\ member[v][h].role = "CHAIRMAN" => u = v

\* A user without the chairman permission, who is no platform administrator,
\* chairs no house (not even through an INACTIVE membership that could be
\* reactivated), has no registration under review, and neither makes nor is
\* offered a chairmanship: what RevokeChairmanPermission promises, whatever
\* other operations came before and after it.
RevokedHoldNoPower ==
    \A u \in Users : ~MayChair(u) =>
        /\ \A h \in Houses : member[u][h].role # "CHAIRMAN"
        /\ \A i \in RegIds : ~(reg[i].applicant = u /\ reg[i].status = "PENDING")
        /\ \A t \in Pending : u \notin {transfer[t].current, transfer[t].target}

\* The default house of a user is one where the membership is ACTIVE, although
\* five operations set it and two operations of another file clear it.
DefaultHouseIsActive ==
    \A u \in Users : defaultHouse[u] # NoHouse =>
        member[u][defaultHouse[u]].status = "ACTIVE"

\* An open offer of the chairmanship is made by the user who holds the CHAIRMAN
\* row of the house, or nobody holds one: nobody can accept an offer made by a
\* chairman somebody else has replaced, nor one of two rival offers.  Its target
\* may still chair a house.
OpenOfferIsFromTheChairman ==
    \A t \in Pending :
        /\ transfer[t].target \in perm \ {transfer[t].current}
        /\ \A s \in Pending \ {t} : transfer[s].house # transfer[t].house
        /\ \A v \in Users \ {transfer[t].current} :
             member[v][transfer[t].house].role # "CHAIRMAN"

\* A registration under review can be approved: its address is still free, its
\* applicant may still chair a house, and no other one asks for the address.
PendingRegistrationIsApprovable ==
    \A i \in RegIds : reg[i].status = "PENDING" =>
        /\ reg[i].house \notin houses
        /\ MayChair(reg[i].applicant)
        /\ \A j \in RegIds \ {i} :
             ~(reg[j].status = "PENDING" /\ reg[j].house = reg[i].house)

\* The foreign keys: memberships, join requests and offers are of houses that
\* exist.
RowsNameHouses ==
    /\ \A u \in Users, h \in Houses \ houses : member[u][h] = NoRow
    /\ \A i \in JoinIds : join[i] # NoJoin => join[i].house \in houses
    /\ \A t \in TransferIds : transfer[t] # NoTransfer => transfer[t].house \in houses

\* Houses come from approved registrations, one for each, and nothing is kept
\* for a house that does not exist.
HousesComeFromRegistrations ==
    /\ houses = {reg[i].house : i \in {j \in RegIds : reg[j].status = "APPROVED"}}
    /\ \A i, j \in RegIds :
         reg[i].status = "APPROVED" /\ reg[j].status = "APPROVED"
         /\ reg[i].house = reg[j].house => i = j
    /\ RowsNameHouses

-----------------------------------------------------------------------------
(* What a step may never do.                                               *)

JoinApproved(u, h) ==
    \E i \in JoinIds : /\ join[i] = [user |-> u, house |-> h, status |-> "PENDING"]
                       /\ join'[i].status = "APPROVED"

\* Nobody enters a house without a decision: a membership appears only with the
\* approval of its own join request or registration that was PENDING, or by the
\* assignment of a permitted chairman (docs/product-workflows.md:33).  Approving
\* a request never restores or takes away a role: an ACTIVE member keeps its
\* row, anybody else becomes an ACTIVE RESIDENT, also when the row is one of a
\* chairman deactivated while the request was waiting.
EntryNeedsDecision ==
    [][\A u \in Users, h \in Houses :
         /\ member[u][h] = NoRow /\ member'[u][h] # NoRow =>
              \/ JoinApproved(u, h)
              \/ \E i \in RegIds :
                   /\ reg[i] = [applicant |-> u, house |-> h, status |-> "PENDING"]
                   /\ reg'[i].status = "APPROVED"
              \/ member'[u][h] = ActiveChairman /\ u \in perm' /\ h \in houses
         /\ JoinApproved(u, h) =>
              member'[u][h] = IF member[u][h].status = "ACTIVE" THEN member[u][h]
                                                                ELSE ActiveResident]_vars

\* When one ACTIVE chairman replaces another, by an accepted offer or by
\* assignment, the former one stays in the house as an ACTIVE RESIDENT and no
\* offer of the house stays open.
ChairmanIsReplacedCleanly ==
    [][\A h \in Houses, u, v \in Users :
         u # v /\ member[u][h] = ActiveChairman /\ member'[v][h] = ActiveChairman =>
            /\ member'[u][h] = ActiveResident
            /\ \A t \in TransferIds :
                 ~(transfer'[t].house = h /\ transfer'[t].status = "PENDING")]_vars

MembershipEvents ==
    {"house.membership.created", "house.membership.activated",
     "house.membership.deactivated", "house.membership.removed"}

\* Whoever gains or loses access to a house is told so, by an event for that
\* user and that house, unless an administrator seats it as chairman.
AccessChangesAreAnnounced ==
    [][\A u \in Users, h \in Houses :
         (member[u][h].status = "ACTIVE") # (member'[u][h].status = "ACTIVE") =>
            \/ \E e \in emitted' : /\ e.kind \in MembershipEvents
                                   /\ e.house = h /\ e.user = u
            \/ member'[u][h] = ActiveChairman /\ emitted' = {}]_vars
=============================================================================

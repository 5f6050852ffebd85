--------------------------- MODULE HouseInvitations ---------------------------
(***************************************************************************)
(* Invitations of a house (identity-service, internal/house/invitations.go)*)
(* on top of the house workflow: an invitation is a token with a quota,    *)
(* redeeming it files a join request for the redeeming user.               *)
(*                                                                         *)
(* The expiry of an invitation is not stored: a handler compares           *)
(* expires_at with the clock under the lock, so an expired invitation is   *)
(* one that is not redeemed any more.                                      *)
(***************************************************************************)
EXTENDS HouseWorkflow, Naturals, FiniteSets

CONSTANTS
    InviteIds,      \* ids of house_invitations
    MaxUses,        \* bound on max_uses (100 in the handler)
    NoRequest       \* result of a redemption that was never made

ASSUME MaxUsesAssumption == MaxUses \in Nat \ {0}
ASSUME RequestAssumption == NoRequest \notin JoinIds
ASSUME UsersAssumption == IsFiniteSet(Users)

VARIABLES
    invite,         \* house_invitations
    redemption      \* invitation_redemptions: the request filed by a user

inviteVars == <<invite, redemption>>
allVars == <<vars, inviteVars>>

NoInvite == [house |-> NoHouse, max |-> 0, used |-> 0, status |-> "NONE"]
InviteKinds ==
    {"house.invite.created", "house.invite.revoked", "house.invite.redeemed"}

Redeemers(i) == {u \in Users : redemption[i][u] # NoRequest}

-----------------------------------------------------------------------------
CreateHouseInvitation(a, h, i, max) ==
    /\ h \in houses
    /\ Manager(a, h)
    /\ invite[i] = NoInvite
    /\ invite' = [invite EXCEPT ![i] =
                    [house |-> h, max |-> max, used |-> 0, status |-> "ACTIVE"]]
    /\ emitted' = {Event("house.invite.created", h, a)}
    /\ UNCHANGED <<tables, redemption>>

\* Whatever its status was: an exhausted invitation is revoked as well.
RevokeHouseInvitation(a, i) ==
    /\ invite[i].status \notin {"NONE", "REVOKED"}
    /\ Manager(a, invite[i].house)
    /\ invite' = [invite EXCEPT ![i].status = "REVOKED"]
    /\ emitted' = {Event("house.invite.revoked", invite[i].house, a)}
    /\ UNCHANGED <<tables, redemption>>

\* Fault: another user's PENDING request for the house will do.
FiledRequestOfAnybody(a, h, r) ==
    IF \E j \in JoinIds : join[j].house = h /\ join[j].status = "PENDING"
    THEN join[r].house = h /\ join[r].status = "PENDING"
    ELSE join[r] = NoJoin

\* The request a redemption is recorded with: a PENDING one of the user and
\* the house that exists already, or else a fresh one.
FiledRequest(a, h, r) ==
    IF \E j \in JoinIds : join[j] = [user |-> a, house |-> h, status |-> "PENDING"]
    THEN join[r] = [user |-> a, house |-> h, status |-> "PENDING"]
    ELSE join[r] = NoJoin

\* The redemption of the user is recorded already.
Redeemed(i, a) == redemption[i][a] # NoRequest

Redeemable(i) == invite[i].status = "ACTIVE"

\* Fault: the membership is not looked at.
MayRedeemAnyway(a, h) == TRUE

\* A member has nothing to ask for.
MayRedeem(a, h) == member[a][h].status # "ACTIVE"

\* Fault: the comparison is strict.
AfterUseStrict(row) ==
    [row EXCEPT !.used = @ + 1,
                !.status = IF row.used + 1 > row.max THEN "EXHAUSTED" ELSE "ACTIVE"]

\* One more use, the last one of the quota closes the invitation.
AfterUse(row) ==
    [row EXCEPT !.used = @ + 1,
                !.status = IF row.used + 1 >= row.max THEN "EXHAUSTED" ELSE "ACTIVE"]

\* A second redemption by the same user returns the request of the first one
\* and changes nothing: Replay.
RedeemHouseInvitation(a, i, r) ==
    LET h == invite[i].house
        redeemed == Event("house.invite.redeemed", h, a) IN
    /\ ~Redeemed(i, a)
    /\ Redeemable(i)
    /\ MayRedeem(a, h)
    /\ invite[i].used < invite[i].max
    /\ FiledRequest(a, h, r)
    /\ IF join[r] = NoJoin
       THEN /\ join' = [join EXCEPT ![r] =
                          [user |-> a, house |-> h, status |-> "PENDING"]]
            /\ emitted' = {Event("house.join.created", h, a), redeemed}
       ELSE join' = join /\ emitted' = {redeemed}
    /\ redemption' = [redemption EXCEPT ![i][a] = r]
    /\ invite' = [invite EXCEPT ![i] = AfterUse(@)]
    /\ UNCHANGED <<perm, houses, member, defaultHouse, reg, transfer>>

-----------------------------------------------------------------------------
InvitationInit ==
    /\ Init
    /\ invite = [i \in InviteIds |-> NoInvite]
    /\ redemption = [i \in InviteIds |-> [u \in Users |-> NoRequest]]

InvitationNext ==
    \/ Next /\ UNCHANGED inviteVars
    \/ \E a \in Users, i \in InviteIds :
         \/ \E h \in Houses, max \in 1..MaxUses : CreateHouseInvitation(a, h, i, max)
         \/ RevokeHouseInvitation(a, i)
         \/ \E r \in JoinIds : RedeemHouseInvitation(a, i, r)

InvitationSpec == InvitationInit /\ [][InvitationNext]_allVars

-----------------------------------------------------------------------------
(* Safety.                                                                 *)

\* The quota counts users: used_count is the number of users who redeemed the
\* invitation, never more than max_uses, and an invitation with its quota used
\* up is not ACTIVE, one marked EXHAUSTED has it used up.
QuotaCountsUsers ==
    \A i \in InviteIds : invite[i] # NoInvite =>
        /\ invite[i].used = Cardinality(Redeemers(i))
        /\ invite[i].used <= invite[i].max
        /\ invite[i].status = "ACTIVE" => invite[i].used < invite[i].max
        /\ invite[i].status = "EXHAUSTED" => invite[i].used = invite[i].max

\* A redemption is recorded with a request of the same user for the same house,
\* also when that was filed earlier or decided since; and a user has at most one
\* PENDING request for a house, whichever of the search and any number of
\* invitations it came through.
RedemptionNamesOwnRequest ==
    /\ \A i \in InviteIds, u \in Users : redemption[i][u] # NoRequest =>
           /\ join[redemption[i][u]].user = u
           /\ join[redemption[i][u]].house = invite[i].house
    /\ \A i, j \in JoinIds :
           join[i] = join[j] /\ join[i].status = "PENDING" => i = j

-----------------------------------------------------------------------------
(* The abstract specification.                                             *)

(* An invitation is one more way to file a join request: without its own   *)
(* tables and events, every behaviour is one of the house workflow.        *)
Workflow == INSTANCE HouseWorkflow
    WITH emitted <- {e \in emitted : e.kind \notin InviteKinds}

\* Redeeming and managing invitations never does what the workflow forbids:
\* the specification with invitations implements the one without.
ImplementsWorkflow == Workflow!Spec
=============================================================================

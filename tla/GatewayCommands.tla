---------------------------- MODULE GatewayCommands ----------------------------
(***************************************************************************)
(* The requests max-gateway serves to the mini app: login, switch of the   *)
(* active house, logout, and the commands it passes on to another service. *)
(*                                                                         *)
(* A request reads its session from Redis, asks identity-service whether   *)
(* the user may do this in the active house, reserves the Idempotency-Key  *)
(* in Redis, calls the service and stores the answer under the key.  Each  *)
(* of these is a step of its own: sessions, roles and keys change between  *)
(* any two of them.  The called service goes on when the gateway has given *)
(* up waiting for it.                                                      *)
(*                                                                         *)
(* Of identity-service only the roles are seen here (HouseWorkflow says    *)
(* how they change); permissions of administrators are read in the same    *)
(* way and left out, and so are requests that only read.  Every step may   *)
(* end with an error: the rate limiter, Redis, identity-service or the     *)
(* called service refuse or fail, the client goes away, the process dies.  *)
(***************************************************************************)
EXTENDS Naturals

CONSTANTS
    Users, Houses,
    Roles,          \* of "none", "RESIDENT" and "CHAIRMAN" (or ADMIN)
    Tokens,         \* session tokens, as long as random draws do not repeat
    Keys,           \* Idempotency-Keys
    Commands,       \* method, path and body of a request
    Managing,       \* commands of chairmen and administrators
    Open,           \* commands of any user: join requests, redemptions
    Requests,       \* requests, numbered in the order in which they arrive
    MaxChanges,     \* bound on the number of changes of roles
    Nobody, NoHouse, NoKey, Nothing

ASSUME CommandsAssumption ==
    /\ Managing \cup Open \subseteq Commands
    /\ {"login", "switch", "logout"} \cap Commands = {}
ASSUME NothingAssumption ==
    /\ Nobody \notin Users /\ NoHouse \notin Houses /\ NoKey \notin Keys /\ Nothing \notin Tokens
    /\ \A u \in Users, h \in Houses \cup {NoHouse} : Nothing # [user |-> u, house |-> h]
    /\ \A c \in Commands, b \in BOOLEAN : Nothing # [command |-> c, finished |-> b]
ASSUME RequestsAssumption == Requests \subseteq Nat /\ MaxChanges \in Nat

VARIABLES
    session,    \* Redis: the session of a token
    idem,       \* Redis: the reservation of a key
    role,       \* identity-service: the role of an active member
    req,        \* requests and their local variables
    inService,  \* requests the called service is working on
    executed,   \* requests whose command was executed
    expired,    \* history: those of them whose key was forgotten since
    ended,      \* history: tokens that were logged out or expired
    late,       \* history: requests that arrived with such a token
    authorized, \* history: requests whose user has had the role they need, in the
                \* house they are about, at some time since the session was read
    changes

redisVars == <<session, idem>>
history == <<expired, ended, late>>
gatewayVars == <<redisVars, role, req, inService, executed, history, authorized, changes>>

Sessions == [user : Users, house : Houses \cup {NoHouse}]
Scopes == Users \X (Houses \cup {NoHouse}) \X Keys

Idle == [pc |-> "idle", what |-> "logout", token |-> Nothing, key |-> NoKey,
         user |-> Nobody, house |-> NoHouse]

At(r, pc) == req[r].pc = pc
IsCommand(r) == req[r].what \in Commands
Keyed(r) == IsCommand(r) /\ req[r].key # NoKey

\* Fault: the key of a user in Redis is the same in all his houses.
ScopeAnywhere(r) == <<req[r].user, NoHouse, req[r].key>>

\* The key in Redis.
Scope(r) == <<req[r].user, req[r].house, req[r].key>>

Over(r) == req[r].pc \in {"idle", "succeeded", "failed"}

Goto(r, pc) == req' = [req EXCEPT ![r].pc = pc]
\* An answer of the class 4xx or 5xx.  What the request was about is only
\* remembered if the called service has got it.
Fail(r) ==
    req' = [req EXCEPT ![r] = IF r \in inService \cup executed THEN [@ EXCEPT !.pc = "failed"]
                                                             ELSE [Idle EXCEPT !.pc = "failed"]]

\* Membership.Authorizes and the test for managers (GetHouseAccessState says
\* the same of the commands of the house workflow).
Suffices(ro, what) == ro = "CHAIRMAN" \/ (ro = "RESIDENT" /\ what \notin Managing)
May(u, h, what) == what \in Open \/ (h \in Houses /\ Suffices(role[<<u, h>>], what))

-----------------------------------------------------------------------------
(* Arrival and the session.                                                *)

\* A request of the mini app: a command with or without a key, a switch to
\* house h, or a logout.
Arrive(r, what, t, k, h) ==
    /\ At(r, "idle")
    /\ \A q \in Requests : q < r => ~At(q, "idle")
    /\ session[t] # Nothing \/ t \in ended
    /\ what \in Commands \/ k = NoKey
    /\ IF what = "switch" THEN h \in Houses ELSE h = NoHouse
    /\ req' = [req EXCEPT ![r] = [Idle EXCEPT !.pc = "session", !.what = what,
                                              !.token = t, !.key = k, !.house = h]]
    /\ late' = IF t \in ended THEN late \cup {r} ELSE late
    /\ UNCHANGED <<redisVars, role, inService, executed, expired, ended, authorized, changes>>

\* Fault: the idempotency is wrapped around the authorization and not inside it.
RouteToKey(r) == IF IsCommand(r) THEN IF Keyed(r) THEN "reserve" ELSE "authority"
                 ELSE IF req[r].what = "switch" THEN "target" ELSE "delete"

\* What the handler does next.
Route(r) == IF IsCommand(r) THEN "authority"
            ELSE IF req[r].what = "switch" THEN "target" ELSE "delete"

\* authenticate: GET of the session, whose value is kept for the whole request.
ReadSession(r) ==
    LET s == session[req[r].token]
        h == IF IsCommand(r) THEN s.house ELSE req[r].house
    IN
    /\ At(r, "session")
    /\ IF s = Nothing THEN Fail(r) /\ UNCHANGED authorized
       ELSE /\ req' = [req EXCEPT ![r] = [@ EXCEPT !.user = s.user, !.house = h, !.pc = Route(r)]]
            /\ authorized' = IF May(s.user, h, req[r].what) THEN authorized \cup {r}
                                                           ELSE authorized
    /\ UNCHANGED <<redisVars, role, inService, executed, history, changes>>

\* bootstrap: a user of MAX and his default house, a new token.
Login(r, u, h, t) ==
    /\ At(r, "idle")
    /\ \A q \in Requests : q < r => ~At(q, "idle")
    /\ session[t] = Nothing /\ t \notin ended
    /\ \A q \in Requests : req[q].token # t
    /\ req' = [req EXCEPT ![r] = [Idle EXCEPT !.pc = IF h = NoHouse THEN "create" ELSE "default",
                                              !.what = "login", !.token = t,
                                              !.user = u, !.house = h]]
    /\ UNCHANGED <<redisVars, role, inService, executed, history, authorized, changes>>

CheckDefault(r) ==
    /\ At(r, "default")
    /\ IF May(req[r].user, req[r].house, "login") THEN Goto(r, "create") ELSE Fail(r)
    /\ UNCHANGED <<redisVars, role, inService, executed, history, authorized, changes>>

CreateSession(r) ==
    /\ At(r, "create")
    /\ session' = [session EXCEPT ![req[r].token] =
                     [user |-> req[r].user, house |-> req[r].house]]
    /\ Goto(r, "succeeded")
    /\ UNCHANGED <<idem, role, inService, executed, history, authorized, changes>>

CheckTarget(r) ==
    /\ At(r, "target")
    /\ IF May(req[r].user, req[r].house, "switch") THEN Goto(r, "switch") ELSE Fail(r)
    /\ UNCHANGED <<redisVars, role, inService, executed, history, authorized, changes>>

\* Fault: SET without XX.
SwitchableAlways(t) == TRUE

Switchable(t) == session[t] # Nothing

\* SET XX KEEPTTL of the value read before, with another house.
Switch(r) ==
    /\ At(r, "switch")
    /\ IF Switchable(req[r].token)
       THEN /\ session' = [session EXCEPT ![req[r].token] =
                             [user |-> req[r].user, house |-> req[r].house]]
            /\ Goto(r, "succeeded")
       ELSE session' = session /\ Fail(r)
    /\ UNCHANGED <<idem, role, inService, executed, history, authorized, changes>>

End(t) ==
    /\ session' = [session EXCEPT ![t] = Nothing]
    /\ ended' = ended \cup {t}

Logout(r) ==
    /\ At(r, "delete")
    /\ End(req[r].token)
    /\ Goto(r, "succeeded")
    /\ UNCHANGED <<idem, role, inService, executed, expired, late, authorized, changes>>

\* The lifetime of the session is over.
SessionExpires(t) ==
    /\ session[t] # Nothing
    /\ End(t)
    /\ UNCHANGED <<idem, role, req, inService, executed, expired, late, authorized, changes>>

-----------------------------------------------------------------------------
(* Authority, reservation and call.                                        *)

\* GetMembership of authenticate, or GetHouseAccessState of housePermission:
\* both come before the reservation, and so before the replay of an answer.
CheckAuthority(r) ==
    /\ At(r, "authority")
    /\ IF May(req[r].user, req[r].house, req[r].what)
       THEN Goto(r, IF Keyed(r) THEN "reserve" ELSE "call")
       ELSE Fail(r)
    /\ UNCHANGED <<redisVars, role, inService, executed, history, authorized, changes>>

Reservation(r) == [command |-> req[r].what, finished |-> FALSE]

\* SETNX.
Reserve(r) ==
    /\ At(r, "reserve")
    /\ IF idem[Scope(r)] = Nothing
       THEN /\ idem' = [idem EXCEPT ![Scope(r)] = Reservation(r)]
            /\ Goto(r, "call")
       ELSE idem' = idem /\ Goto(r, "lookup")
    /\ UNCHANGED <<session, role, inService, executed, history, authorized, changes>>

\* The finished answer of the same command is sent again; another command, an
\* unfinished one, and a key forgotten in between are errors.
Replayable(r) == idem[Scope(r)] = [command |-> req[r].what, finished |-> TRUE]

Lookup(r) ==
    /\ At(r, "lookup")
    /\ IF Replayable(r) THEN Goto(r, "succeeded") ELSE Fail(r)
    /\ UNCHANGED <<redisVars, role, inService, executed, history, authorized, changes>>

\* The RPC leaves; it is not repeated by the client library.
Call(r) ==
    /\ At(r, "call")
    /\ inService' = inService \cup {r}
    /\ Goto(r, "wait")
    /\ UNCHANGED <<redisVars, role, executed, history, authorized, changes>>

Execute(r) ==
    /\ r \in inService
    /\ inService' = inService \ {r}
    /\ executed' = executed \cup {r}
    /\ UNCHANGED <<redisVars, role, req, history, authorized, changes>>

\* The service refuses the command (the house workflow looks the role up once
\* more, issue-service and community-service believe the gateway), or never gets
\* it.
Refuse(r) ==
    /\ r \in inService
    /\ inService' = inService \ {r}
    /\ UNCHANGED <<redisVars, role, req, executed, history, authorized, changes>>

Answer(r) ==
    /\ At(r, "wait") /\ r \notin inService
    /\ IF r \in executed THEN Goto(r, IF Keyed(r) THEN "finish" ELSE "succeeded") ELSE Fail(r)
    /\ UNCHANGED <<redisVars, role, inService, executed, history, authorized, changes>>

Finished(r) ==
    idem' = [idem EXCEPT ![Scope(r)] = [command |-> req[r].what, finished |-> TRUE]]

\* SET XX KEEPTTL of the answer.
Finish(r) ==
    /\ At(r, "finish")
    /\ IF idem[Scope(r)] # Nothing
       THEN Finished(r) /\ Goto(r, "succeeded") ELSE idem' = idem /\ Fail(r)
    /\ UNCHANGED <<session, role, inService, executed, history, authorized, changes>>

-----------------------------------------------------------------------------
(* Errors and time.                                                        *)

\* The request ends with an error, before or after Redis executed its command;
\* the service may still be at work.
Break(r) ==
    /\ ~Over(r)
    /\ Fail(r)
    /\ \/ UNCHANGED <<redisVars, ended>>
       \/ /\ At(r, "create") \/ (At(r, "switch") /\ Switchable(req[r].token))
          /\ session' = [session EXCEPT ![req[r].token] =
                           [user |-> req[r].user, house |-> req[r].house]]
          /\ UNCHANGED <<idem, ended>>
       \/ At(r, "delete") /\ End(req[r].token) /\ UNCHANGED idem
       \/ /\ At(r, "reserve") /\ idem[Scope(r)] = Nothing
          /\ idem' = [idem EXCEPT ![Scope(r)] = Reservation(r)]
          /\ UNCHANGED <<session, ended>>
       \/ /\ At(r, "finish") /\ idem[Scope(r)] # Nothing
          /\ Finished(r)
          /\ UNCHANGED <<session, ended>>
    /\ UNCHANGED <<role, inService, executed, expired, late, authorized, changes>>

\* Requests a reservation was made for and that are still under way.
Working(s) ==
    {r \in Requests : /\ Keyed(r) /\ Scope(r) = s
                      /\ req[r].pc \in {"call", "wait", "finish"} \/ r \in inService}

\* 24 hours later; no call takes that long.
KeyExpires(s) ==
    /\ idem[s] # Nothing /\ Working(s) = {}
    /\ idem' = [idem EXCEPT ![s] = Nothing]
    /\ expired' = expired \cup {r \in executed : Keyed(r) /\ Scope(r) = s}
    /\ UNCHANGED <<session, role, req, inService, executed, ended, late, authorized, changes>>

RoleChanges(u, h, ro) ==
    /\ changes < MaxChanges /\ changes' = changes + 1
    /\ role' = [role EXCEPT ![<<u, h>>] = ro]
    /\ authorized' = authorized \cup
         {r \in Requests : /\ ~Over(r) /\ req[r].user = u /\ req[r].house = h
                           /\ Suffices(ro, req[r].what)}
    /\ UNCHANGED <<redisVars, req, inService, executed, history>>

-----------------------------------------------------------------------------
GatewayInit ==
    /\ session \in [Tokens -> Sessions \cup {Nothing}]
    /\ idem = [s \in Scopes |-> Nothing]
    /\ role \in [Users \X Houses -> Roles]
    /\ req = [r \in Requests |-> Idle]
    /\ inService = {} /\ executed = {} /\ expired = {} /\ ended = {} /\ late = {}
    /\ authorized = {} /\ changes = 0

Serve(r) ==
    \/ ReadSession(r) \/ CheckDefault(r) \/ CreateSession(r)
    \/ CheckTarget(r) \/ Switch(r) \/ Logout(r)
    \/ CheckAuthority(r) \/ Reserve(r) \/ Lookup(r) \/ Call(r) \/ Answer(r) \/ Finish(r)

GatewayNext ==
    \/ \E r \in Requests :
         \/ \E what \in Commands \cup {"switch", "logout"}, t \in Tokens,
               k \in Keys \cup {NoKey}, h \in Houses \cup {NoHouse} : Arrive(r, what, t, k, h)
         \/ \E u \in Users, h \in Houses \cup {NoHouse}, t \in Tokens : Login(r, u, h, t)
         \/ Serve(r)
         \/ Execute(r) \/ Refuse(r)
         \/ Break(r)
    \/ \E t \in Tokens : SessionExpires(t)
    \/ \E s \in Scopes : KeyExpires(s)
    \/ \E u \in Users, h \in Houses, ro \in Roles : RoleChanges(u, h, ro)

GatewaySpec == GatewayInit /\ [][GatewayNext]_gatewayVars

-----------------------------------------------------------------------------
(* Properties.                                                             *)

ReservationRecords == [command : Commands, finished : BOOLEAN]
RequestRecords ==
    [pc : {"idle", "session", "default", "create", "target", "switch", "delete", "authority",
           "reserve", "lookup", "call", "wait", "finish", "succeeded", "failed"},
     what : Commands \cup {"login", "switch", "logout"}, token : Tokens \cup {Nothing},
     key : Keys \cup {NoKey}, user : Users \cup {Nobody}, house : Houses \cup {NoHouse}]

\* The variables hold values of their kinds (Session, Result of redis.go and
\* the local variables of the handlers).
GatewayTypeOK ==
    /\ session \in [Tokens -> Sessions \cup {Nothing}]
    /\ idem \in [Scopes -> ReservationRecords \cup {Nothing}]
    /\ role \in [Users \X Houses -> Roles]
    /\ req \in [Requests -> RequestRecords]
    /\ inService \subseteq Requests /\ executed \subseteq Requests
    /\ expired \subseteq executed /\ ended \subseteq Tokens /\ late \subseteq Requests
    /\ authorized \subseteq Requests
    /\ changes \in 0..MaxChanges

\* Requests whose command was sent to a service or answered with success.
Effective == {r \in Requests : IsCommand(r) /\ (r \in inService \cup executed \/ At(r, "succeeded"))}

\* A command is only passed on, and the stored answer of an earlier one only
\* sent again, for a user who had the role it needs in that house at some time
\* since the request read its session - house_permissions.go: "A former
\* chairman must not recover an invitation token from Redis after losing the
\* role."  A switch only leads to a house whose member the user was meanwhile.
AuthorityWasHeld ==
    \A r \in Requests :
        r \in Effective \/ (req[r].what = "switch" /\ At(r, "succeeded")) => r \in authorized

\* A session that was logged out or expired is never of use again, whatever
\* requests were under way at that moment: redis.go, "SET XX KEEPTTL never
\* resurrects a logged-out or expired session."
NothingAfterLogout ==
    \A r \in late : At(r, "session") \/ At(r, "failed")

\* "never blindly repeat a dispatched RPC" (redis.go): of the requests with
\* one key, user and house, one at most is ever sent to the service until the
\* key is forgotten, whether or not the gateway learned how it ended.
KeyExecutesOnce ==
    \A r, q \in (inService \cup executed) \ expired :
        Keyed(r) /\ Keyed(q) /\ Scope(r) = Scope(q) => r = q

Attempt(r) == [request |-> r, command |-> req[r].what,
               scope |-> <<req[r].user, req[r].house, req[r].key>>]

Once == INSTANCE CommandOnce WITH
    Attempts <- [request : Requests, scope : Scopes, command : Commands],
    ran <- {Attempt(r) : r \in {q \in executed \ expired : Keyed(q)}},
    told <- {Attempt(r) : r \in {q \in Requests : Keyed(q) /\ At(q, "succeeded")}}

\* Requests with a key behave as CommandOnce says: no key executes twice, and
\* success is told only of what was executed.
ImplementsOnce == Once!OnceSpec
=============================================================================

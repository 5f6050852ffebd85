--------------------------- MODULE MaxGatewayProofs ---------------------------
(***************************************************************************)
(* Proofs about max-gateway: about the requests of its clients, for any    *)
(* number of users, houses, tokens, keys, commands and concurrent          *)
(* requests; and about its webhook, for any number of concurrent           *)
(* deliveries of an update and of answers that are lost sight of.          *)
(***************************************************************************)
EXTENDS GatewayCommands, Webhook, FiniteSetTheorems, TLAPS

-----------------------------------------------------------------------------
(* Requests of the mini app.                                               *)

\* A request past its arrival has a token, one that has read its session a user;
\* only commands are passed on, and only those with a key are reserved.
HasToken(r) == req[r].pc \notin {"idle", "failed"} => req[r].token \in Tokens
HasUser(r) == req[r].pc \notin {"idle", "session", "failed"} => req[r].user \in Users
HasCommand(r) ==
    /\ req[r].pc \in {"authority", "reserve", "lookup", "call", "wait", "finish"} => IsCommand(r)
    /\ req[r].pc \in {"reserve", "lookup", "finish"} => Keyed(r)
    /\ req[r].pc \in {"default", "create", "target", "switch", "delete"} => ~IsCommand(r)
LocalsAreSet == \A r \in Requests : HasToken(r) /\ HasUser(r) /\ HasCommand(r)

Typed == GatewayTypeOK /\ LocalsAreSet

LEMMA IdleIsARequest ==
    /\ Idle \in RequestRecords
    /\ [Idle EXCEPT !.pc = "failed"] \in RequestRecords
  BY DEF Idle, RequestRecords

LEMMA InitTyped == GatewayInit => Typed
  <1> SUFFICES ASSUME GatewayInit PROVE Typed
    OBVIOUS
  <1>1. GatewayTypeOK
    BY IdleIsARequest, RequestsAssumption DEF GatewayInit, GatewayTypeOK
  <1>2. LocalsAreSet
    BY DEF GatewayInit, LocalsAreSet, HasToken, HasUser, HasCommand, Idle
  <1> QED
    BY <1>1, <1>2 DEF Typed

\* Every step changes the record of one request at most.
LEMMA RequestWritten ==
    ASSUME Typed, NEW r \in Requests, NEW new \in RequestRecords,
           req' = [req EXCEPT ![r] = new],
           new.pc \notin {"idle", "failed"} => new.token \in Tokens,
           new.pc \notin {"idle", "session", "failed"} => new.user \in Users,
           new.pc \in {"authority", "reserve", "lookup", "call", "wait", "finish"} =>
               new.what \in Commands,
           new.pc \in {"reserve", "lookup", "finish"} => new.key # NoKey,
           new.pc \in {"default", "create", "target", "switch", "delete"} =>
               new.what \notin Commands
    PROVE  /\ req' \in [Requests -> RequestRecords] /\ LocalsAreSet'
           /\ \A q \in Requests : req'[q] = IF q = r THEN new ELSE req[q]
  BY DEF Typed, GatewayTypeOK, LocalsAreSet, HasToken, HasUser, HasCommand, Keyed, IsCommand

LEMMA GotoTyped ==
    ASSUME Typed, NEW r \in Requests, req[r].pc \notin {"idle", "session", "failed"},
           NEW pc \in {"default", "create", "target", "switch", "delete", "authority",
                       "reserve", "lookup", "call", "wait", "finish", "succeeded"},
           pc \in {"authority", "reserve", "lookup", "call", "wait", "finish"} => IsCommand(r),
           pc \in {"reserve", "lookup", "finish"} => Keyed(r),
           pc \in {"default", "create", "target", "switch", "delete"} => ~IsCommand(r),
           Goto(r, pc)
    PROVE  /\ req' \in [Requests -> RequestRecords] /\ LocalsAreSet'
           /\ \A q \in Requests :
                req'[q] = IF q = r THEN [req[r] EXCEPT !.pc = pc] ELSE req[q]
  <1> DEFINE new == [req[r] EXCEPT !.pc = pc]
  <1>1. /\ new \in RequestRecords /\ new.pc = pc
        /\ new.token = req[r].token /\ new.user = req[r].user
        /\ new.what = req[r].what /\ new.key = req[r].key
    BY DEF Typed, GatewayTypeOK, RequestRecords
  <1>2. req' = [req EXCEPT ![r] = new]
    BY DEF Goto
  <1>3. req[r].token \in Tokens /\ req[r].user \in Users
    BY DEF Typed, LocalsAreSet, HasToken, HasUser
  <1>4. /\ pc \in {"authority", "reserve", "lookup", "call", "wait", "finish"} =>
             req[r].what \in Commands
        /\ pc \in {"reserve", "lookup", "finish"} => req[r].key # NoKey
        /\ pc \in {"default", "create", "target", "switch", "delete"} =>
             req[r].what \notin Commands
    BY DEF Keyed, IsCommand
  <1>5. /\ req' \in [Requests -> RequestRecords] /\ LocalsAreSet'
        /\ \A q \in Requests : req'[q] = IF q = r THEN new ELSE req[q]
    <2> HIDE DEF new
    <2> QED
      BY <1>1, <1>2, <1>3, <1>4, RequestWritten
  <1> QED
    BY <1>5

LEMMA FailTyped ==
    ASSUME Typed, NEW r \in Requests, Fail(r)
    PROVE  /\ req' \in [Requests -> RequestRecords] /\ LocalsAreSet'
           /\ \A q \in Requests : q # r => req'[q] = req[q]
           /\ req'[r] = IF r \in inService \cup executed THEN [req[r] EXCEPT !.pc = "failed"]
                                                        ELSE [Idle EXCEPT !.pc = "failed"]
  <1> DEFINE new == IF r \in inService \cup executed THEN [req[r] EXCEPT !.pc = "failed"]
                                                    ELSE [Idle EXCEPT !.pc = "failed"]
  <1>1. new \in RequestRecords /\ new.pc = "failed"
    BY DEF Typed, GatewayTypeOK, RequestRecords, Idle
  <1>2. req' = [req EXCEPT ![r] = new]
    BY DEF Fail
  <1>3. /\ req' \in [Requests -> RequestRecords] /\ LocalsAreSet'
        /\ \A q \in Requests : req'[q] = IF q = r THEN new ELSE req[q]
    <2> HIDE DEF new
    <2> QED
      BY <1>1, <1>2, RequestWritten
  <1> QED
    BY <1>3

LEMMA ArriveWrites ==
    ASSUME Typed, NEW r \in Requests, NEW what \in Commands \cup {"switch", "logout"},
           NEW t \in Tokens, NEW k \in Keys \cup {NoKey}, NEW h \in Houses \cup {NoHouse},
           Arrive(r, what, t, k, h)
    PROVE  /\ req' \in [Requests -> RequestRecords] /\ LocalsAreSet'
           /\ \A q \in Requests : q # r => req'[q] = req[q]
           /\ req'[r].pc = "session" /\ req'[r].token = t
  <1> DEFINE new == [Idle EXCEPT !.pc = "session", !.what = what,
                                 !.token = t, !.key = k, !.house = h]
  <1>1. new \in RequestRecords /\ new.pc = "session" /\ new.token = t
    BY DEF Idle, RequestRecords
  <1>2. req' = [req EXCEPT ![r] = new]
    BY DEF Arrive
  <1> HIDE DEF new
  <1> QED
    BY <1>1, <1>2, RequestWritten

LEMMA LoginWrites ==
    ASSUME Typed, NEW r \in Requests, NEW u \in Users, NEW h \in Houses \cup {NoHouse},
           NEW t \in Tokens, Login(r, u, h, t)
    PROVE  /\ req' \in [Requests -> RequestRecords] /\ LocalsAreSet'
           /\ \A q \in Requests : q # r => req'[q] = req[q]
           /\ req'[r].pc \in {"default", "create"} /\ req'[r].token = t /\ req'[r].what = "login"
  <1> DEFINE new == [Idle EXCEPT !.pc = IF h = NoHouse THEN "create" ELSE "default",
                                 !.what = "login", !.token = t, !.user = u, !.house = h]
  <1>1. /\ new \in RequestRecords /\ new.user = u /\ new.token = t /\ new.what = "login"
        /\ new.pc \in {"default", "create"} /\ new.what \notin Commands
    BY CommandsAssumption DEF Idle, RequestRecords
  <1>2. req' = [req EXCEPT ![r] = new]
    BY DEF Login
  <1> HIDE DEF new
  <1> QED
    BY <1>1, <1>2, RequestWritten

LEMMA ReadSessionWrites ==
    ASSUME Typed, NEW r \in Requests, ReadSession(r), session[req[r].token] # Nothing
    PROVE  /\ req' \in [Requests -> RequestRecords] /\ LocalsAreSet'
           /\ \A q \in Requests : q # r => req'[q] = req[q]
           /\ req'[r].pc = Route(r) /\ Route(r) \in {"authority", "target", "delete"}
           /\ req'[r].what = req[r].what /\ req'[r].key = req[r].key
           /\ req'[r].token = req[r].token /\ req'[r].token \in Tokens
           /\ req'[r].user = session[req[r].token].user
           /\ req'[r].house = IF IsCommand(r) THEN session[req[r].token].house ELSE req[r].house
           /\ req'[r].user \in Users
  <1> DEFINE s == session[req[r].token]
             h == IF IsCommand(r) THEN s.house ELSE req[r].house
             new == [req[r] EXCEPT !.user = s.user, !.house = h, !.pc = Route(r)]
  <1>1. req[r] \in RequestRecords /\ req[r].token \in Tokens
    BY DEF Typed, GatewayTypeOK, LocalsAreSet, HasToken, ReadSession, At
  <1>2. s \in Sessions
    BY <1>1 DEF Typed, GatewayTypeOK
  <1>3. /\ Route(r) \in {"authority", "target", "delete"}
        /\ Route(r) = "authority" <=> req[r].what \in Commands
        /\ h \in Houses \cup {NoHouse} /\ s.user \in Users
    BY <1>1, <1>2 DEF Route, Sessions, RequestRecords, IsCommand
  <1>4. req' = [req EXCEPT ![r] = new]
    BY DEF ReadSession
  <1>5. /\ new \in RequestRecords /\ new.user = s.user /\ new.token = req[r].token
        /\ new.what = req[r].what /\ new.key = req[r].key /\ new.house = h
        /\ new.pc = Route(r)
    <2> HIDE DEF h, s
    <2> QED
      BY <1>1, <1>3 DEF RequestRecords
  <1>6. /\ req' \in [Requests -> RequestRecords] /\ LocalsAreSet'
        /\ \A q \in Requests : req'[q] = IF q = r THEN new ELSE req[q]
    <2> HIDE DEF new, h, s
    <2> QED
      BY <1>1, <1>3, <1>4, <1>5, RequestWritten
  <1> QED
    BY <1>1, <1>3, <1>5, <1>6

LEMMA FinishedTyped ==
    ASSUME Typed, NEW r \in Requests, req[r].what \in Commands, NEW b \in BOOLEAN,
           idem' = [idem EXCEPT ![Scope(r)] = [command |-> req[r].what, finished |-> b]]
    PROVE  idem' \in [Scopes -> ReservationRecords \cup {Nothing}]
  BY DEF Typed, GatewayTypeOK, ReservationRecords

LEMMA StepTyped == Typed /\ [GatewayNext]_gatewayVars => Typed'
  <1> SUFFICES ASSUME Typed, [GatewayNext]_gatewayVars PROVE Typed'
    OBVIOUS
  <1> USE DEF Typed
  <1>1. CASE UNCHANGED gatewayVars
    BY <1>1 DEF gatewayVars, redisVars, history, GatewayTypeOK, LocalsAreSet, HasToken,
                HasUser, HasCommand, Keyed, IsCommand
  <1>2. ASSUME NEW r \in Requests, NEW what \in Commands \cup {"switch", "logout"},
               NEW t \in Tokens, NEW k \in Keys \cup {NoKey}, NEW h \in Houses \cup {NoHouse},
               Arrive(r, what, t, k, h)
        PROVE  Typed'
    BY <1>2, ArriveWrites DEF Arrive, GatewayTypeOK, redisVars
  <1>3. ASSUME NEW r \in Requests, ReadSession(r)
        PROVE  Typed'
    <2>1. req' \in [Requests -> RequestRecords] /\ LocalsAreSet'
      BY <1>3, FailTyped, ReadSessionWrites DEF ReadSession
    <2>2. authorized' \subseteq Requests
      BY <1>3 DEF ReadSession, GatewayTypeOK
    <2> QED
      BY <1>3, <2>1, <2>2 DEF ReadSession, GatewayTypeOK, redisVars, history
  <1>4. ASSUME NEW r \in Requests, NEW u \in Users, NEW h \in Houses \cup {NoHouse},
               NEW t \in Tokens, Login(r, u, h, t)
        PROVE  Typed'
    BY <1>4, LoginWrites DEF Login, GatewayTypeOK, redisVars, history
  <1>5. ASSUME NEW r \in Requests,
               CheckDefault(r) \/ CheckTarget(r) \/ CheckAuthority(r) \/ Lookup(r)
        PROVE  Typed'
    <2>1. UNCHANGED <<redisVars, role, inService, executed, history, authorized, changes>>
      BY <1>5 DEF CheckDefault, CheckTarget, CheckAuthority, Lookup
    <2>2. CASE CheckDefault(r) \/ CheckTarget(r) \/ Lookup(r)
      <3>1. At(r, "default") \/ At(r, "target") => ~IsCommand(r)
        BY DEF At, LocalsAreSet, HasCommand
      <3> QED
        BY <2>1, <2>2, <3>1, FailTyped, GotoTyped
        DEF CheckDefault, CheckTarget, Lookup, At, GatewayTypeOK, redisVars, history
    <2>3. CASE CheckAuthority(r)
      <3>1. IsCommand(r)
        BY <2>3 DEF CheckAuthority, At, LocalsAreSet, HasCommand
      <3> QED
        BY <2>1, <2>3, <3>1, FailTyped, GotoTyped
        DEF CheckAuthority, At, GatewayTypeOK, redisVars, history
    <2> QED
      BY <1>5, <2>2, <2>3
  <1>6. ASSUME NEW r \in Requests, CreateSession(r) \/ Switch(r)
        PROVE  Typed'
    <2>1. [user |-> req[r].user, house |-> req[r].house] \in Sessions
      BY <1>6 DEF CreateSession, Switch, At, LocalsAreSet, HasUser, GatewayTypeOK,
                  RequestRecords, Sessions
    <2>2. session' \in [Tokens -> Sessions \cup {Nothing}]
      BY <1>6, <2>1 DEF CreateSession, Switch, GatewayTypeOK
    <2>3. req' \in [Requests -> RequestRecords] /\ LocalsAreSet'
      BY <1>6, FailTyped, GotoTyped DEF CreateSession, Switch, At
    <2> QED
      BY <1>6, <2>2, <2>3 DEF CreateSession, Switch, GatewayTypeOK, history
  <1>7. ASSUME NEW r \in Requests, Logout(r)
        PROVE  Typed'
    <2>1. req' \in [Requests -> RequestRecords] /\ LocalsAreSet'
      BY <1>7, GotoTyped DEF Logout, At
    <2>2. req[r].token \in Tokens
      BY <1>7 DEF Logout, At, LocalsAreSet, HasToken
    <2> QED
      BY <1>7, <2>1, <2>2 DEF Logout, End, GatewayTypeOK
  <1>8. ASSUME NEW t \in Tokens, SessionExpires(t)
        PROVE  Typed'
    BY <1>8 DEF SessionExpires, End, GatewayTypeOK, LocalsAreSet, HasToken, HasUser,
                HasCommand, Keyed, IsCommand
  <1>9. ASSUME NEW r \in Requests, Reserve(r) \/ Finish(r)
        PROVE  Typed'
    <2>1. Keyed(r) /\ IsCommand(r)
      BY <1>9 DEF Reserve, Finish, At, LocalsAreSet, HasCommand
    <2>2. req' \in [Requests -> RequestRecords] /\ LocalsAreSet'
      BY <1>9, <2>1, FailTyped, GotoTyped DEF Reserve, Finish, At
    <2>3. idem' \in [Scopes -> ReservationRecords \cup {Nothing}]
      BY <1>9, <2>1, FinishedTyped
      DEF Reserve, Finish, Finished, Reservation, IsCommand, GatewayTypeOK
    <2> QED
      BY <1>9, <2>2, <2>3 DEF Reserve, Finish, GatewayTypeOK, history
  <1>10. ASSUME NEW r \in Requests, Call(r) \/ Answer(r)
         PROVE  Typed'
    <2>1. IsCommand(r)
      BY <1>10 DEF Call, Answer, At, LocalsAreSet, HasCommand
    <2>2. req' \in [Requests -> RequestRecords] /\ LocalsAreSet'
      BY <1>10, <2>1, FailTyped, GotoTyped DEF Call, Answer, At
    <2> QED
      BY <1>10, <2>2 DEF Call, Answer, GatewayTypeOK, redisVars, history
  <1>11. ASSUME NEW r \in Requests, Execute(r) \/ Refuse(r)
         PROVE  Typed'
    BY <1>11 DEF Execute, Refuse, GatewayTypeOK, redisVars, history, LocalsAreSet, HasToken,
                 HasUser, HasCommand, Keyed, IsCommand
  <1>12. ASSUME NEW r \in Requests, Break(r)
         PROVE  Typed'
    <2>1. req' \in [Requests -> RequestRecords] /\ LocalsAreSet'
      BY <1>12, FailTyped DEF Break
    <2>2. session' \in [Tokens -> Sessions \cup {Nothing}] /\ ended' \subseteq Tokens
      <3>1. At(r, "create") \/ At(r, "switch") =>
              [user |-> req[r].user, house |-> req[r].house] \in Sessions
        BY DEF At, LocalsAreSet, HasUser, GatewayTypeOK, RequestRecords, Sessions
      <3>2. At(r, "delete") => req[r].token \in Tokens
        BY DEF At, LocalsAreSet, HasToken
      <3> QED
        BY <1>12, <3>1, <3>2 DEF Break, End, GatewayTypeOK, redisVars
    <2>3. idem' \in [Scopes -> ReservationRecords \cup {Nothing}]
      <3>1. At(r, "reserve") \/ At(r, "finish") => req[r].what \in Commands
        BY DEF At, LocalsAreSet, HasCommand, IsCommand
      <3> QED
        BY <1>12, <3>1, FinishedTyped
        DEF Break, Finished, Reservation, GatewayTypeOK, redisVars
    <2> QED
      BY <1>12, <2>1, <2>2, <2>3 DEF Break, GatewayTypeOK
  <1>13. ASSUME NEW s \in Scopes, KeyExpires(s)
         PROVE  Typed'
    BY <1>13 DEF KeyExpires, GatewayTypeOK, LocalsAreSet, HasToken, HasUser, HasCommand,
                 Keyed, IsCommand
  <1>14. ASSUME NEW u \in Users, NEW h \in Houses, NEW ro \in Roles, RoleChanges(u, h, ro)
         PROVE  Typed'
    <2>1. role' \in [Users \X Houses -> Roles] /\ authorized' \subseteq Requests
      BY <1>14 DEF RoleChanges, GatewayTypeOK
    <2>2. changes' \in 0..MaxChanges
      BY <1>14, RequestsAssumption DEF RoleChanges, GatewayTypeOK
    <2>3. LocalsAreSet'
      BY <1>14 DEF RoleChanges, LocalsAreSet, HasToken, HasUser, HasCommand, Keyed, IsCommand
    <2> QED
      BY <1>14, <2>1, <2>2, <2>3 DEF RoleChanges, GatewayTypeOK, redisVars, history
  <1> QED
    BY <1>1, <1>2, <1>3, <1>4, <1>5, <1>6, <1>7, <1>8, <1>9, <1>10, <1>11, <1>12, <1>13,
       <1>14 DEF GatewayNext, Serve

-----------------------------------------------------------------------------
(* Keys.                                                                   *)

\* What is known of a request that was passed on.
PassedOn ==
    \A r \in Requests :
        /\ r \in inService \cup executed =>
             /\ req[r].pc \in {"wait", "finish", "succeeded", "failed"}
             /\ IsCommand(r) /\ req[r].user \in Users
        /\ r \in inService => r \notin executed
        /\ At(r, "finish") => r \in executed
        /\ Keyed(r) /\ (At(r, "wait") \/ At(r, "finish")) => r \notin expired

\* A request holds its key from the reservation until it is forgotten.
Holder(r) ==
    Keyed(r) /\ (req[r].pc \in {"call", "wait", "finish"} \/ r \in inService \cup (executed \ expired))

HoldersReserved ==
    \A r \in Requests : Holder(r) =>
        idem[Scope(r)] # Nothing /\ idem[Scope(r)].command = req[r].what
OneHolder ==
    \A r, q \in Requests : Holder(r) /\ Holder(q) /\ Scope(r) = Scope(q) => r = q
StoredAnswers ==
    \A s \in Scopes, c \in Commands : idem[s] = [command |-> c, finished |-> TRUE] =>
        \E q \in executed \ expired : Keyed(q) /\ Scope(q) = s /\ req[q].what = c

KeyInv == PassedOn /\ HoldersReserved /\ OneHolder /\ StoredAnswers

LEMMA HolderScope ==
    ASSUME Typed, PassedOn, NEW r \in Requests, Holder(r)
    PROVE  Scope(r) \in Scopes
  <1>1. req[r] \in RequestRecords /\ req[r].key # NoKey
    BY DEF Typed, GatewayTypeOK, Holder, Keyed
  <1>2. req[r].key \in Keys /\ req[r].house \in Houses \cup {NoHouse}
    BY <1>1 DEF RequestRecords
  <1>3. req[r].user \in Users
    BY DEF Typed, LocalsAreSet, HasUser, Holder, PassedOn
  <1> QED
    BY <1>2, <1>3 DEF Scope, Scopes

\* A step of a request the service has not got, and that does not send it there.
LEMMA EarlyStep ==
    ASSUME Typed, KeyInv, NEW r \in Requests, r \notin inService \cup executed,
           \A q \in Requests : q # r => req'[q] = req[q],
           req'[r].pc \notin {"wait", "finish"}, Keyed(r)' => req'[r].pc # "call",
           UNCHANGED <<idem, inService, executed, expired>>
    PROVE  KeyInv'
  <1>1. ~Holder(r)'
    BY DEF Holder, Typed, GatewayTypeOK
  <1>2. \A q \in Requests : q # r =>
           (Holder(q)' <=> Holder(q)) /\ Scope(q)' = Scope(q) /\ (Keyed(q)' <=> Keyed(q))
    BY DEF Holder, Scope, Keyed, IsCommand
  <1>3. PassedOn'
    BY <1>2 DEF KeyInv, PassedOn, At, IsCommand
  <1>4. HoldersReserved' /\ OneHolder'
    BY <1>1, <1>2 DEF KeyInv, HoldersReserved, OneHolder
  <1>5. StoredAnswers'
    BY <1>2 DEF KeyInv, StoredAnswers, Typed, GatewayTypeOK
  <1> QED
    BY <1>3, <1>4, <1>5 DEF KeyInv

\* A step that only moves a request on after its call was answered.
LEMMA LateStep ==
    ASSUME Typed, KeyInv, NEW r \in Requests, NEW pc \in {"finish", "succeeded", "failed"},
           \A q \in Requests : req'[q] = IF q = r THEN [req[r] EXCEPT !.pc = pc] ELSE req[q],
           pc = "finish" => req[r].pc = "wait" /\ r \in executed,
           UNCHANGED <<idem, inService, executed, expired>>
    PROVE  KeyInv'
  <1>1. \A q \in Requests : /\ Scope(q)' = Scope(q) /\ (Keyed(q)' <=> Keyed(q))
                            /\ (IsCommand(q)' <=> IsCommand(q))
                            /\ req'[q].what = req[q].what /\ req'[q].user = req[q].user
                            /\ req'[q].pc = IF q = r THEN pc ELSE req[q].pc
    BY DEF Scope, Keyed, IsCommand, Typed, GatewayTypeOK, RequestRecords
  <1>2. \A q \in Requests : Holder(q)' => Holder(q)
    BY <1>1 DEF Holder
  <1>3. PassedOn'
    BY <1>1 DEF KeyInv, PassedOn, At
  <1>4. HoldersReserved' /\ OneHolder'
    BY <1>1, <1>2 DEF KeyInv, HoldersReserved, OneHolder
  <1>5. StoredAnswers'
    BY <1>1 DEF KeyInv, StoredAnswers, Typed, GatewayTypeOK
  <1> QED
    BY <1>3, <1>4, <1>5 DEF KeyInv

\* A failing request keeps what it is about only if the service has got it.
LEMMA FailStep ==
    ASSUME Typed, KeyInv, NEW r \in Requests, Fail(r),
           UNCHANGED <<idem, inService, executed, expired>>
    PROVE  KeyInv'
  <1>1. CASE r \in inService \cup executed
    BY <1>1, FailTyped, LateStep
  <1>2. CASE r \notin inService \cup executed
    <2>1. /\ \A q \in Requests : q # r => req'[q] = req[q]
          /\ req'[r].pc = "failed"
      BY <1>2, FailTyped DEF Idle
    <2> QED
      BY <1>2, <2>1, EarlyStep
  <1> QED
    BY <1>1, <1>2

\* SETNX of the reservation.
LEMMA ReservationMade ==
    ASSUME Typed, KeyInv, NEW r \in Requests, Keyed(r), Scope(r) \in Scopes,
           idem[Scope(r)] = Nothing, idem' = [idem EXCEPT ![Scope(r)] = Reservation(r)]
    PROVE  /\ \A q \in Requests : Holder(q) => Scope(q) # Scope(r) /\ idem'[Scope(q)] = idem[Scope(q)]
           /\ \A s \in Scopes : ~idem[s] = Nothing => idem'[s] = idem[s]
           /\ \A s \in Scopes, c \in Commands :
                idem'[s] = [command |-> c, finished |-> TRUE] => idem[s] = idem'[s]
           /\ idem'[Scope(r)].command = req[r].what /\ idem'[Scope(r)] # Nothing
  <1>1. \A s \in Scopes : idem'[s] = IF s = Scope(r) THEN Reservation(r) ELSE idem[s]
    BY DEF Typed, GatewayTypeOK
  <1>2. /\ Reservation(r).command = req[r].what /\ Reservation(r).finished = FALSE
        /\ Reservation(r) # Nothing
    BY NothingAssumption DEF Reservation, Keyed, IsCommand
  <1>3. \A q \in Requests : Holder(q) => Scope(q) \in Scopes /\ Scope(q) # Scope(r)
    BY HolderScope DEF KeyInv, HoldersReserved
  <1> HIDE DEF Reservation
  <1>4. \A c \in Commands : Reservation(r) # [command |-> c, finished |-> TRUE]
    BY <1>2
  <1> QED
    BY <1>1, <1>2, <1>3, <1>4

\* SET of the answer.
LEMMA AnswerStored ==
    ASSUME Typed, KeyInv, NEW r \in Requests, At(r, "finish"), Finished(r)
    PROVE  /\ \A q \in Requests : Holder(q) =>
                idem'[Scope(q)] # Nothing /\ idem'[Scope(q)].command = req[q].what
           /\ r \in executed \ expired /\ Keyed(r)
           /\ \A s \in Scopes, c \in Commands : idem'[s] = [command |-> c, finished |-> TRUE] =>
                idem[s] = idem'[s] \/ (s = Scope(r) /\ c = req[r].what)
  <1> DEFINE answer == [command |-> req[r].what, finished |-> TRUE]
  <1>1. Keyed(r) /\ r \in executed \ expired /\ Holder(r)
    BY DEF At, Typed, LocalsAreSet, HasCommand, KeyInv, PassedOn, Holder
  <1>2. answer.command = req[r].what /\ answer # Nothing
    BY <1>1, NothingAssumption DEF Keyed, IsCommand
  <1>3. \A s \in Scopes : idem'[s] = IF s = Scope(r) THEN answer ELSE idem[s]
    BY DEF Typed, GatewayTypeOK, Finished
  <1>4. \A q \in Requests : Holder(q) => Scope(q) \in Scopes /\ (Scope(q) = Scope(r) => q = r)
    BY <1>1, HolderScope DEF KeyInv, OneHolder
  <1>5. \A c \in Commands : answer = [command |-> c, finished |-> TRUE] => c = req[r].what
    <2> SUFFICES ASSUME NEW c \in Commands, answer = [command |-> c, finished |-> TRUE]
                 PROVE  c = req[r].what
      OBVIOUS
    <2>1. answer.command = [command |-> c, finished |-> TRUE].command
      OBVIOUS
    <2> QED
      BY <2>1
  <1> HIDE DEF answer
  <1> QED
    BY <1>1, <1>2, <1>3, <1>4, <1>5 DEF KeyInv, HoldersReserved

LEMMA AnswersStand ==
    ASSUME Typed, StoredAnswers, UNCHANGED <<executed, expired>>,
           \A q \in executed : /\ Scope(q)' = Scope(q) /\ (Keyed(q)' <=> Keyed(q))
                               /\ req'[q].what = req[q].what,
           \A s \in Scopes, c \in Commands :
             idem'[s] = [command |-> c, finished |-> TRUE] => idem[s] = idem'[s]
    PROVE  StoredAnswers'
  <1> SUFFICES ASSUME NEW s \in Scopes, NEW c \in Commands,
                      idem'[s] = [command |-> c, finished |-> TRUE]
               PROVE  \E q \in executed' \ expired' :
                        Keyed(q)' /\ Scope(q)' = s /\ req'[q].what = c
    BY DEF StoredAnswers
  <1>1. PICK q \in executed \ expired : Keyed(q) /\ Scope(q) = s /\ req[q].what = c
    BY DEF StoredAnswers
  <1> QED
    BY <1>1

\* The key of a request that fails while it is stored.
LEMMA FailWithKey ==
    ASSUME Typed, KeyInv, NEW r \in Requests, Fail(r),
           UNCHANGED <<inService, executed, expired>>,
           \/ At(r, "reserve") /\ idem[Scope(r)] = Nothing
              /\ idem' = [idem EXCEPT ![Scope(r)] = Reservation(r)]
           \/ At(r, "finish") /\ Finished(r)
    PROVE  KeyInv'
  <1>1. \A q \in Requests : q # r => req'[q] = req[q]
    BY FailTyped
  <1>2. \A q \in Requests : q # r =>
          /\ (Holder(q)' <=> Holder(q)) /\ Scope(q)' = Scope(q) /\ (Keyed(q)' <=> Keyed(q))
          /\ req'[q].what = req[q].what
    BY <1>1 DEF Holder, Scope, Keyed, IsCommand
  <1>3. CASE At(r, "reserve") /\ idem[Scope(r)] = Nothing
             /\ idem' = [idem EXCEPT ![Scope(r)] = Reservation(r)]
    <2>1. r \notin inService \cup executed /\ Keyed(r)
      BY <1>3 DEF At, KeyInv, PassedOn, Typed, LocalsAreSet, HasCommand
    <2>2. Scope(r) \in Scopes
      <3>1. req[r] \in RequestRecords /\ req[r].user \in Users
        BY <1>3 DEF At, Typed, GatewayTypeOK, LocalsAreSet, HasUser
      <3> QED
        BY <2>1, <3>1 DEF Scope, Scopes, Keyed, RequestRecords
    <2>3. req'[r].pc = "failed"
      BY <2>1, FailTyped DEF Idle
    <2>4. ~Holder(r)'
      BY <2>1, <2>3 DEF Holder
    <2>5. PassedOn'
      BY <1>1, <1>2, <2>1, <2>3 DEF KeyInv, PassedOn, At, IsCommand
    <2>6. HoldersReserved' /\ OneHolder'
      BY <1>2, <1>3, <2>1, <2>2, <2>4, ReservationMade DEF KeyInv, HoldersReserved, OneHolder
    <2>7. StoredAnswers'
      <3>1. \A q \in executed : q \in Requests /\ q # r
        BY <2>1 DEF Typed, GatewayTypeOK
      <3>2. \A s \in Scopes, c \in Commands :
              idem'[s] = [command |-> c, finished |-> TRUE] => idem[s] = idem'[s]
        BY <1>3, <2>1, <2>2, ReservationMade
      <3> QED
        BY <1>2, <3>1, <3>2, AnswersStand DEF KeyInv
    <2> QED
      BY <2>5, <2>6, <2>7 DEF KeyInv
  <1>4. CASE At(r, "finish") /\ Finished(r)
    <2>1. r \in executed /\ r \notin expired /\ Keyed(r)
      BY <1>4, AnswerStored
    <2>2. req'[r] = [req[r] EXCEPT !.pc = "failed"]
      BY <2>1, FailTyped
    <2>3. /\ Scope(r)' = Scope(r) /\ Keyed(r)' /\ Holder(r)
          /\ req'[r].what = req[r].what /\ req'[r].user = req[r].user /\ req'[r].pc = "failed"
      BY <2>1, <2>2 DEF Scope, Keyed, IsCommand, Holder, Typed, GatewayTypeOK, RequestRecords
    <2>4. PassedOn'
      BY <1>1, <1>2, <2>1, <2>3 DEF KeyInv, PassedOn, At, IsCommand
    <2>5. HoldersReserved' /\ OneHolder'
      BY <1>2, <1>4, <2>3, AnswerStored DEF KeyInv, HoldersReserved, OneHolder
    <2>6. StoredAnswers'
      BY <1>2, <1>4, <2>1, <2>3, AnswerStored DEF KeyInv, StoredAnswers, Typed, GatewayTypeOK
    <2> QED
      BY <2>4, <2>5, <2>6 DEF KeyInv
  <1> QED
    BY <1>3, <1>4

LEMMA KeysStand ==
    ASSUME KeyInv, UNCHANGED <<req, idem, inService, executed, expired>>
    PROVE  KeyInv'
  BY DEF KeyInv, PassedOn, HoldersReserved, OneHolder, StoredAnswers, Holder, Keyed, IsCommand,
     Scope, At

LEMMA ReserveStep ==
    ASSUME Typed, KeyInv, NEW r \in Requests, Reserve(r)
    PROVE  KeyInv'
  <1>1. r \notin inService \cup executed /\ Keyed(r) /\ req[r].user \in Users
    BY DEF Reserve, At, KeyInv, PassedOn, Typed, LocalsAreSet, HasCommand, HasUser
  <1>2. Scope(r) \in Scopes
    <2>1. req[r] \in RequestRecords
      BY DEF Typed, GatewayTypeOK
    <2> QED
      BY <1>1, <2>1 DEF Scope, Scopes, Keyed, RequestRecords
  <1>3. CASE idem[Scope(r)] = Nothing
    <2>1. \A q \in Requests : req'[q] = IF q = r THEN [req[r] EXCEPT !.pc = "call"] ELSE req[q]
      BY <1>1, <1>3, GotoTyped DEF Reserve, At, Keyed
    <2>2. idem' = [idem EXCEPT ![Scope(r)] = Reservation(r)]
          /\ UNCHANGED <<inService, executed, expired>>
      BY <1>3 DEF Reserve, history
    <2>3. \A q \in Requests : /\ Scope(q)' = Scope(q) /\ (Keyed(q)' <=> Keyed(q))
                              /\ (IsCommand(q)' <=> IsCommand(q))
                              /\ req'[q].what = req[q].what /\ req'[q].user = req[q].user
                              /\ req'[q].pc = IF q = r THEN "call" ELSE req[q].pc
      BY <2>1 DEF Scope, Keyed, IsCommand, Typed, GatewayTypeOK, RequestRecords
    <2>4. \A q \in Requests : Holder(q)' => Holder(q) \/ q = r
      BY <2>2, <2>3 DEF Holder
    <2>5. PassedOn'
      BY <1>1, <2>2, <2>3 DEF KeyInv, PassedOn, At
    <2>6. /\ \A q \in Requests : Holder(q) =>
                 Scope(q) # Scope(r) /\ idem'[Scope(q)] = idem[Scope(q)]
          /\ idem'[Scope(r)].command = req[r].what /\ idem'[Scope(r)] # Nothing
          /\ \A s \in Scopes, c \in Commands :
               idem'[s] = [command |-> c, finished |-> TRUE] => idem[s] = idem'[s]
      BY <1>1, <1>2, <1>3, <2>2, ReservationMade
    <2>7. HoldersReserved'
      <3> SUFFICES ASSUME NEW q \in Requests, Holder(q)'
                   PROVE  idem'[Scope(q)'] # Nothing /\ idem'[Scope(q)'].command = req'[q].what
        BY DEF HoldersReserved
      <3> QED
        BY <2>3, <2>4, <2>6 DEF KeyInv, HoldersReserved
    <2>8. OneHolder'
      BY <2>3, <2>4, <2>6 DEF KeyInv, OneHolder
    <2>9. StoredAnswers'
      <3>1. \A q \in executed : q \in Requests
        BY DEF Typed, GatewayTypeOK
      <3> QED
        BY <2>2, <2>3, <2>6, <3>1, AnswersStand DEF KeyInv
    <2> QED
      BY <2>5, <2>7, <2>8, <2>9 DEF KeyInv
  <1>4. CASE idem[Scope(r)] # Nothing
    <2>1. \A q \in Requests : req'[q] = IF q = r THEN [req[r] EXCEPT !.pc = "lookup"] ELSE req[q]
      BY <1>1, <1>4, GotoTyped DEF Reserve, At, Keyed
    <2>2. req'[r].pc = "lookup"
      BY <2>1 DEF Typed, GatewayTypeOK, RequestRecords
    <2> QED
      BY <1>1, <1>4, <2>1, <2>2, EarlyStep DEF Reserve, history
  <1> QED
    BY <1>3, <1>4

LEMMA ServiceStep ==
    ASSUME Typed, KeyInv, NEW r \in Requests, Call(r) \/ Execute(r) \/ Refuse(r)
    PROVE  KeyInv'
  <1>1. UNCHANGED <<idem, expired>>
    BY DEF Call, Execute, Refuse, redisVars, history
  <1>2. \A q \in Requests : /\ Scope(q)' = Scope(q) /\ (Keyed(q)' <=> Keyed(q))
                            /\ (IsCommand(q)' <=> IsCommand(q))
                            /\ req'[q].what = req[q].what /\ req'[q].user = req[q].user
                            /\ req'[q].pc = IF Call(r) /\ q = r THEN "wait" ELSE req[q].pc
    <2>1. CASE Call(r)
      <3>1. IsCommand(r)
        BY <2>1 DEF Call, At, Typed, LocalsAreSet, HasCommand
      <3>2. \A q \in Requests : req'[q] = IF q = r THEN [req[r] EXCEPT !.pc = "wait"] ELSE req[q]
        BY <2>1, <3>1, GotoTyped DEF Call, At
      <3> QED
        BY <2>1, <3>2 DEF Scope, Keyed, IsCommand, Typed, GatewayTypeOK, RequestRecords
    <2>2. CASE ~Call(r)
      BY <2>2 DEF Execute, Refuse, Scope, Keyed, IsCommand
    <2> QED
      BY <2>1, <2>2
  <1>3. CASE Call(r)
    <2>1. r \notin inService \cup executed /\ IsCommand(r) /\ req[r].user \in Users
          /\ req[r].pc = "call" /\ expired \subseteq executed
      BY <1>3 DEF Call, At, KeyInv, PassedOn, Typed, GatewayTypeOK, LocalsAreSet, HasCommand, HasUser
    <2>2. inService' = inService \cup {r} /\ executed' = executed
      BY <1>3 DEF Call
    <2>3. \A q \in Requests : Holder(q)' => Holder(q)
      BY <1>1, <1>2, <1>3, <2>1, <2>2 DEF Holder
    <2>4. PassedOn'
      BY <1>1, <1>2, <1>3, <2>1, <2>2 DEF KeyInv, PassedOn, At
    <2> QED
      BY <1>1, <1>2, <2>2, <2>3, <2>4
      DEF KeyInv, HoldersReserved, OneHolder, StoredAnswers, Typed, GatewayTypeOK
  <1>4. CASE ~Call(r)
    <2>1. r \in inService /\ r \notin executed /\ expired \subseteq executed
          /\ inService' = inService \ {r} /\ executed' \in {executed, executed \cup {r}}
      BY <1>4 DEF Execute, Refuse, KeyInv, PassedOn, Typed, GatewayTypeOK
    <2>2. \A q \in Requests : Holder(q)' => Holder(q)
      BY <1>1, <1>2, <1>4, <2>1 DEF Holder
    <2>3. PassedOn'
      BY <1>1, <1>2, <1>4, <2>1 DEF KeyInv, PassedOn, At
    <2> QED
      BY <1>1, <1>2, <2>1, <2>2, <2>3
      DEF KeyInv, HoldersReserved, OneHolder, StoredAnswers, Typed, GatewayTypeOK
  <1> QED
    BY <1>3, <1>4

LEMMA AnswerStep ==
    ASSUME Typed, KeyInv, NEW r \in Requests, Answer(r)
    PROVE  KeyInv'
  <1>1. UNCHANGED <<idem, inService, executed, expired>> /\ req[r].pc = "wait" /\ IsCommand(r)
    BY DEF Answer, redisVars, history, At, Typed, LocalsAreSet, HasCommand
  <1>2. CASE r \in executed /\ Keyed(r)
    <2>1. \A q \in Requests : req'[q] = IF q = r THEN [req[r] EXCEPT !.pc = "finish"] ELSE req[q]
      BY <1>1, <1>2, GotoTyped DEF Answer
    <2> QED
      BY <1>1, <1>2, <2>1, LateStep
  <1>4. CASE r \in executed /\ ~Keyed(r)
    <2>1. \A q \in Requests : req'[q] = IF q = r THEN [req[r] EXCEPT !.pc = "succeeded"] ELSE req[q]
      BY <1>1, <1>4, GotoTyped DEF Answer
    <2> QED
      BY <1>1, <1>4, <2>1, LateStep
  <1>3. CASE r \notin executed
    BY <1>1, <1>3, FailStep DEF Answer
  <1> QED
    BY <1>2, <1>3, <1>4

LEMMA FinishStep ==
    ASSUME Typed, KeyInv, NEW r \in Requests, Finish(r)
    PROVE  KeyInv'
  <1>1. UNCHANGED <<inService, executed, expired>> /\ At(r, "finish")
    BY DEF Finish, history
  <1>2. CASE idem[Scope(r)] = Nothing
    BY <1>1, <1>2, FailStep DEF Finish
  <1>3. CASE idem[Scope(r)] # Nothing
    <2>1. Finished(r) /\ Goto(r, "succeeded")
      BY <1>3 DEF Finish
    <2>2. \A q \in Requests : req'[q] = IF q = r THEN [req[r] EXCEPT !.pc = "succeeded"] ELSE req[q]
      BY <1>1, <2>1, GotoTyped DEF At
    <2>3. \A q \in Requests : /\ Scope(q)' = Scope(q) /\ (Keyed(q)' <=> Keyed(q))
                              /\ (IsCommand(q)' <=> IsCommand(q))
                              /\ req'[q].what = req[q].what /\ req'[q].user = req[q].user
                              /\ req'[q].pc = IF q = r THEN "succeeded" ELSE req[q].pc
      BY <2>2 DEF Scope, Keyed, IsCommand, Typed, GatewayTypeOK, RequestRecords
    <2>4. \A q \in Requests : Holder(q)' => Holder(q)
      BY <1>1, <2>3 DEF Holder
    <2>5. PassedOn'
      BY <1>1, <2>3 DEF KeyInv, PassedOn, At
    <2>6. HoldersReserved' /\ OneHolder'
      BY <1>1, <2>1, <2>3, <2>4, AnswerStored DEF KeyInv, HoldersReserved, OneHolder
    <2>7. StoredAnswers'
      BY <1>1, <2>1, <2>3, AnswerStored DEF KeyInv, StoredAnswers, Typed, GatewayTypeOK
    <2> QED
      BY <2>5, <2>6, <2>7 DEF KeyInv
  <1> QED
    BY <1>2, <1>3

LEMMA KeyExpiresStep ==
    ASSUME Typed, KeyInv, NEW s \in Scopes, KeyExpires(s)
    PROVE  KeyInv'
  <1> DEFINE gone == {r \in executed : Keyed(r) /\ Scope(r) = s}
  <1>1. /\ UNCHANGED <<req, inService, executed>> /\ expired' = expired \cup gone
        /\ \A z \in Scopes : idem'[z] = IF z = s THEN Nothing ELSE idem[z]
    BY DEF KeyExpires, Typed, GatewayTypeOK
  <1>2. \A r \in Requests : Keyed(r) /\ Scope(r) = s =>
          req[r].pc \notin {"call", "wait", "finish"} /\ r \notin inService
    BY DEF KeyExpires, Working
  <1>3. \A r \in Requests : /\ Scope(r)' = Scope(r) /\ (Keyed(r)' <=> Keyed(r))
                            /\ (IsCommand(r)' <=> IsCommand(r))
                            /\ (Holder(r)' => Holder(r) /\ Scope(r) # s)
    BY <1>1, <1>2 DEF Scope, Keyed, IsCommand, Holder
  <1>4. PassedOn'
    BY <1>1, <1>2, <1>3 DEF KeyInv, PassedOn, At
  <1>5. HoldersReserved' /\ OneHolder'
    BY <1>1, <1>3, HolderScope DEF KeyInv, HoldersReserved, OneHolder
  <1>6. StoredAnswers'
    <2> SUFFICES ASSUME NEW z \in Scopes, NEW c \in Commands,
                        idem'[z] = [command |-> c, finished |-> TRUE]
                 PROVE  \E q \in executed' \ expired' :
                          Keyed(q)' /\ Scope(q)' = z /\ req'[q].what = c
      BY DEF StoredAnswers
    <2>1. z # s /\ idem[z] = [command |-> c, finished |-> TRUE]
      BY <1>1, NothingAssumption
    <2>2. PICK q \in executed \ expired : Keyed(q) /\ Scope(q) = z /\ req[q].what = c
      BY <2>1 DEF KeyInv, StoredAnswers
    <2>3. q \in executed' \ expired'
      BY <1>1, <2>1, <2>2
    <2> QED
      BY <1>1, <1>3, <2>2, <2>3 DEF Typed, GatewayTypeOK
  <1> QED
    BY <1>4, <1>5, <1>6 DEF KeyInv

LEMMA StepKeys == Typed /\ KeyInv /\ [GatewayNext]_gatewayVars => KeyInv'
  <1> SUFFICES ASSUME Typed, KeyInv, [GatewayNext]_gatewayVars PROVE KeyInv'
    OBVIOUS
  <1>1. CASE UNCHANGED gatewayVars
    BY <1>1, KeysStand DEF gatewayVars, redisVars, history
  <1>2. ASSUME NEW r \in Requests, NEW what \in Commands \cup {"switch", "logout"},
               NEW t \in Tokens, NEW k \in Keys \cup {NoKey}, NEW h \in Houses \cup {NoHouse},
               Arrive(r, what, t, k, h)
        PROVE  KeyInv'
    <2>1. r \notin inService \cup executed
      BY <1>2 DEF Arrive, At, KeyInv, PassedOn
    <2> QED
      BY <1>2, <2>1, ArriveWrites, EarlyStep DEF Arrive, redisVars
  <1>3. ASSUME NEW r \in Requests, NEW u \in Users, NEW h \in Houses \cup {NoHouse},
               NEW t \in Tokens, Login(r, u, h, t)
        PROVE  KeyInv'
    <2>1. r \notin inService \cup executed
      BY <1>3 DEF Login, At, KeyInv, PassedOn
    <2>2. /\ \A q \in Requests : q # r => req'[q] = req[q]
          /\ req'[r].pc \in {"default", "create"}
      BY <1>3, LoginWrites
    <2> QED
      BY <1>3, <2>1, <2>2, EarlyStep DEF Login, redisVars, history
  <1>4. ASSUME NEW r \in Requests,
               ReadSession(r) \/ CheckDefault(r) \/ CreateSession(r) \/ CheckTarget(r)
                 \/ Switch(r) \/ Logout(r) \/ CheckAuthority(r) \/ Lookup(r)
        PROVE  KeyInv'
    <2>1. UNCHANGED <<idem, inService, executed, expired>>
      BY <1>4 DEF ReadSession, CheckDefault, CreateSession, CheckTarget, Switch, Logout, End,
                  CheckAuthority, Lookup, redisVars, history
    <2>2. r \notin inService \cup executed
      BY <1>4 DEF ReadSession, CheckDefault, CreateSession, CheckTarget, Switch, Logout,
                  CheckAuthority, Lookup, At, KeyInv, PassedOn
    <2>3. CASE Fail(r)
      BY <2>1, <2>3, FailStep
    <2>4. ASSUME NEW pc \in {"create", "switch", "reserve", "call", "succeeded"}, Goto(r, pc),
                 pc = "reserve" => Keyed(r), pc = "call" => ~Keyed(r) /\ IsCommand(r),
                 req[r].pc \notin {"idle", "session", "failed"}
          PROVE  KeyInv'
      <3>1. /\ \A q \in Requests : q # r => req'[q] = req[q]
            /\ req'[r] = [req[r] EXCEPT !.pc = pc]
        BY <2>4 DEF Goto, Typed, GatewayTypeOK
      <3>2. req'[r].pc = pc /\ (Keyed(r)' <=> Keyed(r))
        BY <3>1 DEF Typed, GatewayTypeOK, RequestRecords, Keyed, IsCommand
      <3> QED
        BY <2>1, <2>2, <2>4, <3>1, <3>2, EarlyStep
    <2>5. CASE ReadSession(r)
      <3>1. CASE session[req[r].token] # Nothing
        BY <2>1, <2>2, <2>5, <3>1, ReadSessionWrites, EarlyStep
      <3> QED
        BY <2>3, <2>5, <3>1 DEF ReadSession
    <2>6. CASE CheckAuthority(r)
      <3>1. IsCommand(r)
        BY <2>6 DEF CheckAuthority, At, Typed, LocalsAreSet, HasCommand
      <3> QED
        BY <2>3, <2>4, <2>6, <3>1 DEF CheckAuthority, At
    <2> QED
      BY <1>4, <2>3, <2>4, <2>5, <2>6
      DEF CheckDefault, CreateSession, CheckTarget, Switch, Logout, Lookup, At
  <1>5. ASSUME NEW r \in Requests, Break(r)
        PROVE  KeyInv'
    <2>1. Fail(r) /\ UNCHANGED <<inService, executed, expired>>
      BY <1>5 DEF Break
    <2>2. CASE idem' = idem
      BY <2>1, <2>2, FailStep
    <2>3. CASE idem' # idem
      BY <1>5, <2>1, <2>3, FailWithKey DEF Break, redisVars
    <2> QED
      BY <2>2, <2>3
  <1>6. ASSUME NEW t \in Tokens, SessionExpires(t)
        PROVE  KeyInv'
    BY <1>6, KeysStand DEF SessionExpires
  <1>7. ASSUME NEW u \in Users, NEW h \in Houses, NEW ro \in Roles, RoleChanges(u, h, ro)
        PROVE  KeyInv'
    BY <1>7, KeysStand DEF RoleChanges, redisVars, history
  <1> QED
    BY <1>1, <1>2, <1>3, <1>4, <1>5, <1>6, <1>7, ReserveStep, ServiceStep, AnswerStep,
       FinishStep, KeyExpiresStep DEF GatewayNext, Serve

-----------------------------------------------------------------------------
(* The gateway implements CommandOnce.                                     *)

Ran == {Attempt(r) : r \in {q \in executed \ expired : Keyed(q)}}
Told == {Attempt(r) : r \in {q \in Requests : Keyed(q) /\ At(q, "succeeded")}}

\* A step that changes one request only, and keeps what it is about if it was
\* executed, tells at most this one request of success.
LEMMA OneIsTold ==
    ASSUME Typed, NEW r \in Requests, ~At(r, "succeeded"),
           \A q \in Requests : q # r => req'[q] = req[q],
           r \in executed => /\ req'[r].what = req[r].what /\ req'[r].key = req[r].key
                             /\ req'[r].user = req[r].user /\ req'[r].house = req[r].house,
           UNCHANGED <<executed, expired>>
    PROVE  /\ Ran' = Ran
           /\ Told' = IF Keyed(r)' /\ At(r, "succeeded")' THEN Told \cup {Attempt(r)'} ELSE Told
  <1>1. \A q \in Requests : q # r =>
          Attempt(q)' = Attempt(q) /\ (Keyed(q)' <=> Keyed(q))
          /\ (At(q, "succeeded")' <=> At(q, "succeeded"))
    BY DEF Attempt, Keyed, IsCommand, At
  <1>2. r \in executed => Attempt(r)' = Attempt(r) /\ (Keyed(r)' <=> Keyed(r))
    BY DEF Attempt, Keyed, IsCommand
  <1>3. executed \subseteq Requests
    BY DEF Typed, GatewayTypeOK
  <1>4. Ran' = Ran
    <2>1. \A q \in executed : Attempt(q)' = Attempt(q) /\ (Keyed(q)' <=> Keyed(q))
      BY <1>1, <1>2, <1>3
    <2>2. Ran' = {Attempt(q)' : q \in {z \in executed \ expired : Keyed(z)'}}
      BY DEF Ran
    <2>3. {z \in executed \ expired : Keyed(z)'} = {z \in executed \ expired : Keyed(z)}
      BY <2>1
    <2> HIDE DEF Attempt
    <2> QED
      BY <2>1, <2>2, <2>3 DEF Ran
  <1>5. Told' = IF Keyed(r)' /\ At(r, "succeeded")' THEN Told \cup {Attempt(r)'} ELSE Told
    <2> DEFINE T == {q \in Requests : Keyed(q) /\ At(q, "succeeded")}
               U == {q \in Requests : Keyed(q)' /\ At(q, "succeeded")'}
    <2>1. r \notin T /\ (r \in U <=> Keyed(r)' /\ At(r, "succeeded")')
      OBVIOUS
    <2>2. U \ {r} = T
      BY <1>1, <2>1
    <2>3. Told = {Attempt(q) : q \in T} /\ Told' = {Attempt(q)' : q \in U}
      BY DEF Told
    <2>4. \A q \in T : Attempt(q)' = Attempt(q)
      BY <1>1, <2>1
    <2> HIDE DEF T, U
    <2> QED
      BY <2>1, <2>2, <2>3, <2>4
  <1> QED
    BY <1>4, <1>5

\* A successful answer with a key is one CommandOnce allows.
LEMMA MayTell ==
    ASSUME Typed, KeyInv, NEW r \in Requests, NEW q \in executed \ expired, Keyed(q),
           Scope(q) = Scope(r), req[q].what = req[r].what, Keyed(r), HasUser(r),
           req[r].pc \in {"lookup", "wait", "finish"},
           Attempt(r)' = Attempt(r), Ran' = Ran, Told' = Told \cup {Attempt(r)'}
    PROVE  \E a \in [request : Requests, scope : Scopes, command : Commands] : Once!Tell(a)
  <1>1. req[r] \in RequestRecords
    BY DEF Typed, GatewayTypeOK
  <1>2. Scope(r) \in Scopes /\ req[r].what \in Commands
    BY <1>1 DEF Scope, Scopes, Keyed, IsCommand, HasUser, RequestRecords
  <1>3. Attempt(r) = [request |-> r, command |-> req[r].what, scope |-> Scope(r)]
        /\ Attempt(q) = [request |-> q, command |-> req[q].what, scope |-> Scope(q)]
    BY DEF Attempt, Scope
  <1>4. Attempt(r) \in [request : Requests, scope : Scopes, command : Commands]
    BY <1>2, <1>3
  <1>5. Attempt(q) \in Ran
    BY DEF Ran
  <1>6. Attempt(q).scope = Attempt(r).scope /\ Attempt(q).command = Attempt(r).command
    BY <1>3
  <1>7. Once!Tell(Attempt(r))
    BY <1>5, <1>6 DEF Once!Tell, Ran, Told
  <1> QED
    BY <1>4, <1>7

LEMMA NothingTold ==
    ASSUME UNCHANGED <<req, executed, expired>>
    PROVE  Ran' = Ran /\ Told' = Told
  BY DEF Ran, Told, Attempt, Keyed, IsCommand, At

LEMMA FailTellsNothing ==
    ASSUME Typed, NEW r \in Requests, ~At(r, "succeeded"), Fail(r), UNCHANGED <<executed, expired>>
    PROVE  Ran' = Ran /\ Told' = Told
  <1>1. \A q \in Requests : q # r => req'[q] = req[q]
    BY FailTyped
  <1>2. /\ r \in executed => /\ req'[r].what = req[r].what /\ req'[r].key = req[r].key
                             /\ req'[r].user = req[r].user /\ req'[r].house = req[r].house
        /\ req'[r].pc = "failed"
    <2>1. req[r] \in RequestRecords
      BY DEF Typed, GatewayTypeOK
    <2>2. req'[r] = IF r \in inService \cup executed THEN [req[r] EXCEPT !.pc = "failed"]
                                                    ELSE [Idle EXCEPT !.pc = "failed"]
      BY FailTyped
    <2> QED
      BY <2>1, <2>2 DEF RequestRecords, Idle
  <1> QED
    BY <1>1, <1>2, OneIsTold DEF At

\* A step to pc keeps what the request is about.
LEMMA GotoTells ==
    ASSUME Typed, NEW r \in Requests, ~At(r, "succeeded"), NEW pc, Goto(r, pc),
           UNCHANGED <<executed, expired>>
    PROVE  /\ Ran' = Ran
           /\ Told' = IF Keyed(r) /\ pc = "succeeded" THEN Told \cup {Attempt(r)'} ELSE Told
           /\ Attempt(r)' = Attempt(r)
  <1>1. /\ \A q \in Requests : q # r => req'[q] = req[q]
        /\ req'[r].what = req[r].what /\ req'[r].key = req[r].key
        /\ req'[r].user = req[r].user /\ req'[r].house = req[r].house /\ req'[r].pc = pc
    BY DEF Goto, Typed, GatewayTypeOK, RequestRecords
  <1>2. (Keyed(r)' <=> Keyed(r)) /\ Attempt(r)' = Attempt(r)
    BY <1>1 DEF Keyed, IsCommand, Attempt
  <1> QED
    BY <1>1, <1>2, OneIsTold DEF At

LEMMA ExecuteRuns ==
    ASSUME Typed, KeyInv, NEW r \in Requests, Execute(r)
    PROVE  [Once!OnceNext]_Once!onceVars
  <1>1. /\ r \in inService /\ r \notin executed /\ r \notin expired
        /\ UNCHANGED <<req, expired>> /\ executed' = executed \cup {r}
    BY DEF Execute, history, KeyInv, PassedOn, Typed, GatewayTypeOK
  <1>2. \A q \in Requests : /\ Attempt(q)' = Attempt(q) /\ (Keyed(q)' <=> Keyed(q))
                            /\ (At(q, "succeeded")' <=> At(q, "succeeded"))
    BY <1>1 DEF Attempt, Keyed, IsCommand, At
  <1>3. Told' = Told
    BY <1>1 DEF Told, Attempt, Keyed, IsCommand, At
  <1>4. Ran' = IF Keyed(r) THEN Ran \cup {Attempt(r)} ELSE Ran
    <2> DEFINE R == {q \in executed \ expired : Keyed(q)}
               S == {q \in executed' \ expired' : Keyed(q)'}
    <2>1. S = IF Keyed(r) THEN R \cup {r} ELSE R
      BY <1>1, <1>2 DEF Typed, GatewayTypeOK
    <2>2. Ran = {Attempt(q) : q \in R} /\ Ran' = {Attempt(q)' : q \in S}
      BY DEF Ran
    <2>3. \A q \in S : Attempt(q)' = Attempt(q)
      BY <1>1, <1>2 DEF Typed, GatewayTypeOK
    <2> HIDE DEF R, S, Attempt
    <2> QED
      BY <2>1, <2>2, <2>3
  <1>5. CASE ~Keyed(r)
    BY <1>3, <1>4, <1>5 DEF Once!onceVars, Ran, Told
  <1>6. CASE Keyed(r)
    <2>1. Holder(r)
      BY <1>1, <1>6 DEF Holder
    <2>2. Scope(r) \in Scopes
      BY <2>1, HolderScope DEF KeyInv
    <2>3. Attempt(r) = [request |-> r, command |-> req[r].what, scope |-> Scope(r)]
      BY DEF Attempt, Scope
    <2>4. Attempt(r) \in [request : Requests, scope : Scopes, command : Commands]
      BY <1>6, <2>2, <2>3 DEF Keyed, IsCommand
    <2>5. \A q \in executed \ expired : Keyed(q) => Attempt(q).scope # Attempt(r).scope
      <3> SUFFICES ASSUME NEW q \in executed \ expired, Keyed(q)
                   PROVE  Attempt(q).scope # Attempt(r).scope
        OBVIOUS
      <3>1. q \in Requests /\ Holder(q) /\ q # r
        BY <1>1 DEF Holder, Typed, GatewayTypeOK
      <3>2. Scope(q) # Scope(r)
        BY <2>1, <3>1 DEF KeyInv, OneHolder
      <3>3. Attempt(q).scope = Scope(q) /\ Attempt(r).scope = Scope(r)
        BY DEF Attempt, Scope
      <3> QED
        BY <3>2, <3>3
    <2>6. \A b \in Ran : b.scope # Attempt(r).scope
      BY <2>5 DEF Ran
    <2>7. Once!Run(Attempt(r))
      BY <1>3, <1>4, <1>6, <2>6 DEF Once!Run, Ran, Told
    <2> QED
      BY <2>4, <2>7 DEF Once!OnceNext
  <1> QED
    BY <1>5, <1>6

LEMMA KeyExpiresForgets ==
    ASSUME Typed, KeyInv, NEW s \in Scopes, KeyExpires(s)
    PROVE  [Once!OnceNext]_Once!onceVars
  <1>1. /\ UNCHANGED <<req, executed>>
        /\ expired' = expired \cup {r \in executed : Keyed(r) /\ Scope(r) = s}
    BY DEF KeyExpires
  <1>2. Told' = Told
    BY <1>1 DEF Told, Attempt, Keyed, IsCommand, At
  <1>3. \A q \in executed : /\ Attempt(q)' = Attempt(q) /\ (Keyed(q)' <=> Keyed(q))
                            /\ Attempt(q).scope = Scope(q)
    BY <1>1 DEF Attempt, Keyed, IsCommand, Scope
  <1>4. Ran' = {b \in Ran : b.scope # s}
    <2> DEFINE R == {q \in executed \ expired : Keyed(q)}
               S == {q \in executed' \ expired' : Keyed(q)'}
    <2>1. S = {q \in R : Scope(q) # s}
      BY <1>1, <1>3
    <2>2. Ran = {Attempt(q) : q \in R} /\ Ran' = {Attempt(q)' : q \in S}
      BY DEF Ran
    <2>3. R \subseteq executed
      OBVIOUS
    <2> HIDE DEF R, S, Attempt
    <2> QED
      BY <1>3, <2>1, <2>2, <2>3
  <1>5. CASE \A b \in Ran : b.scope # s
    <2>1. Ran' = Ran
      BY <1>4, <1>5
    <2> QED
      BY <1>2, <2>1 DEF Once!onceVars, Ran, Told
  <1>6. CASE \E b \in Ran : b.scope = s
    <2>1. PICK q \in executed \ expired : Keyed(q) /\ Attempt(q).scope = s
      BY <1>6 DEF Ran
    <2>2. Attempt(q) \in [request : Requests, scope : Scopes, command : Commands]
      BY <2>1 DEF Attempt, Keyed, IsCommand, Typed, GatewayTypeOK
    <2>3. Once!Forget(Attempt(q))
      BY <1>2, <1>4, <2>1 DEF Once!Forget, Ran, Told
    <2> QED
      BY <2>2, <2>3 DEF Once!OnceNext
  <1> QED
    BY <1>5, <1>6

LEMMA StepRefines ==
    Typed /\ KeyInv /\ [GatewayNext]_gatewayVars => [Once!OnceNext]_Once!onceVars
  <1> SUFFICES ASSUME Typed, KeyInv, [GatewayNext]_gatewayVars
               PROVE  [Once!OnceNext]_Once!onceVars
    OBVIOUS
  <1> DEFINE Stutters == Ran' = Ran /\ Told' = Told
  <1>0. Stutters => [Once!OnceNext]_Once!onceVars
    BY DEF Once!onceVars, Ran, Told
  <1> HIDE DEF Stutters
  <1>1. CASE UNCHANGED gatewayVars
    BY <1>0, <1>1, NothingTold DEF Stutters, gatewayVars, history
  <1>2. ASSUME NEW r \in Requests, NEW what \in Commands \cup {"switch", "logout"},
               NEW t \in Tokens, NEW k \in Keys \cup {NoKey}, NEW h \in Houses \cup {NoHouse},
               Arrive(r, what, t, k, h)
        PROVE  Stutters
    <2>1. r \notin executed /\ ~At(r, "succeeded") /\ UNCHANGED <<executed, expired>>
      BY <1>2 DEF Arrive, At, KeyInv, PassedOn
    <2> QED
      BY <1>2, <2>1, ArriveWrites, OneIsTold DEF Stutters, At
  <1>3. ASSUME NEW r \in Requests, NEW u \in Users, NEW h \in Houses \cup {NoHouse},
               NEW t \in Tokens, Login(r, u, h, t)
        PROVE  Stutters
    <2>1. r \notin executed /\ ~At(r, "succeeded") /\ UNCHANGED <<executed, expired>>
      BY <1>3 DEF Login, At, KeyInv, PassedOn, history
    <2>2. /\ \A q \in Requests : q # r => req'[q] = req[q]
          /\ req'[r].pc # "succeeded"
      BY <1>3, LoginWrites
    <2> QED
      BY <2>1, <2>2, OneIsTold DEF Stutters, At
  <1>4. ASSUME NEW r \in Requests, ReadSession(r)
        PROVE  Stutters
    <2>1. r \notin executed /\ ~At(r, "succeeded") /\ UNCHANGED <<executed, expired>>
      BY <1>4 DEF ReadSession, At, KeyInv, PassedOn, history
    <2>2. CASE session[req[r].token] # Nothing
      BY <1>4, <2>1, <2>2, ReadSessionWrites, OneIsTold DEF Stutters, At
    <2> QED
      BY <1>4, <2>1, <2>2, FailTellsNothing DEF Stutters, ReadSession
  <1>5. ASSUME NEW r \in Requests,
               CheckDefault(r) \/ CreateSession(r) \/ CheckTarget(r) \/ Switch(r) \/ Logout(r)
        PROVE  Stutters
    <2>1. ~Keyed(r) /\ ~At(r, "succeeded") /\ UNCHANGED <<executed, expired>>
      BY <1>5 DEF CheckDefault, CreateSession, CheckTarget, Switch, Logout, End, At, Keyed,
                  history, Typed, LocalsAreSet, HasCommand
    <2>2. Fail(r) \/ \E pc \in {"create", "switch", "succeeded"} : Goto(r, pc)
      BY <1>5 DEF CheckDefault, CreateSession, CheckTarget, Switch, Logout
    <2> QED
      BY <2>1, <2>2, FailTellsNothing, GotoTells DEF Stutters
  <1>6. ASSUME NEW r \in Requests, CheckAuthority(r) \/ Reserve(r) \/ Call(r)
        PROVE  Stutters
    <2>1. ~At(r, "succeeded") /\ UNCHANGED <<executed, expired>>
      BY <1>6 DEF CheckAuthority, Reserve, Call, At, history
    <2>2. Fail(r) \/ \E pc \in {"reserve", "call", "lookup", "wait"} : Goto(r, pc)
      BY <1>6 DEF CheckAuthority, Reserve, Call
    <2> QED
      BY <2>1, <2>2, FailTellsNothing, GotoTells DEF Stutters
  <1>7. ASSUME NEW r \in Requests, Lookup(r) \/ Answer(r) \/ Finish(r)
        PROVE  [Once!OnceNext]_Once!onceVars
    <2>1. ~At(r, "succeeded") /\ UNCHANGED <<executed, expired>> /\ HasUser(r)
      BY <1>7 DEF Lookup, Answer, Finish, At, history, Typed, LocalsAreSet
    <2>2. CASE Fail(r)
      BY <1>0, <2>1, <2>2, FailTellsNothing DEF Stutters
    <2>3. CASE Goto(r, "finish")
      BY <1>0, <2>1, <2>3, GotoTells DEF Stutters
    <2>4. CASE Goto(r, "succeeded") /\ ~Keyed(r)
      BY <1>0, <2>1, <2>4, GotoTells DEF Stutters
    <2>5. CASE Goto(r, "succeeded") /\ Keyed(r)
      <3>1. Ran' = Ran /\ Told' = Told \cup {Attempt(r)'} /\ Attempt(r)' = Attempt(r)
        BY <2>1, <2>5, GotoTells
      <3>2. CASE Lookup(r)
        <4>1. Replayable(r) /\ req[r].pc = "lookup"
          <5>1. req[r].pc = "lookup" /\ (Replayable(r) \/ Fail(r))
            BY <3>2 DEF Lookup, At
          <5> QED
            BY <2>2, <5>1, <2>5 DEF Fail, Goto, Typed, GatewayTypeOK, RequestRecords, Idle
        <4>2. req[r] \in RequestRecords
          BY DEF Typed, GatewayTypeOK
        <4>3. Scope(r) \in Scopes /\ req[r].what \in Commands
          BY <2>1, <2>5, <4>1, <4>2 DEF Scope, Scopes, Keyed, IsCommand, HasUser, RequestRecords
        <4>4. PICK q \in executed \ expired :
                Keyed(q) /\ Scope(q) = Scope(r) /\ req[q].what = req[r].what
          BY <4>1, <4>3 DEF KeyInv, StoredAnswers, Replayable
        <4> QED
          BY <2>1, <2>5, <3>1, <4>1, <4>4, MayTell DEF Once!OnceNext
      <3>3. CASE Finish(r)
        <4>1. req[r].pc = "finish" /\ r \in executed \ expired
          BY <2>5, <3>3 DEF Finish, At, KeyInv, PassedOn
        <4> QED
          BY <2>1, <2>5, <3>1, <4>1, MayTell DEF Once!OnceNext
      <3>4. CASE Answer(r)
        BY <2>5, <3>4 DEF Answer, Fail, Goto, Typed, GatewayTypeOK, RequestRecords, Idle
      <3> QED
        BY <1>7, <3>2, <3>3, <3>4
    <2> QED
      BY <1>7, <2>2, <2>3, <2>4, <2>5 DEF Lookup, Answer, Finish
  <1>8. ASSUME NEW r \in Requests, Break(r)
        PROVE  Stutters
    BY <1>8, FailTellsNothing DEF Stutters, Break, Over, At
  <1>9. ASSUME NEW r \in Requests, Refuse(r)
        PROVE  Stutters
    BY <1>9, NothingTold DEF Stutters, Refuse, history
  <1>10. ASSUME NEW t \in Tokens, SessionExpires(t)
         PROVE  Stutters
    BY <1>10, NothingTold DEF Stutters, SessionExpires
  <1>11. ASSUME NEW u \in Users, NEW h \in Houses, NEW ro \in Roles, RoleChanges(u, h, ro)
         PROVE  Stutters
    BY <1>11, NothingTold DEF Stutters, RoleChanges, history
  <1> QED
    BY <1>0, <1>1, <1>2, <1>3, <1>4, <1>5, <1>6, <1>7, <1>8, <1>9, <1>10, <1>11, ExecuteRuns,
       KeyExpiresForgets DEF GatewayNext, Serve

-----------------------------------------------------------------------------
(* Sessions and authority.                                                 *)

\* Nobody knows the token of a session that is still to be created, and an
\* ended session stays ended.
FreshTokens ==
    \A r \in Requests : At(r, "default") \/ At(r, "create") =>
        /\ session[req[r].token] = Nothing /\ req[r].token \notin ended
        /\ \A q \in Requests : q # r => req[q].token # req[r].token
EndedStays == \A t \in ended : session[t] = Nothing
LateAreRefused ==
    \A r \in late : At(r, "failed") \/ (At(r, "session") /\ req[r].token \in ended)

SessionInv == FreshTokens /\ EndedStays /\ LateAreRefused

\* A request between the session and its answer is known to be authorized as
\* soon as its user has the role; past the check it is authorized.
RoleIsSeen(r) ==
    /\ \/ req[r].pc \in {"authority", "reserve", "lookup", "call", "wait", "finish"}
       \/ req[r].what = "switch" /\ req[r].pc \in {"target", "switch"}
    /\ May(req[r].user, req[r].house, req[r].what)
    => r \in authorized
Checked(r) ==
    /\ req[r].pc \in {"reserve", "lookup", "call", "wait", "finish"} => r \in authorized
    /\ IsCommand(r) /\ At(r, "succeeded") => r \in authorized
    /\ req[r].what = "switch" /\ (At(r, "switch") \/ At(r, "succeeded")) => r \in authorized
    /\ r \in inService \cup executed => r \in authorized
    /\ req[r].pc \in {"default", "create", "delete"} => req[r].what # "switch"

AuthorityInv == \A r \in Requests : RoleIsSeen(r) /\ Checked(r)

LEMMA InitInvariants == GatewayInit => KeyInv /\ SessionInv /\ AuthorityInv
  <1> SUFFICES ASSUME GatewayInit PROVE KeyInv /\ SessionInv /\ AuthorityInv
    OBVIOUS
  <1>1. \A r \in Requests : req[r].pc = "idle" /\ req[r].key = NoKey /\ req[r].what = "logout"
    BY DEF GatewayInit, Idle
  <1>2. inService = {} /\ executed = {} /\ ended = {} /\ late = {}
        /\ idem = [s \in Scopes |-> Nothing]
    BY DEF GatewayInit
  <1>3. \A r \in Requests : ~Keyed(r) /\ ~Holder(r)
    BY <1>1 DEF Keyed, Holder
  <1>4. StoredAnswers
    BY <1>2, NothingAssumption DEF StoredAnswers
  <1>5. KeyInv
    BY <1>1, <1>2, <1>3, <1>4 DEF KeyInv, PassedOn, HoldersReserved, OneHolder, At
  <1>6. SessionInv
    BY <1>1, <1>2 DEF SessionInv, FreshTokens, EndedStays, LateAreRefused, At
  <1>7. AuthorityInv
    BY <1>1, <1>2 DEF AuthorityInv, RoleIsSeen, Checked, At
  <1> QED
    BY <1>5, <1>6, <1>7

\* A step of one request that leaves the sessions alone.
LEMMA SessionsStand ==
    ASSUME Typed, SessionInv, NEW r \in Requests,
           \A q \in Requests : q # r => req'[q] = req[q],
           req'[r].token \in {req[r].token, Nothing},
           req'[r].pc \in {"default", "create"} =>
             req[r].pc \in {"default", "create"} /\ req'[r].token = req[r].token,
           r \in late => req'[r].pc = "failed",
           UNCHANGED <<session, ended, late>>
    PROVE  SessionInv'
  <1>1. \A q \in Requests : At(q, "default") \/ At(q, "create") => req[q].token # Nothing
    BY NothingAssumption DEF Typed, LocalsAreSet, HasToken, At
  <1>2. FreshTokens'
    <2> SUFFICES ASSUME NEW q \in Requests, (At(q, "default") \/ At(q, "create"))'
                 PROVE  /\ session'[req'[q].token] = Nothing /\ req'[q].token \notin ended'
                        /\ \A z \in Requests : z # q => req'[z].token # req'[q].token
      BY DEF FreshTokens
    <2>1. (At(q, "default") \/ At(q, "create")) /\ req'[q].token = req[q].token
      BY DEF At
    <2> QED
      BY <1>1, <2>1 DEF SessionInv, FreshTokens
  <1>3. EndedStays'
    BY DEF SessionInv, EndedStays
  <1>4. LateAreRefused'
    BY DEF SessionInv, LateAreRefused, At, Typed, GatewayTypeOK
  <1> QED
    BY <1>2, <1>3, <1>4 DEF SessionInv

\* A session is written: the one of a new token, or one that is there.
LEMMA SessionSet ==
    ASSUME Typed, SessionInv, NEW r \in Requests, r \notin late,
           \A q \in Requests : q # r => req'[q] = req[q],
           req'[r].pc \in {"succeeded", "failed"}, req'[r].token \in {req[r].token, Nothing},
           At(r, "create") \/ session[req[r].token] # Nothing, NEW s,
           session' = [session EXCEPT ![req[r].token] = s],
           UNCHANGED <<ended, late>>
    PROVE  SessionInv'
  <1>1. \A q \in Requests : At(q, "default") \/ At(q, "create") =>
          req[q].token \in Tokens /\ req[q].token # Nothing
    BY NothingAssumption DEF Typed, LocalsAreSet, HasToken, At
  <1>2. \A t \in Tokens : t # req[r].token => session'[t] = session[t]
    BY DEF Typed, GatewayTypeOK
  <1>3. FreshTokens'
    <2> SUFFICES ASSUME NEW q \in Requests, (At(q, "default") \/ At(q, "create"))'
                 PROVE  /\ session'[req'[q].token] = Nothing /\ req'[q].token \notin ended'
                        /\ \A z \in Requests : z # q => req'[z].token # req'[q].token
      BY DEF FreshTokens
    <2>1. q # r /\ (At(q, "default") \/ At(q, "create")) /\ req'[q] = req[q]
      BY DEF At
    <2>2. req[q].token # req[r].token
      BY <2>1 DEF SessionInv, FreshTokens
    <2> QED
      BY <1>1, <1>2, <2>1, <2>2 DEF SessionInv, FreshTokens
  <1>4. EndedStays'
    <2>1. req[r].token \notin ended
      BY DEF SessionInv, FreshTokens, EndedStays
    <2> QED
      BY <1>2, <2>1 DEF SessionInv, EndedStays, Typed, GatewayTypeOK
  <1>5. LateAreRefused'
    BY DEF SessionInv, LateAreRefused, At, Typed, GatewayTypeOK
  <1> QED
    BY <1>3, <1>4, <1>5 DEF SessionInv

\* A session ends, on demand of a request or by itself.
LEMMA SessionEnds ==
    ASSUME Typed, SessionInv, NEW t \in Tokens, End(t), late' = late,
           \/ req' = req /\ session[t] # Nothing
           \/ \E r \in Requests :
                /\ \A q \in Requests : q # r => req'[q] = req[q]
                /\ At(r, "delete") /\ req[r].token = t /\ r \notin late
                /\ req'[r].pc \in {"succeeded", "failed"} /\ req'[r].token \in {t, Nothing}
    PROVE  SessionInv'
  <1>1. \A q \in Requests : At(q, "default") \/ At(q, "create") =>
          req[q].token \in Tokens /\ req[q].token # Nothing
    BY NothingAssumption DEF Typed, LocalsAreSet, HasToken, At
  <1>2. /\ \A z \in Tokens : session'[z] = IF z = t THEN Nothing ELSE session[z]
        /\ ended' = ended \cup {t}
    BY DEF End, Typed, GatewayTypeOK
  <1>3. FreshTokens'
    <2> SUFFICES ASSUME NEW q \in Requests, (At(q, "default") \/ At(q, "create"))'
                 PROVE  /\ session'[req'[q].token] = Nothing /\ req'[q].token \notin ended'
                        /\ \A z \in Requests : z # q => req'[z].token # req'[q].token
      BY DEF FreshTokens
    <2>1. (At(q, "default") \/ At(q, "create")) /\ req'[q] = req[q]
      BY DEF At
    <2>2. req[q].token # t
      BY <2>1 DEF SessionInv, FreshTokens, At
    <2>3. \A z \in Requests : req'[z].token \in {req[z].token, Nothing}
      OBVIOUS
    <2> QED
      BY <1>1, <1>2, <2>1, <2>2, <2>3 DEF SessionInv, FreshTokens
  <1>4. EndedStays'
    BY <1>2 DEF SessionInv, EndedStays, Typed, GatewayTypeOK
  <1>5. LateAreRefused'
    BY <1>2 DEF SessionInv, LateAreRefused, At, Typed, GatewayTypeOK
  <1> QED
    BY <1>3, <1>4, <1>5 DEF SessionInv

\* A request that fails or goes on keeps its token or forgets it.
LEMMA FailFields ==
    ASSUME Typed, NEW r \in Requests, Fail(r)
    PROVE  /\ \A q \in Requests : q # r => req'[q] = req[q]
           /\ req'[r].pc = "failed" /\ req'[r].token \in {req[r].token, Nothing}
           /\ req'[r].what \in {req[r].what, "logout"}
  <1>1. req[r] \in RequestRecords
    BY DEF Typed, GatewayTypeOK
  <1>2. /\ \A q \in Requests : q # r => req'[q] = req[q]
        /\ req'[r] = IF r \in inService \cup executed THEN [req[r] EXCEPT !.pc = "failed"]
                                                      ELSE [Idle EXCEPT !.pc = "failed"]
    BY FailTyped
  <1> QED
    BY <1>1, <1>2 DEF RequestRecords, Idle

LEMMA GotoFields ==
    ASSUME Typed, NEW r \in Requests, NEW pc, Goto(r, pc)
    PROVE  /\ \A q \in Requests : q # r => req'[q] = req[q]
           /\ req'[r].pc = pc /\ req'[r].token = req[r].token /\ req'[r].what = req[r].what
           /\ req'[r].user = req[r].user /\ req'[r].house = req[r].house
  BY DEF Goto, Typed, GatewayTypeOK, RequestRecords

LEMMA StepSessions == Typed /\ SessionInv /\ [GatewayNext]_gatewayVars => SessionInv'
  <1> SUFFICES ASSUME Typed, SessionInv, [GatewayNext]_gatewayVars PROVE SessionInv'
    OBVIOUS
  <1>0. ASSUME UNCHANGED <<session, req, ended, late>>
        PROVE  SessionInv'
    BY <1>0 DEF SessionInv, FreshTokens, EndedStays, LateAreRefused, At
  <1>1. CASE UNCHANGED gatewayVars
    BY <1>0, <1>1 DEF gatewayVars, redisVars, history
  <1>2. ASSUME NEW r \in Requests, NEW what \in Commands \cup {"switch", "logout"},
               NEW t \in Tokens, NEW k \in Keys \cup {NoKey}, NEW h \in Houses \cup {NoHouse},
               Arrive(r, what, t, k, h)
        PROVE  SessionInv'
    <2>1. /\ \A q \in Requests : q # r => req'[q] = req[q]
          /\ req'[r].pc = "session" /\ req'[r].token = t
      BY <1>2, ArriveWrites
    <2>2. UNCHANGED <<session, ended>> /\ late' = (IF t \in ended THEN late \cup {r} ELSE late)
          /\ (session[t] # Nothing \/ t \in ended) /\ At(r, "idle")
      BY <1>2 DEF Arrive, redisVars
    <2>3. FreshTokens'
      BY <2>1, <2>2 DEF SessionInv, FreshTokens, At
    <2>4. EndedStays'
      BY <2>2 DEF SessionInv, EndedStays
    <2>5. LateAreRefused'
      BY <2>1, <2>2 DEF SessionInv, LateAreRefused, At, Typed, GatewayTypeOK
    <2> QED
      BY <2>3, <2>4, <2>5 DEF SessionInv
  <1>3. ASSUME NEW r \in Requests, NEW u \in Users, NEW h \in Houses \cup {NoHouse},
               NEW t \in Tokens, Login(r, u, h, t)
        PROVE  SessionInv'
    <2>1. /\ \A q \in Requests : q # r => req'[q] = req[q]
          /\ req'[r].pc \in {"default", "create"} /\ req'[r].token = t
      BY <1>3, LoginWrites
    <2>2. /\ UNCHANGED <<session, ended, late>> /\ At(r, "idle")
          /\ session[t] = Nothing /\ t \notin ended /\ \A q \in Requests : req[q].token # t
      BY <1>3 DEF Login, redisVars, history
    <2>3. FreshTokens'
      BY <2>1, <2>2 DEF SessionInv, FreshTokens, At
    <2>4. EndedStays'
      BY <2>2 DEF SessionInv, EndedStays
    <2>5. LateAreRefused'
      BY <2>1, <2>2 DEF SessionInv, LateAreRefused, At, Typed, GatewayTypeOK
    <2> QED
      BY <2>3, <2>4, <2>5 DEF SessionInv
  <1>4. ASSUME NEW r \in Requests, ReadSession(r)
        PROVE  SessionInv'
    <2>1. UNCHANGED <<session, ended, late>> /\ At(r, "session")
      BY <1>4 DEF ReadSession, redisVars, history
    <2>2. CASE session[req[r].token] # Nothing
      <3>1. r \notin late
        BY <2>1, <2>2 DEF SessionInv, LateAreRefused, EndedStays, At
      <3>2. /\ \A q \in Requests : q # r => req'[q] = req[q]
            /\ req'[r].pc \notin {"default", "create"} /\ req'[r].token = req[r].token
        BY <1>4, <2>2, ReadSessionWrites
      <3> QED
        BY <2>1, <3>1, <3>2, SessionsStand
    <2>3. CASE session[req[r].token] = Nothing
      BY <1>4, <2>1, <2>3, FailFields, SessionsStand DEF ReadSession
    <2> QED
      BY <2>2, <2>3
  <1>5. ASSUME NEW r \in Requests, UNCHANGED <<session, ended, late>>,
               ~At(r, "session"), ~At(r, "failed"),
               Fail(r) \/ \E pc \in {"switch", "reserve", "call", "lookup", "wait", "finish",
                                     "succeeded"} : Goto(r, pc)
        PROVE  SessionInv'
    <2>1. r \notin late
      BY <1>5 DEF SessionInv, LateAreRefused
    <2>2. /\ \A q \in Requests : q # r => req'[q] = req[q]
          /\ req'[r].pc \notin {"default", "create"} /\ req'[r].token \in {req[r].token, Nothing}
      BY <1>5, FailFields, GotoFields
    <2> QED
      BY <1>5, <2>1, <2>2, SessionsStand
  <1>6. ASSUME NEW r \in Requests, CheckDefault(r)
        PROVE  SessionInv'
    <2>1. UNCHANGED <<session, ended, late>> /\ At(r, "default")
      BY <1>6 DEF CheckDefault, redisVars, history
    <2>2. CASE Fail(r)
      BY <1>5, <2>1, <2>2 DEF At
    <2>3. CASE Goto(r, "create")
      <3>1. r \notin late
        BY <2>1 DEF SessionInv, LateAreRefused, At
      <3> QED
        BY <2>1, <2>3, <3>1, GotoFields, SessionsStand DEF At
    <2> QED
      BY <1>6, <2>2, <2>3 DEF CheckDefault
  <1>7. ASSUME NEW r \in Requests,
               CheckTarget(r) \/ CheckAuthority(r) \/ Reserve(r) \/ Lookup(r) \/ Call(r)
                 \/ Answer(r) \/ Finish(r)
        PROVE  SessionInv'
    <2>1. UNCHANGED <<session, ended, late>> /\ ~At(r, "session") /\ ~At(r, "failed")
      BY <1>7 DEF CheckTarget, CheckAuthority, Reserve, Lookup, Call, Answer, Finish,
                  redisVars, history, At
    <2>2. Fail(r) \/ \E pc \in {"switch", "reserve", "call", "lookup", "wait", "finish",
                                "succeeded"} : Goto(r, pc)
      BY <1>7 DEF CheckTarget, CheckAuthority, Reserve, Lookup, Call, Answer, Finish
    <2> QED
      BY <1>5, <2>1, <2>2
  <1>8. ASSUME NEW r \in Requests, CreateSession(r) \/ Switch(r)
        PROVE  SessionInv'
    <2>1. UNCHANGED <<ended, late>> /\ (At(r, "create") \/ At(r, "switch"))
      BY <1>8 DEF CreateSession, Switch, history
    <2>2. r \notin late
      BY <2>1 DEF SessionInv, LateAreRefused, At
    <2>3. CASE session' = session /\ Fail(r)
      BY <1>5, <2>1, <2>3 DEF At
    <2>4. CASE ~(session' = session /\ Fail(r))
      <3>1. /\ session' = [session EXCEPT ![req[r].token] =
                             [user |-> req[r].user, house |-> req[r].house]]
            /\ Goto(r, "succeeded")
            /\ At(r, "create") \/ session[req[r].token] # Nothing
        BY <1>8, <2>4 DEF CreateSession, Switch, Switchable
      <3>2. /\ \A q \in Requests : q # r => req'[q] = req[q]
            /\ req'[r].pc \in {"succeeded", "failed"} /\ req'[r].token \in {req[r].token, Nothing}
        BY <3>1, GotoFields
      <3> QED
        BY <2>1, <2>2, <3>1, <3>2, SessionSet
    <2> QED
      BY <2>3, <2>4
  <1>9. ASSUME NEW r \in Requests, Logout(r)
        PROVE  SessionInv'
    <2>1. At(r, "delete") /\ req[r].token \in Tokens /\ r \notin late
      BY <1>9 DEF Logout, At, Typed, LocalsAreSet, HasToken, SessionInv, LateAreRefused
    <2> QED
      BY <1>9, <2>1, GotoFields, SessionEnds DEF Logout
  <1>10. ASSUME NEW r \in Requests, Break(r)
         PROVE  SessionInv'
    <2>1. Fail(r) /\ late' = late /\ ~Over(r)
      BY <1>10 DEF Break
    <2>2. CASE UNCHANGED <<session, ended>>
      <3>1. /\ \A q \in Requests : q # r => req'[q] = req[q]
            /\ req'[r].pc = "failed" /\ req'[r].token \in {req[r].token, Nothing}
        BY <2>1, FailFields
      <3> QED
        BY <2>1, <2>2, <3>1, SessionsStand
    <2>3. CASE /\ At(r, "create") \/ (At(r, "switch") /\ Switchable(req[r].token))
               /\ session' = [session EXCEPT ![req[r].token] =
                                [user |-> req[r].user, house |-> req[r].house]]
               /\ ended' = ended
      <3>1. r \notin late
        BY <2>3 DEF SessionInv, LateAreRefused, At
      <3>2. At(r, "create") \/ session[req[r].token] # Nothing
        BY <2>3 DEF Switchable
      <3>3. /\ \A q \in Requests : q # r => req'[q] = req[q]
            /\ req'[r].pc = "failed" /\ req'[r].token \in {req[r].token, Nothing}
        BY <2>1, FailFields
      <3>4. req'[r].pc \in {"succeeded", "failed"}
        BY <3>3
      <3> QED
        BY <2>1, <2>3, <3>1, <3>2, <3>3, <3>4, SessionSet
    <2>4. CASE At(r, "delete") /\ End(req[r].token)
      <3>1. req[r].token \in Tokens /\ r \notin late
        BY <2>4 DEF At, Typed, LocalsAreSet, HasToken, SessionInv, LateAreRefused
      <3> QED
        BY <2>1, <2>4, <3>1, FailFields, SessionEnds
    <2> QED
      BY <1>10, <2>2, <2>3, <2>4 DEF Break, redisVars
  <1>11. ASSUME NEW t \in Tokens, SessionExpires(t)
         PROVE  SessionInv'
    BY <1>11, SessionEnds DEF SessionExpires
  <1>12. ASSUME NEW r \in Requests, Execute(r) \/ Refuse(r)
         PROVE  SessionInv'
    BY <1>0, <1>12 DEF Execute, Refuse, redisVars, history
  <1>13. ASSUME NEW s \in Scopes, KeyExpires(s)
         PROVE  SessionInv'
    BY <1>0, <1>13 DEF KeyExpires
  <1>14. ASSUME NEW u \in Users, NEW h \in Houses, NEW ro \in Roles, RoleChanges(u, h, ro)
         PROVE  SessionInv'
    BY <1>0, <1>14 DEF RoleChanges, redisVars, history
  <1> QED
    BY <1>1, <1>2, <1>3, <1>4, <1>6, <1>7, <1>8, <1>9, <1>10, <1>11, <1>12, <1>13, <1>14
    DEF GatewayNext, Serve

LEMMA AuthorityStands ==
    ASSUME Typed, AuthorityInv, NEW r \in Requests,
           \A q \in Requests : q # r => req'[q] = req[q],
           RoleIsSeen(r)', Checked(r)',
           role' = role, authorized \subseteq authorized',
           inService' \cup executed' \subseteq inService \cup executed \cup {r}
    PROVE  AuthorityInv'
  <1> SUFFICES ASSUME NEW q \in Requests, q # r PROVE RoleIsSeen(q)' /\ Checked(q)'
    BY DEF AuthorityInv
  <1>1. RoleIsSeen(q) /\ Checked(q) /\ req'[q] = req[q]
    BY DEF AuthorityInv
  <1>2. RoleIsSeen(q)'
    BY <1>1 DEF RoleIsSeen, May, Suffices
  <1>3. Checked(q)'
    BY <1>1 DEF Checked, IsCommand, At
  <1> QED
    BY <1>2, <1>3

LEMMA FailAuthority ==
    ASSUME Typed, AuthorityInv, NEW r \in Requests, Fail(r),
           UNCHANGED <<role, authorized, inService, executed>>
    PROVE  AuthorityInv'
  <1>1. /\ \A q \in Requests : q # r => req'[q] = req[q]
        /\ req'[r].pc = "failed"
    BY FailFields
  <1>2. RoleIsSeen(r)'
    BY <1>1 DEF RoleIsSeen
  <1>3. Checked(r)'
    BY <1>1 DEF AuthorityInv, Checked, At
  <1> QED
    BY <1>1, <1>2, <1>3, AuthorityStands

\* A request goes on that is authorized, if it has to be.
LEMMA GotoAuthority ==
    ASSUME Typed, AuthorityInv, NEW r \in Requests, NEW pc, Goto(r, pc),
           pc \notin {"default", "authority", "target", "delete"},
           pc = "create" => req[r].pc = "default",
           pc = "create" \/ r \in authorized \/ (~IsCommand(r) /\ req[r].what # "switch"
                                                  /\ pc \in {"switch", "succeeded"}),
           UNCHANGED <<role, authorized, executed>>,
           inService' \subseteq inService \cup {r}, r \in inService' => r \in authorized
    PROVE  AuthorityInv'
  <1>1. /\ \A q \in Requests : q # r => req'[q] = req[q]
        /\ req'[r].pc = pc /\ req'[r].what = req[r].what
        /\ req'[r].user = req[r].user /\ req'[r].house = req[r].house
    BY GotoFields
  <1>2. RoleIsSeen(r)'
    BY <1>1 DEF RoleIsSeen
  <1>3. Checked(r)'
    BY <1>1 DEF AuthorityInv, Checked, IsCommand, At
  <1> QED
    BY <1>1, <1>2, <1>3, AuthorityStands

LEMMA StepAuthority == Typed /\ AuthorityInv /\ [GatewayNext]_gatewayVars => AuthorityInv'
  <1> SUFFICES ASSUME Typed, AuthorityInv, [GatewayNext]_gatewayVars PROVE AuthorityInv'
    OBVIOUS
  <1>0. ASSUME UNCHANGED <<req, role, authorized>>,
               inService' \cup executed' \subseteq inService \cup executed
        PROVE  AuthorityInv'
    BY <1>0 DEF AuthorityInv, RoleIsSeen, Checked, May, Suffices, IsCommand, At
  <1>1. CASE UNCHANGED gatewayVars
    BY <1>0, <1>1 DEF gatewayVars, redisVars, history
  <1>2. ASSUME NEW r \in Requests, NEW what \in Commands \cup {"switch", "logout"},
               NEW t \in Tokens, NEW k \in Keys \cup {NoKey}, NEW h \in Houses \cup {NoHouse},
               Arrive(r, what, t, k, h)
        PROVE  AuthorityInv'
    <2>1. /\ \A q \in Requests : q # r => req'[q] = req[q]
          /\ req'[r].pc = "session"
      BY <1>2, ArriveWrites
    <2>2. UNCHANGED <<role, authorized, inService, executed>>
      BY <1>2 DEF Arrive
    <2>3. RoleIsSeen(r)' /\ Checked(r)'
      BY <2>1, <2>2 DEF AuthorityInv, RoleIsSeen, Checked, At
    <2> QED
      BY <2>1, <2>2, <2>3, AuthorityStands
  <1>3. ASSUME NEW r \in Requests, NEW u \in Users, NEW h \in Houses \cup {NoHouse},
               NEW t \in Tokens, Login(r, u, h, t)
        PROVE  AuthorityInv'
    <2>1. /\ \A q \in Requests : q # r => req'[q] = req[q]
          /\ req'[r].pc \in {"default", "create"} /\ req'[r].what = "login"
      BY <1>3, LoginWrites
    <2>2. UNCHANGED <<role, authorized, inService, executed>>
      BY <1>3 DEF Login
    <2>3. RoleIsSeen(r)' /\ Checked(r)'
      BY <2>1, <2>2 DEF AuthorityInv, RoleIsSeen, Checked, At
    <2> QED
      BY <2>1, <2>2, <2>3, AuthorityStands
  <1>4. ASSUME NEW r \in Requests, ReadSession(r)
        PROVE  AuthorityInv'
    <2>1. UNCHANGED <<role, inService, executed>> /\ authorized \subseteq authorized'
      BY <1>4 DEF ReadSession
    <2>2. CASE session[req[r].token] # Nothing
      <3> DEFINE u == session[req[r].token].user
                 h == IF IsCommand(r) THEN session[req[r].token].house ELSE req[r].house
      <3>1. /\ \A q \in Requests : q # r => req'[q] = req[q]
            /\ req'[r].pc = Route(r) /\ Route(r) \in {"authority", "target", "delete"}
            /\ req'[r].what = req[r].what /\ req'[r].user = u /\ req'[r].house = h
        BY <1>4, <2>2, ReadSessionWrites
      <3>2. May(u, h, req[r].what) => r \in authorized'
        BY <1>4, <2>2 DEF ReadSession
      <3> HIDE DEF u, h
      <3>3. RoleIsSeen(r)'
        BY <2>1, <3>1, <3>2 DEF RoleIsSeen, May, Suffices
      <3>4. Route(r) = "delete" => req[r].what # "switch"
        BY DEF Route
      <3>5. Checked(r)'
        BY <2>1, <3>1, <3>4 DEF AuthorityInv, Checked, At
      <3> QED
        BY <2>1, <3>1, <3>3, <3>5, AuthorityStands
    <2>3. CASE session[req[r].token] = Nothing
      BY <1>4, <2>1, <2>3, FailAuthority DEF ReadSession
    <2> QED
      BY <2>2, <2>3
  <1>5. ASSUME NEW r \in Requests,
               CheckDefault(r) \/ CreateSession(r) \/ CheckTarget(r) \/ Switch(r) \/ Logout(r)
        PROVE  AuthorityInv'
    <2>1. UNCHANGED <<role, authorized, inService, executed>> /\ ~IsCommand(r)
          /\ RoleIsSeen(r) /\ Checked(r)
      BY <1>5 DEF CheckDefault, CreateSession, CheckTarget, Switch, Logout, At, Typed,
                  LocalsAreSet, HasCommand, AuthorityInv
    <2>2. CASE Fail(r)
      BY <2>1, <2>2, FailAuthority
    <2>3. CASE CheckDefault(r) /\ Goto(r, "create")
      BY <2>1, <2>3, GotoAuthority DEF CheckDefault, At, Checked
    <2>0. inService' \subseteq inService \cup {r} /\ (r \in inService' => r \in authorized)
      BY <2>1 DEF Checked
    <2>4. CASE CreateSession(r) \/ Logout(r)
      <3>1. Goto(r, "succeeded") /\ req[r].what # "switch"
        BY <2>1, <2>4 DEF CreateSession, Logout, Checked, At
      <3> QED
        BY <2>0, <2>1, <3>1, GotoAuthority
    <2>5. CASE CheckTarget(r) /\ Goto(r, "switch") /\ May(req[r].user, req[r].house, "switch")
      <3>1. CASE r \in authorized
        BY <2>0, <2>1, <2>5, <3>1, GotoAuthority
      <3>2. CASE req[r].what # "switch"
        BY <2>0, <2>1, <2>5, <3>2, GotoAuthority
      <3> QED
        BY <2>1, <2>5, <3>1, <3>2 DEF RoleIsSeen, CheckTarget, At
    <2>6. CASE Switch(r) /\ Goto(r, "succeeded")
      <3>1. CASE r \in authorized
        BY <2>0, <2>1, <2>6, <3>1, GotoAuthority
      <3>2. CASE req[r].what # "switch"
        BY <2>0, <2>1, <2>6, <3>2, GotoAuthority
      <3> QED
        BY <2>1, <2>6, <3>1, <3>2 DEF Checked, Switch, At
    <2> QED
      BY <1>5, <2>2, <2>3, <2>4, <2>5, <2>6 DEF CheckDefault, CheckTarget, Switch
  <1>6. ASSUME NEW r \in Requests, CheckAuthority(r)
        PROVE  AuthorityInv'
    <2>1. UNCHANGED <<role, authorized, inService, executed>> /\ RoleIsSeen(r) /\ At(r, "authority")
      BY <1>6 DEF CheckAuthority, AuthorityInv
    <2>2. CASE May(req[r].user, req[r].house, req[r].what)
      <3>1. r \in authorized
        BY <2>1, <2>2 DEF RoleIsSeen, At
      <3>2. Goto(r, "reserve") \/ Goto(r, "call")
        BY <1>6, <2>2 DEF CheckAuthority
      <3> QED
        BY <2>1, <3>1, <3>2, GotoAuthority
    <2>3. CASE ~May(req[r].user, req[r].house, req[r].what)
      BY <1>6, <2>1, <2>3, FailAuthority DEF CheckAuthority
    <2> QED
      BY <2>2, <2>3
  <1>7. ASSUME NEW r \in Requests,
               Reserve(r) \/ Lookup(r) \/ Call(r) \/ Answer(r) \/ Finish(r)
        PROVE  AuthorityInv'
    <2>1. UNCHANGED <<role, authorized, executed>> /\ r \in authorized
      BY <1>7 DEF Reserve, Lookup, Call, Answer, Finish, At, AuthorityInv, Checked
    <2>2. inService' \subseteq inService \cup {r}
      BY <1>7 DEF Reserve, Lookup, Call, Answer, Finish
    <2>3. CASE Fail(r) /\ inService' = inService
      BY <2>1, <2>3, FailAuthority
    <2>4. (Fail(r) /\ inService' = inService) \/ Goto(r, "call") \/ Goto(r, "lookup")
            \/ Goto(r, "succeeded") \/ Goto(r, "wait") \/ Goto(r, "finish")
      BY <1>7 DEF Reserve, Lookup, Call, Answer, Finish
    <2> QED
      BY <2>1, <2>2, <2>3, <2>4, GotoAuthority
  <1>8. ASSUME NEW r \in Requests, Break(r)
        PROVE  AuthorityInv'
    BY <1>8, FailAuthority DEF Break
  <1>9. ASSUME NEW r \in Requests, Execute(r) \/ Refuse(r)
        PROVE  AuthorityInv'
    BY <1>0, <1>9 DEF Execute, Refuse
  <1>10. ASSUME NEW t \in Tokens, SessionExpires(t)
         PROVE  AuthorityInv'
    BY <1>0, <1>10 DEF SessionExpires
  <1>11. ASSUME NEW s \in Scopes, KeyExpires(s)
         PROVE  AuthorityInv'
    BY <1>0, <1>11 DEF KeyExpires
  <1>12. ASSUME NEW u \in Users, NEW h \in Houses, NEW ro \in Roles, RoleChanges(u, h, ro)
         PROVE  AuthorityInv'
    <2> SUFFICES ASSUME NEW r \in Requests PROVE RoleIsSeen(r)' /\ Checked(r)'
      BY DEF AuthorityInv
    <2>1. /\ UNCHANGED <<req, inService, executed>> /\ authorized \subseteq authorized'
          /\ \A m \in Users \X Houses : role'[m] = IF m = <<u, h>> THEN ro ELSE role[m]
          /\ ~Over(r) /\ req[r].user = u /\ req[r].house = h /\ Suffices(ro, req[r].what)
               => r \in authorized'
      BY <1>12 DEF RoleChanges, Typed, GatewayTypeOK
    <2>2. Checked(r)'
      BY <2>1 DEF AuthorityInv, Checked, IsCommand, At
    <2>3. RoleIsSeen(r)'
      <3> SUFFICES ASSUME \/ req[r].pc \in {"authority", "reserve", "lookup", "call", "wait", "finish"}
                          \/ req[r].what = "switch" /\ req[r].pc \in {"target", "switch"},
                          May(req[r].user, req[r].house, req[r].what)'
                   PROVE  r \in authorized'
        BY <2>1 DEF RoleIsSeen
      <3>1. ~Over(r) /\ req[r].user \in Users
        BY DEF Over, Typed, LocalsAreSet, HasUser
      <3>2. CASE req[r].user = u /\ req[r].house = h
        BY <2>1, <3>1, <3>2 DEF May, AuthorityInv, RoleIsSeen
      <3>3. CASE ~(req[r].user = u /\ req[r].house = h)
        <4>1. May(req[r].user, req[r].house, req[r].what)
          BY <2>1, <3>1, <3>3 DEF May, Suffices
        <4> QED
          BY <2>1, <4>1 DEF AuthorityInv, RoleIsSeen
      <3> QED
        BY <3>2, <3>3
    <2> QED
      BY <2>2, <2>3
  <1> QED
    BY <1>1, <1>2, <1>3, <1>4, <1>5, <1>6, <1>7, <1>8, <1>9, <1>10, <1>11, <1>12
    DEF GatewayNext, Serve

-----------------------------------------------------------------------------
GatewayInv == Typed /\ KeyInv /\ SessionInv /\ AuthorityInv

LEMMA GatewayInvariant == GatewaySpec => []GatewayInv
  <1>1. GatewayInit => GatewayInv
    BY InitTyped, InitInvariants DEF GatewayInv
  <1>2. GatewayInv /\ [GatewayNext]_gatewayVars => GatewayInv'
    BY StepTyped, StepKeys, StepSessions, StepAuthority DEF GatewayInv
  <1> QED
    BY <1>1, <1>2, PTL DEF GatewaySpec

\* Sessions, reservations and the local variables of requests keep their kinds.
THEOREM GatewayTypeCorrect == GatewaySpec => []GatewayTypeOK
  <1>1. GatewayInv => GatewayTypeOK
    BY DEF GatewayInv, Typed
  <1> QED
    BY <1>1, GatewayInvariant, PTL

\* "never blindly repeat a dispatched RPC" (redis.go): while a key is remembered
\* one request at most of those that carry it is ever passed on.
THEOREM KeysExecuteOnce == GatewaySpec => []KeyExecutesOnce
  <1>1. GatewayInv => KeyExecutesOnce
    <2> SUFFICES ASSUME GatewayInv,
                        NEW r \in (inService \cup executed) \ expired,
                        NEW q \in (inService \cup executed) \ expired,
                        Keyed(r), Keyed(q), Scope(r) = Scope(q)
                 PROVE  r = q
      BY DEF KeyExecutesOnce
    <2>1. r \in Requests /\ q \in Requests /\ Holder(r) /\ Holder(q)
      BY DEF GatewayInv, Typed, GatewayTypeOK, Holder
    <2> QED
      BY <2>1 DEF GatewayInv, KeyInv, OneHolder
  <1> QED
    BY <1>1, GatewayInvariant, PTL

\* A command is passed on or a stored answer sent again (house_permissions.go),
\* and a house switched to, only for a user who had the role for it since the
\* request read its session.
THEOREM AuthorityHeld == GatewaySpec => []AuthorityWasHeld
  <1>1. GatewayInv => AuthorityWasHeld
    <2> SUFFICES ASSUME GatewayInv, NEW r \in Requests,
                        r \in Effective \/ (req[r].what = "switch" /\ At(r, "succeeded"))
                 PROVE  r \in authorized
      BY DEF AuthorityWasHeld
    <2>1. Checked(r)
      BY DEF GatewayInv, AuthorityInv
    <2> QED
      BY <2>1 DEF Checked, Effective, At
  <1> QED
    BY <1>1, GatewayInvariant, PTL

\* "SET XX KEEPTTL never resurrects a logged-out or expired session" (redis.go):
\* a request that arrives with such a token never gets past authenticate.
THEOREM NothingAfterEnd == GatewaySpec => []NothingAfterLogout
  <1>1. GatewayInv => NothingAfterLogout
    BY DEF GatewayInv, SessionInv, LateAreRefused, NothingAfterLogout, At
  <1> QED
    BY <1>1, GatewayInvariant, PTL

\* The gateway implements CommandOnce: what its clients may conclude from an
\* answer to a command with a key holds for all interleavings of requests.
THEOREM GatewayImplementsOnce == GatewaySpec => ImplementsOnce
  <1>1. GatewayInit => Once!OnceInit
    <2> SUFFICES ASSUME GatewayInit PROVE Once!OnceInit
      OBVIOUS
    <2>1. executed = {} /\ \A r \in Requests : ~At(r, "succeeded")
      BY DEF GatewayInit, Idle, At
    <2> QED
      BY <2>1 DEF Once!OnceInit
  <1>2. GatewayInv /\ [GatewayNext]_gatewayVars => [Once!OnceNext]_Once!onceVars
    BY StepRefines DEF GatewayInv
  <1> QED
    BY <1>1, <1>2, GatewayInvariant, PTL DEF GatewaySpec, ImplementsOnce, Once!OnceSpec

-----------------------------------------------------------------------------
(* Updates of MAX.                                                         *)

WebhookTypeOK ==
    /\ kind \in {"answer", "silent", "invalid"}
    /\ done \in BOOLEAN
    /\ lock \in Deliveries \cup {Free}
    /\ call \in [Deliveries -> {"none", "look", "lock", "send", "mark", "free", "unlock", "reply"}]
    /\ sent \in Nat /\ slips \in Nat /\ overtaken \subseteq Deliveries

\* The lock that is deleted whoever holds it is always the own one: a request
\* between its SETNX and its DEL has it.
Holding(d) == call[d] \in {"send", "mark", "free", "unlock"}
HoldersHaveTheLock == \A d \in Deliveries : Holding(d) => lock = d

\* Deliveries that have not found the marker and may still send an answer.
Late == {d \in Deliveries : call[d] \in {"lock", "send"}}
\* As long as there is no marker, every answer but the one about to be noted
\* was lost sight of.
BeforeTheMarker ==
    ~done => /\ overtaken = {}
             /\ (\A d \in Deliveries : ~Doing(d, "mark")) => sent <= slips
             /\ sent <= slips + 1
\* Afterwards only the overtaken deliveries add to them.
AfterTheMarker ==
    done => Late \subseteq overtaken /\ sent <= 1 + slips + Cardinality(overtaken \ Late)
SilentUpdates == kind # "answer" => sent = 0

LockInv == WebhookTypeOK /\ HoldersHaveTheLock
WebhookInv == LockInv /\ BeforeTheMarker /\ AfterTheMarker /\ SilentUpdates

-----------------------------------------------------------------------------
LEMMA InitLock == WebhookInit => LockInv
  <1> SUFFICES ASSUME WebhookInit PROVE LockInv
    OBVIOUS
  <1>1. WebhookTypeOK
    BY DEF WebhookInit, WebhookTypeOK
  <1>2. \A d \in Deliveries : call[d] = "none"
    BY DEF WebhookInit
  <1> QED
    BY <1>1, <1>2 DEF LockInv, HoldersHaveTheLock, Holding

LEMMA StepLock == LockInv /\ [WebhookNext]_webhookVars => LockInv'
  <1> SUFFICES ASSUME LockInv, [WebhookNext]_webhookVars PROVE LockInv'
    OBVIOUS
  <1> USE DeliveriesAssumption, SlipsAssumption
          DEF LockInv, WebhookTypeOK, HoldersHaveTheLock, Holding, Doing, Step
  <1>1. CASE UNCHANGED webhookVars
    BY <1>1 DEF webhookVars
  <1>2. ASSUME NEW d \in Deliveries, Deliver(d) \/ Look(d) \/ Reject(d) \/ Reply(d)
        PROVE  LockInv'
    BY <1>2 DEF Deliver, Look, Reject, Reply, webhookHistory
  <1>3. ASSUME NEW d \in Deliveries, TakeLock(d)
        PROVE  LockInv'
    BY <1>3 DEF TakeLock, Loser, webhookHistory
  <1>4. ASSUME NEW d \in Deliveries, SendAnswer(d)
        PROVE  LockInv'
    BY <1>4 DEF SendAnswer
  <1>5. ASSUME NEW d \in Deliveries, Mark(d)
        PROVE  LockInv'
    BY <1>5 DEF Mark, WriteMarker
  <1>6. ASSUME NEW d \in Deliveries, FreeLock(d)
        PROVE  LockInv'
    BY <1>6 DEF FreeLock, webhookHistory
  <1>7. ASSUME NEW d \in Deliveries, SendFails(d)
        PROVE  LockInv'
    BY <1>7 DEF SendFails, Unclear, Slip
  <1>8. ASSUME NEW d \in Deliveries, RequestFails(d)
        PROVE  LockInv'
    <2>1. kind' = kind /\ sent' = sent
      BY <1>8 DEF RequestFails
    <2>2. CASE Doing(d, "look") \/ Doing(d, "reply")
      BY <1>8, <2>1, <2>2 DEF RequestFails
    <2>3. CASE Doing(d, "lock")
      BY <1>8, <2>1, <2>3 DEF RequestFails
    <2>4. CASE Doing(d, "mark")
      <3>1. slips' \in Nat
        BY <1>8, <2>4 DEF RequestFails, Unmarked, Slip
      <3>2. done' \in BOOLEAN /\ overtaken' \subseteq Deliveries
        BY <1>8, <2>4 DEF RequestFails, WriteMarker
      <3>3. lock' = lock /\ call' = [call EXCEPT ![d] = "free"]
        BY <1>8, <2>4 DEF RequestFails
      <3> QED
        BY <2>1, <2>4, <3>1, <3>2, <3>3
    <2>5. CASE Doing(d, "free") \/ Doing(d, "unlock")
      BY <1>8, <2>1, <2>5 DEF RequestFails
    <2> QED
      BY <1>8, <2>2, <2>3, <2>4, <2>5 DEF RequestFails
  <1>9. ASSUME NEW d \in Deliveries, Crash(d)
        PROVE  LockInv'
    BY <1>9 DEF Crash, Unclear, Unmarked, Slip
  <1>10. CASE LockExpires
    BY <1>10 DEF LockExpires, Expirable, webhookHistory
  <1>11. CASE FaultsEnd
    BY <1>11 DEF FaultsEnd, webhookHistory
  <1> QED
    BY <1>1, <1>2, <1>3, <1>4, <1>5, <1>6, <1>7, <1>8, <1>9, <1>10, <1>11
    DEF WebhookNext, Handle

\* Two deliveries never talk to MAX at the same time, although the lock is
\* deleted without a look at its owner.
THEOREM AnswersOneAtATime == WebhookSpec => []OneAtATime
  <1>1. LockInv => OneAtATime
    BY DEF LockInv, HoldersHaveTheLock, Holding, OneAtATime
  <1> QED
    BY <1>1, InitLock, StepLock, PTL DEF WebhookSpec

-----------------------------------------------------------------------------
(* How often an update is answered.                                        *)

LEMMA DeliveriesAreFinite ==
    ASSUME NEW S \in SUBSET Deliveries, NEW T
    PROVE  Cardinality(S \ T) \in Nat
  <1>1. IsFiniteSet(S \ T)
    BY FS_Subset, DeliveriesAssumption
  <1> QED
    BY <1>1, FS_CardinalityType

LEMMA FewerLate ==
    ASSUME LockInv, LockInv', overtaken' = overtaken, Late' \subseteq Late
    PROVE  Cardinality(overtaken \ Late) <= Cardinality(overtaken' \ Late')
  <1>1. IsFiniteSet(overtaken' \ Late')
    BY FS_Subset, DeliveriesAssumption DEF LockInv, WebhookTypeOK
  <1>2. overtaken \ Late \in SUBSET (overtaken' \ Late')
    OBVIOUS
  <1> HIDE DEF Late
  <1> QED
    BY <1>1, <1>2, FS_Subset

\* Steps that neither answer unnoticed nor touch the marker.
LEMMA QuietStep ==
    ASSUME WebhookInv, LockInv', done' = done, overtaken' = overtaken, kind' = kind,
           UNCHANGED <<sent, slips>> \/ (kind = "answer" /\ sent' = sent + 1 /\ slips' = slips + 1),
           done => Late' \subseteq Late,
           \A d \in Deliveries : Doing(d, "mark") => Doing(d, "mark")'
    PROVE  WebhookInv'
  <1>1. sent \in Nat /\ slips \in Nat /\ sent' \in Nat /\ slips' \in Nat
        /\ (kind # "answer" => sent' = sent)
    BY DEF WebhookInv, LockInv, WebhookTypeOK
  <1>2. BeforeTheMarker'
    <2> SUFFICES ASSUME ~done
                 PROVE  /\ overtaken = {} /\ sent' <= slips' + 1
                        /\ (\A d \in Deliveries : ~Doing(d, "mark")') => sent' <= slips'
      BY DEF BeforeTheMarker
    <2>1. /\ overtaken = {} /\ sent <= slips + 1
          /\ (\A d \in Deliveries : ~Doing(d, "mark")) => sent <= slips
      BY DEF WebhookInv, BeforeTheMarker
    <2>2. CASE UNCHANGED <<sent, slips>>
      BY <2>1, <2>2
    <2>3. CASE sent' = sent + 1 /\ slips' = slips + 1
      <3>1. sent' <= slips' + 1 /\ (sent <= slips => sent' <= slips')
        BY <1>1, <2>1, <2>3
      <3> QED
        BY <2>1, <3>1
    <2> QED
      BY <2>2, <2>3
  <1>3. AfterTheMarker'
    <2> SUFFICES ASSUME done
                 PROVE  Late' \subseteq overtaken
                        /\ sent' <= 1 + slips' + Cardinality(overtaken' \ Late')
      BY DEF AfterTheMarker
    <2>1. /\ Cardinality(overtaken \ Late) \in Nat /\ Cardinality(overtaken' \ Late') \in Nat
          /\ Cardinality(overtaken \ Late) <= Cardinality(overtaken' \ Late')
      BY FewerLate, DeliveriesAreFinite DEF WebhookInv, LockInv, WebhookTypeOK
    <2>2. Late \subseteq overtaken /\ sent <= 1 + slips + Cardinality(overtaken \ Late)
      BY DEF WebhookInv, AfterTheMarker
    <2> QED
      BY <1>1, <2>1, <2>2
  <1>4. SilentUpdates'
    BY <1>1 DEF WebhookInv, SilentUpdates
  <1> QED
    BY <1>2, <1>3, <1>4 DEF WebhookInv

LEMMA PlusOne == \A m, n \in Nat : m <= n => m <= n + 1
  OBVIOUS

\* The answer has gone out and the marker is not written.
LEMMA UnmarkedStep ==
    ASSUME WebhookInv, LockInv', NEW d \in Deliveries, Doing(d, "mark"), Unmarked,
           \A e \in Deliveries : e # d => call'[e] = call[e], call'[d] \in {"free", "none"},
           UNCHANGED <<done, overtaken, kind, sent>>
    PROVE  WebhookInv'
  <1>1. sent \in Nat /\ slips \in Nat /\ slips' \in Nat /\ slips <= slips'
        /\ (kind = "answer" => slips' = slips + 1)
    BY DEF Unmarked, Slip, WebhookInv, LockInv, WebhookTypeOK
  <1>2. BeforeTheMarker'
    <2> SUFFICES ASSUME ~done PROVE overtaken = {} /\ sent <= slips' /\ sent <= slips' + 1
      BY DEF BeforeTheMarker
    <2>1. overtaken = {} /\ sent <= slips + 1 /\ (kind # "answer" => sent = 0)
      BY DEF WebhookInv, BeforeTheMarker, SilentUpdates
    <2>2. CASE kind = "answer"
      <3>1. slips' = slips + 1 /\ sent <= slips + 1
        BY <1>1, <2>1, <2>2
      <3>2. sent <= slips'
        BY <3>1
      <3> QED
        BY <1>1, <2>1, <3>2, PlusOne
    <2>3. CASE kind # "answer"
      <3>1. sent = 0
        BY <2>1, <2>3
      <3>2. slips' \in Nat
        BY <1>1
      <3>3. sent <= slips'
        BY <3>1, <3>2
      <3> QED
        BY <1>1, <2>1, <3>3, PlusOne
    <2> QED
      BY <2>2, <2>3
  <1>3. Late' = Late
    BY DEF Late, Doing
  <1>4. AfterTheMarker'
    <2>1. Cardinality(overtaken \ Late) \in Nat
      BY DeliveriesAreFinite DEF WebhookInv, LockInv, WebhookTypeOK
    <2> QED
      BY <1>1, <1>3, <2>1 DEF WebhookInv, AfterTheMarker
  <1> QED
    BY <1>2, <1>4 DEF WebhookInv, SilentUpdates

\* The marker is written, by the one delivery between its lock and its DEL.
LEMMA MarkerStep ==
    ASSUME WebhookInv, LockInv', NEW d \in Deliveries, Doing(d, "mark"), WriteMarker,
           \A e \in Deliveries : e # d => call'[e] = call[e], call'[d] \in {"free", "unlock"},
           UNCHANGED <<kind, sent, slips>>
    PROVE  WebhookInv'
  <1>1. sent \in Nat /\ slips \in Nat /\ done' /\ Late' = Late
    BY DEF WriteMarker, WebhookInv, LockInv, WebhookTypeOK, Late, Doing
  <1>2. /\ Cardinality(overtaken \ Late) \in Nat
        /\ Cardinality(overtaken' \ Late') \in Nat
    BY DeliveriesAreFinite DEF WebhookInv, LockInv, WebhookTypeOK
  <1>3. CASE done
    <2>1. overtaken' = overtaken
      BY <1>3 DEF WriteMarker
    <2>2. AfterTheMarker'
      BY <1>1, <1>3, <2>1 DEF WebhookInv, AfterTheMarker
    <2> QED
      BY <1>1, <2>2 DEF WebhookInv, BeforeTheMarker, SilentUpdates
  <1>4. CASE ~done
    <2>1. Late \subseteq overtaken'
      BY <1>4 DEF WriteMarker, WebhookInv, LockInv, HoldersHaveTheLock, Holding, Doing, Late
    <2>2. sent <= slips + 1
      BY <1>4 DEF WebhookInv, BeforeTheMarker
    <2>3. sent' <= 1 + slips' + Cardinality(overtaken' \ Late')
      BY <1>1, <1>2, <2>2
    <2> QED
      BY <1>1, <2>1, <2>3 DEF WebhookInv, AfterTheMarker, BeforeTheMarker, SilentUpdates
  <1> QED
    BY <1>3, <1>4

LEMMA SendStep ==
    ASSUME WebhookInv, LockInv', NEW d \in Deliveries, SendAnswer(d)
    PROVE  WebhookInv'
  <1>1. /\ Doing(d, "send") /\ call'[d] = "mark"
        /\ \A e \in Deliveries : e # d => call'[e] = call[e]
        /\ UNCHANGED <<kind, done, slips, overtaken>>
        /\ sent' = IF kind = "answer" THEN sent + 1 ELSE sent
    BY DEF SendAnswer, Step, WebhookInv, LockInv, WebhookTypeOK
  <1>2. sent \in Nat /\ slips \in Nat /\ sent' \in Nat /\ sent' <= sent + 1
    BY <1>1 DEF WebhookInv, LockInv, WebhookTypeOK
  <1>3. \A e \in Deliveries : ~Doing(e, "mark")
    BY <1>1 DEF WebhookInv, LockInv, HoldersHaveTheLock, Holding, Doing
  <1>4. BeforeTheMarker'
    <2>1. Doing(d, "mark")'
      BY <1>1 DEF Doing
    <2>2. ~done => sent <= slips /\ overtaken = {}
      BY <1>3 DEF WebhookInv, BeforeTheMarker
    <2> QED
      BY <1>1, <1>2, <2>1, <2>2 DEF BeforeTheMarker
  <1>5. AfterTheMarker'
    <2> SUFFICES ASSUME done PROVE Late' \subseteq overtaken /\
                                   sent' <= 1 + slips + Cardinality(overtaken \ Late')
      BY <1>1 DEF AfterTheMarker
    <2>1. Late \subseteq overtaken /\ sent <= 1 + slips + Cardinality(overtaken \ Late)
      BY DEF WebhookInv, AfterTheMarker
    <2>2. d \in Late /\ Late' = Late \ {d}
      BY <1>1 DEF Late, Doing
    <2>3. overtaken \ Late' = (overtaken \ Late) \cup {d} /\ d \notin overtaken \ Late
      BY <2>1, <2>2
    <2>4. IsFiniteSet(overtaken \ Late)
      BY FS_Subset, DeliveriesAssumption DEF WebhookInv, LockInv, WebhookTypeOK
    <2>5. Cardinality(overtaken \ Late') = Cardinality(overtaken \ Late) + 1
      BY <2>3, <2>4, FS_AddElement
    <2>6. Cardinality(overtaken \ Late) \in Nat
      BY <2>4, FS_CardinalityType
    <2> QED
      BY <1>2, <2>1, <2>2, <2>5, <2>6
  <1>6. SilentUpdates'
    BY <1>1 DEF WebhookInv, SilentUpdates
  <1> QED
    BY <1>4, <1>5, <1>6 DEF WebhookInv

LEMMA StepWebhook == WebhookInv /\ [WebhookNext]_webhookVars => WebhookInv'
  <1> SUFFICES ASSUME WebhookInv, [WebhookNext]_webhookVars PROVE WebhookInv'
    OBVIOUS
  <1>0. LockInv' /\ \A d, pc : Step(d, pc) /\ d \in Deliveries =>
           call'[d] = pc /\ \A e \in Deliveries : e # d => call'[e] = call[e]
    BY StepLock DEF WebhookInv, LockInv, WebhookTypeOK, Step
  <1>1. CASE UNCHANGED webhookVars
    BY <1>0, <1>1, QuietStep DEF webhookVars, Late, Doing
  <1>2. ASSUME NEW d \in Deliveries,
               Deliver(d) \/ Look(d) \/ TakeLock(d) \/ Reject(d) \/ FreeLock(d) \/ Reply(d)
        PROVE  WebhookInv'
    <2>1. UNCHANGED <<kind, done, sent, slips, overtaken>> /\ ~Doing(d, "mark")
      BY <1>2 DEF Deliver, Look, TakeLock, Reject, FreeLock, Reply, Doing, webhookHistory
    <2>2. /\ \A e \in Deliveries : e # d => call'[e] = call[e]
          /\ done /\ call'[d] \in {"lock", "send"} => call[d] \in {"lock", "send"}
      BY <1>0, <1>2 DEF Deliver, Look, Found, TakeLock, Loser, Reject, FreeLock, Reply, Doing
    <2>3. done => Late' \subseteq Late
      BY <2>2 DEF Late
    <2>4. \A e \in Deliveries : Doing(e, "mark") => Doing(e, "mark")'
      BY <2>1, <2>2 DEF Doing
    <2> QED
      BY <1>0, <2>1, <2>3, <2>4, QuietStep
  <1>3. ASSUME NEW d \in Deliveries, SendAnswer(d)
        PROVE  WebhookInv'
    BY <1>0, <1>3, SendStep
  <1>4. ASSUME NEW d \in Deliveries, Mark(d)
        PROVE  WebhookInv'
    BY <1>0, <1>4, MarkerStep DEF Mark
  <1>5. ASSUME NEW d \in Deliveries, UNCHANGED <<kind, done, overtaken>>, ~Doing(d, "mark"),
               Step(d, "none") \/ Step(d, "free") \/ (Step(d, "reply") /\ Doing(d, "unlock")),
               Unclear \/ UNCHANGED <<sent, slips>>
        PROVE  WebhookInv'
    <2>1. /\ \A e \in Deliveries : e # d => call'[e] = call[e]
          /\ call'[d] \in {"none", "free", "reply"}
      BY <1>0, <1>5
    <2>2. done => Late' \subseteq Late
      BY <2>1 DEF Late
    <2>3. \A e \in Deliveries : Doing(e, "mark") => Doing(e, "mark")'
      BY <1>5, <2>1 DEF Doing
    <2>4. UNCHANGED <<sent, slips>> \/ (kind = "answer" /\ sent' = sent + 1 /\ slips' = slips + 1)
      BY <1>5 DEF Unclear, Slip
    <2> QED
      BY <1>0, <1>5, <2>2, <2>3, <2>4, QuietStep
  <1>6. ASSUME NEW d \in Deliveries, SendFails(d)
        PROVE  WebhookInv'
    BY <1>5, <1>6 DEF SendFails, Doing
  <1>7. ASSUME NEW d \in Deliveries, RequestFails(d)
        PROVE  WebhookInv'
    <2>1. CASE Doing(d, "mark")
      <3>1. /\ Step(d, "free") /\ UNCHANGED <<kind, sent>>
            /\ (Unmarked /\ UNCHANGED <<done, overtaken>>) \/ (WriteMarker /\ slips' = slips)
        BY <1>7, <2>1 DEF RequestFails, Doing
      <3> QED
        BY <1>0, <2>1, <3>1, UnmarkedStep, MarkerStep
    <2>2. CASE ~Doing(d, "mark")
      <3>1. /\ UNCHANGED <<kind, done, overtaken, sent, slips>>
            /\ Step(d, "none") \/ (Step(d, "reply") /\ Doing(d, "unlock"))
        BY <1>7, <2>2 DEF RequestFails
      <3> QED
        BY <1>5, <2>2, <3>1
    <2> QED
      BY <2>1, <2>2
  <1>8. ASSUME NEW d \in Deliveries, Crash(d)
        PROVE  WebhookInv'
    <2>1. UNCHANGED <<kind, done, overtaken>> /\ Step(d, "none")
      BY <1>8 DEF Crash
    <2>2. CASE Doing(d, "mark")
      <3>1. Unmarked /\ UNCHANGED sent
        BY <1>8, <2>2 DEF Crash, Doing
      <3> QED
        BY <1>0, <2>1, <2>2, <3>1, UnmarkedStep
    <2>3. CASE ~Doing(d, "mark")
      <3>1. Unclear \/ UNCHANGED <<sent, slips>>
        BY <1>8, <2>3 DEF Crash
      <3> QED
        BY <1>5, <2>1, <2>3, <3>1
    <2> QED
      BY <2>2, <2>3
  <1>9. CASE LockExpires \/ FaultsEnd
    <2>1. UNCHANGED <<kind, done, call, sent, slips, overtaken>>
      BY <1>9 DEF LockExpires, FaultsEnd, webhookHistory
    <2> QED
      BY <1>0, <2>1, QuietStep DEF Late, Doing
  <1> QED
    BY <1>1, <1>2, <1>3, <1>4, <1>6, <1>7, <1>8, <1>9 DEF WebhookNext, Handle

LEMMA InitWebhook == WebhookInit => WebhookInv
  <1> SUFFICES ASSUME WebhookInit PROVE WebhookInv
    OBVIOUS
  <1>1. done = FALSE /\ overtaken = {} /\ sent = 0 /\ slips = 0
    BY DEF WebhookInit
  <1> QED
    BY <1>1, InitLock DEF WebhookInv, BeforeTheMarker, AfterTheMarker, SilentUpdates

\* The user is answered more than once only if an answer went out that could not
\* be noted, or if deliveries passed the look at the marker before it was written.
THEOREM RepeatsHaveCauses == WebhookSpec => []RepeatedAnswerHasCause
  <1>1. WebhookInv => RepeatedAnswerHasCause
    <2> SUFFICES ASSUME WebhookInv PROVE sent <= 1 + slips + Cardinality(overtaken)
      BY DEF RepeatedAnswerHasCause
    <2>1. sent \in Nat /\ slips \in Nat /\ IsFiniteSet(overtaken)
      BY FS_Subset, DeliveriesAssumption DEF WebhookInv, LockInv, WebhookTypeOK
    <2>2. /\ Cardinality(overtaken) \in Nat /\ Cardinality(overtaken \ Late) \in Nat
          /\ Cardinality(overtaken \ Late) <= Cardinality(overtaken)
      BY <2>1, FS_Subset, FS_CardinalityType
    <2>3. CASE done
      BY <2>1, <2>2, <2>3 DEF WebhookInv, AfterTheMarker
    <2>4. CASE ~done
      BY <2>1, <2>2, <2>4 DEF WebhookInv, BeforeTheMarker
    <2> QED
      BY <2>3, <2>4
  <1> QED
    BY <1>1, InitWebhook, StepWebhook, PTL DEF WebhookSpec
=============================================================================

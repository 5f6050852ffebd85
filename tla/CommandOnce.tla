------------------------------ MODULE CommandOnce ------------------------------
(***************************************************************************)
(* What max-gateway promises to a client that sends an Idempotency-Key     *)
(* with a command: as long as the key is remembered, the commands sent     *)
(* with it are executed at most once in all, and a client is told of       *)
(* success only if the command it sent is the one that was executed.       *)
(* Everything else - sessions, Redis, lost answers - is left to            *)
(* GatewayCommands, which implements this specification.                   *)
(***************************************************************************)
CONSTANTS Attempts  \* [request, scope, command]: the scope is a user, a house and a key

VARIABLES
    ran,    \* attempts that were executed and whose scope is still remembered
    told    \* attempts that were answered with success

onceVars == <<ran, told>>

Run(a) ==
    /\ \A b \in ran : b.scope # a.scope
    /\ ran' = ran \cup {a}
    /\ UNCHANGED told

Tell(a) ==
    /\ \E b \in ran : b.scope = a.scope /\ b.command = a.command
    /\ told' = told \cup {a}
    /\ UNCHANGED ran

\* After 24 hours the key may be used again.
Forget(a) ==
    /\ ran' = {b \in ran : b.scope # a.scope}
    /\ UNCHANGED told

OnceInit == ran = {} /\ told = {}
OnceNext == \E a \in Attempts : Run(a) \/ Tell(a) \/ Forget(a)
OnceSpec == OnceInit /\ [][OnceNext]_onceVars
=============================================================================

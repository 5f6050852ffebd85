------------------------------ MODULE MCMaxGateway ------------------------------
(* Small instances of the two parts of max-gateway that serve HTTP requests. *)
(* They share no key of Redis: a behaviour is one of the mini app's requests *)
(* or of the webhook, and the other part stands still in an initial state.   *)
EXTENDS GatewayCommands, Webhook

VARIABLE part

mcVars == <<gatewayVars, webhookVars, part>>

MCInit ==
    /\ GatewayInit /\ WebhookInit
    /\ \/ part = "requests" /\ kind = "invalid"
       \/ /\ part = "webhook" /\ session = [t \in Tokens |-> Nothing]
          /\ \A m \in DOMAIN role : role[m] = "none"

MCNext ==
    \/ part = "requests" /\ GatewayNext /\ UNCHANGED <<webhookVars, part>>
    \/ part = "webhook" /\ WebhookNext /\ UNCHANGED <<gatewayVars, part>>

\* MAX does not call while the webhook stands still.
MCFairness == part = "webhook" => WebhookFairness

MCSpec == MCInit /\ [][MCNext]_mcVars /\ MCFairness
=============================================================================

----------------------------- MODULE WebhookEdge -----------------------------
(***************************************************************************)
(* The webhook authorizer Lambda (src/lambda/webhook_authorizer) and the    *)
(* senders that call it.  A warm container handles one request at a time    *)
(* and keeps the integration secret that its first one loaded, or failed to *)
(* load.  A sender that does not see a 200 sends its webhook again.         *)
(*                                                                         *)
(* A handling is one step: nothing else reads what it writes, except the    *)
(* queue, to which it adds at most one message (`enqueued` says whether).   *)
(* Webhooks are signed, in time and well-formed; any other request is       *)
(* Stray.  Topics are left out.                                             *)
(***************************************************************************)
EXTENDS Naturals

CONSTANTS Webhooks,      \* what Shopify and Slack have to deliver
          Containers,
          MaxAttempts,   \* bound: how often a sender tries
          EnvSecret      \* whether the environment holds the secrets as well

VARIABLES
    cache,       \* _secret_cache of each container
    attempts,    \* requests sent for each webhook
    acked        \* webhooks whose sender has seen a 200

edgeVars == <<cache, attempts, acked>>

EdgeInit ==
    /\ cache = [c \in Containers |-> "cold"]
    /\ attempts = [r \in Webhooks |-> 0]
    /\ acked = {}

\* Mutant: the secret is cached as text, json.loads is missing.
LoadsText(c) ==
    cache' \in IF cache[c] = "cold"
               THEN {[cache EXCEPT ![c] = s] : s \in {"text", "empty"}}
               ELSE {cache}

\* _secret: the first request of a container loads the secret; a failed load is
\* kept as an empty one.
LoadsSecret(c) ==
    cache' \in IF cache[c] = "cold"
               THEN {[cache EXCEPT ![c] = s] : s \in {"loaded", "empty"}}
               ELSE {cache}

\* Without a secret nothing is valid.
Verifies(c) == cache'[c] = "loaded" \/ EnvSecret

\* The sender's next request reaches a container.
Sent(c, r) ==
    /\ r \notin acked /\ attempts[r] < MaxAttempts
    /\ attempts' = [attempts EXCEPT ![r] = @ + 1]
    /\ LoadsSecret(c)

\* 401: the container has no secret to verify with.
Refuses(c, r, enqueued) ==
    /\ Sent(c, r)
    /\ ~Verifies(c)
    /\ ~enqueued
    /\ UNCHANGED acked

\* Enqueued and answered with 200, which the sender may not see.
Enqueues(c, r, enqueued) ==
    /\ Sent(c, r)
    /\ Verifies(c)
    /\ enqueued
    /\ acked' \in {acked, acked \cup {r}}

\* Mutant: the exception is logged and the request answered with 200.
AckedAnyway(r) == acked \cup {r}

\* 500: what the sender has seen acknowledged stays as it was.
AnsweredWithError(r) == acked

\* send_message raised, or the Lambda timed out, maybe after it enqueued.
EnqueueFails(c, r, enqueued) ==
    /\ Sent(c, r)
    /\ Verifies(c)
    /\ acked' = AnsweredWithError(r)

LambdaHandler(c, r, enqueued) ==
    \/ Refuses(c, r, enqueued)
    \/ Enqueues(c, r, enqueued)
    \/ EnqueueFails(c, r, enqueued)

\* A request with a bad signature (401) or body, or of an unknown source (400),
\* or Slack's url_verification, which is answered with its challenge.
StrayRequest(c) ==
    /\ LoadsSecret(c)
    /\ UNCHANGED <<attempts, acked>>

\* AWS replaces the container.
Recycle(c) ==
    /\ cache[c] # "cold"
    /\ cache' = [cache EXCEPT ![c] = "cold"]
    /\ UNCHANGED <<attempts, acked>>

EdgeTypeOK ==
    /\ cache \in [Containers -> {"cold", "loaded", "empty"}]
    /\ attempts \in [Webhooks -> 0..MaxAttempts]
    /\ acked \in SUBSET Webhooks
=============================================================================

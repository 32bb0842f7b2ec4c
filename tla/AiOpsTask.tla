----------------------------- MODULE AiOpsTask -----------------------------
(***************************************************************************)
(* The ai.ops.task record (custom_addons/odoo_ai_ops/models/ai_ops_task.py) *)
(* and what each method of the model writes on it, as operators on one      *)
(* record.  Gatekeeper and the modules that compose with it hold the table. *)
(*                                                                         *)
(* Left out: reference, payload, analysis, agent_run_id, approver and       *)
(* message fields; nothing reads them to decide anything.                   *)
(***************************************************************************)
CONSTANT Orders          \* Shopify order ids

ASSUME OrdersAssumption == Orders # {}

States == {"draft", "queued", "running", "pending_approval", "approved",
           "rejected", "bypassed", "done", "failed"}
Levels == {"none", "low", "medium", "high"}
Decisions == {"approve", "reject"}

\* A row of the table; a row not created (or not committed) is "absent".
\* linked says that sale_order_id was found when the task was created.
Task == [order: Orders, risk: Levels, state: States \cup {"absent"},
         decision: Decisions \cup {"undecided"}, linked: BOOLEAN]

NoTask == [order |-> CHOOSE o \in Orders : TRUE, risk |-> "none",
           state |-> "absent", decision |-> "undecided", linked |-> FALSE]

Exists(t) == t.state # "absent"

NewTask(o, level, st, isLinked) ==
    [order |-> o, risk |-> level, state |-> st, decision |-> "undecided",
     linked |-> isLinked]

\* Waiting for the agent or for a manager.
InFlight == {"queued", "running", "pending_approval"}

\* Mutant: a dispatch that fails leaves the task queued.
StaysQueuedTask(t, answered) == IF answered THEN [t EXCEPT !.state = "running"]
                                ELSE t

\* dispatch_fraud_workflow: what the answer of the POST to the agent leaves.
DispatchedTask(t, answered) ==
    [t EXCEPT !.state = IF answered THEN "running" ELSE "failed"]

\* register_agent_run as the fraud graph calls it: no condition on the state.
RegisteredTask(t) == [t EXCEPT !.state = "pending_approval"]

\* ai_ops_set_approval: the decision is overwritten whatever the state was;
\* approved/rejected and done are written in the same transaction.
DecidedTask(t, d) == [t EXCEPT !.decision = d, !.state = "done"]

\* _cron_expire_stale_tasks: what it may expire, whatever the decision field
\* says, once the last write is older than its max_hours.
Expirable(t) == t.state \in {"running", "pending_approval"}
ExpiredTask(t) == [t EXCEPT !.state = "failed"]
=============================================================================

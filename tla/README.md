# TLA+ verification of odoo-ai-ops

This directory holds TLA+ models of the parts of odoo-ai-ops in which ordering,
failure and concurrency decide whether the system is right, the TLC
configurations that check them on small instances, and proofs (TLAPS) of the
most important results for every instance. `PROJECT.json` lists the runs, a
mutation of the code for every property that shows the property can fail, the
source lines each definition models, the hazards of the code, the
disagreements found, and the theorems.

In paths below, `A` is `src/agent/app` and `M` is
`src/custom_addons/odoo_ai_ops/models`.

    tlc -workers 2 -config Gatekeeper.cfg Gatekeeper.tla   # a run
    tlapm GatekeeperProofs.tla                             # the proofs

## The system

Shopify and Slack call a Lambda behind an API gateway. It verifies the
signature and puts the body on an SQS queue. Every replica (1 to 4) of the
FastAPI agent polls the queue with an `SqsWorker`. A Shopify webhook is forwarded
to an Odoo controller. A Slack click resumes a LangGraph workflow that paused in
Valkey for a manager's decision. Odoo starts such workflows over HTTP, the agent
writes their outcome back over JSON-RPC, and either calls Shopify, Slack or the
model.

     Shopify, Slack -> Lambda -> SQS -> SqsWorker -+-> Odoo controllers -> order intake, order risk
                                         |         |                      |        |
                                         |         +-> resume (click)     |        v
                                         v                  |             |     Shopify
                                    dead letters            v             v        ^
                                          Valkey <-> fraud / reconciliation graph  |
                                                            |                      |
                                                            +-> ai.ops.task, ai.ops.inventory

No component has a lock or a transaction in common with another. Whatever is
exactly-once in the system comes from a field that is read before it is written,
in a database transaction, a checkpoint or a receipt.

### Components

| Component | State | Operations | Hard behaviour | Correct when | Module |
|---|---|---|---|---|---|
| Fraud gatekeeper, `M/ai_ops_order_risk.py` | rows of `ai.ops.task` and `sale.order`; open transactions | `process_webhook`: skip, auto-reject, benign, escalate | parallel deliveries of a verdict; a verdict that overtakes the order; POST and Shopify calls inside a transaction that may roll back | no escalation lost, no order reviewed twice, none cancelled without cause | Gatekeeper |
| Task, `M/ai_ops_task.py` | state, decision | dispatch, register, decide, re-dispatch, buttons, hourly cron | callbacks in any order and of several runs | an open task is always closed in the end; a decision is final | AiOpsTask, Gatekeeper |
| Fraud graph, `A/graph/fraud_graph.py`, `A/runtime.py` | checkpointed thread, executions, Slack card | nodes, interrupt, resume | two executions of one thread; a crash between a call and its checkpoint; redelivered and double clicks | one decision per run, no click lost, the card tells the truth | ApprovalGraph, AgentRun |
| SQS worker, `A/sqs_worker.py`, `A/main.py` | queue, visibility, batch, loop of each replica | receive, handle, delete, stop, crash, restart | slow handlers; failing deletes; replicas that stop amid a batch | deleted only when handled, dead-lettered only when exhausted, settled in the end | SqsWorker, Delivery |
| Slack client, `A/slack_client.py` | card | post, update | calls that fail | as above | calls in ApprovalGraph and Reconciliation |
| Odoo JSON-RPC client, `A/odoo_client.py` | uid | authenticate, execute_kw with one retry | lost answers; a retry of a call that had an effect | a repeated call has no further effect | calls; the retry in Reconciliation |
| Order intake, `M/ai_ops_order_intake.py` | partners, products, orders, open transactions | `process_order_create`: duplicate, import, failure early or late; commit, rollback | parallel and repeated deliveries; a 500 answer that commits | an order the agent is done with is in Odoo; nothing is created twice | OrderIntake, OrderPipeline |
| Reconciliation graph, `A/graph/reconciliation_graph.py` | thread, tool budget, proposed patch | gather, investigate, propose, notify, await, apply | a bounded loop with a model; decision before write; failing writes | nothing written without approval, nothing reported that did not happen | Reconciliation, WriteGate |
| Inventory, `M/ai_ops_inventory.py` | quants and their journal, approved tasks, Shopify's levels | `_require_approved_task`, apply, push, `discrepancy_context`, `warehouse_moves`, `ledger_check` | an approval that is not consumed; quantities that go stale; two systems that count differently | a write is approved and means what the proposal said; the evidence tells the truth | Reconciliation (gate), Stock (quantities) |
| Webhook authorizer, `src/lambda/webhook_authorizer` | cached secret | verify, enqueue | a failed load that is cached; an enqueue with a lost answer | what is acknowledged is in the queue | WebhookEdge, OrderPipeline |
| Shopify client (Odoo service) | – | cancel an order, read and set quantities, subscribe webhooks | lost answers; rounding | as the callers need | `CancelInShopify` of Gatekeeper, `WriteStock` of Reconciliation, `PushInventoryToShopify` of Stock |
| PII redaction (Odoo service) | – | redact | – | – | not modelled |
| Settings, telemetry, LLM factory, schemas, security, health, deployment | configuration | – | – | – | parameters only |

## The models

### AiOpsTask and Gatekeeper

`AiOpsTask` is one row of `ai.ops.task` and what each method writes on it.
`Gatekeeper` is the table, the transactions that create rows, and everything
that changes them.

A webhook is handled in two steps, because two Odoo workers may handle verdicts
of one order at the same time. `Evaluate` is the body of `process_webhook` on
its snapshot: exactly one of `SkipDuplicate`, `AutoRejectOrder` (path A),
`RecordBenign` (path B) and `Escalate` (path C), with its calls to Shopify and
the agent. `Commit` makes its rows visible; `Rollback` forgets them, but not
what was sent. Odoo works at REPEATABLE READ, where a transaction that wrote a row
another one changed since its snapshot must roll back: field `stale`. A call has
the outcomes it has in reality: it worked, it did not, or it did and the
answer was lost. A dispatch that fails leaves the task `failed` and answers
500, *and commits*.

The agent is what Odoo can see of it: `RunNotifies`, `RunDecides`, `RunDies`. The
buttons (`OdooDecides`, `Redispatch`) have the guards of the form view, and the
cron (`ExpireStaleTasks`) may find any set of open tasks old.

Names of states, levels and decisions are the code's. Left out: references, analysis
text, logged messages, amounts (`cheap` is the comparison with the threshold),
and webhooks without an order id, which skip the dedup guard.

### ApprovalGraph and AgentRun

`ApprovalGraph` is one run of the fraud graph: the background task that goes
from triage to the pause, and every click afterwards. An element of `Handlers`
is a slot for an execution, on any replica. The checkpoint (`thread`) names the
node at which the next invocation starts. That is how `runtime.resume` and
LangGraph work together: `resume` reads `snapshot.next` (`Resume`,
`RefuseResume`), and `ainvoke` loads the checkpoint again in a later await
(`ResumeAt...`). Odoo is called in `finalize` while the checkpoint of the
decision may not have been written (`SaveDecision`). `Abort` ends an execution anywhere,
and a click's message is then left in the queue, to be received up to
`MaxReceives` times. LangGraph, Valkey and Slack are external and marked so in
the map.

`AgentRun` is the contract between the two sides. `Gatekeeper` assumes of a run
no more than its steps; the property `HonoursContract` says that `ApprovalGraph`
implements it, under a refinement mapping that reads "analyzing", "waiting" and
"over" off the checkpoint, the card and the executions. Other runs of the same task
are left to Gatekeeper, where a task may have several.

### SqsWorker and Delivery

`SqsWorker` has one action per await of `_handle` and `run`, for every replica
and message, together with the queue's visibility timeout and redrive policy
(external, configured in `terraform/modules/webhooks/main.tf`), and with what
`lifespan` and the ECS service do: `Stop`, `Exit`, `Start`. `delete_message` uses
the receipt of its own receive, so a late one may have no effect.

`Delivery` is the abstract specification: a message is deleted only when some
handling succeeded or its body is malformed, and dead-lettered only after all its
receives. `DeliversAtLeastOnce` is `INSTANCE Delivery`: the same variables, with
visibility, batches and replicas hidden. `Gatekeeper` (a verdict in `sent` may arrive
any number of times) and `ApprovalGraph` (a click is received at most
`MaxReceives` times) rely on no more than that.
Left out: the queue's retention of four days.

### OrderPipeline: WebhookEdge, Delivery, OrderIntake

`OrderPipeline` composes the way of an orders/create webhook. A step of the
pipeline is a conjunction of steps of its parts.

- `WebhookEdge` is the Lambda and its senders. A container keeps the secret that its
  first request loaded, or an empty one if that failed (`LoadsSecret`). Then nothing it
  receives is valid, until AWS recycles it, unless the environment holds the
  secrets too (`EnvSecret`). A request is refused, enqueued and acknowledged (which the
  sender may not see), or answered with 500 although it may be in the queue.
- `Delivery` is the queue with the agent's workers, as `SqsWorker` implements it.
  Each attempt of a sender that is enqueued is a message, each receive of a message a
  delivery to Odoo. The agent gives a delivery up after its client's timeout (`Fails`),
  whatever Odoo then does.
- `OrderIntake` is the import. `Ran` is the body of `process_order_create` on its
  snapshot, in the forms the code gives it: `FindsDuplicate`, `Imports`, `FailsEarly` and
  `FailsLate` (before and after the `sale.order` was created), `Refused`. The
  controller turns an exception into a 500 *response*, so `Commit` also commits what a
  failed import had done. No two transactions write the same row, so none conflicts.

Every order is of one customer, with the same new SKUs: what may be created twice,
is. Whether an order was confirmed or stayed a draft is not told apart.

### Reconciliation and WriteGate

`Reconciliation` is one reconciliation task with the runs that are started for it: by
the product's button, or again from the form. Up to the pause there is one action per
node, with the model's choice to ask for tools (`Investigate`) and the budget that ends it
(`Offered`, `Counted`). `resume` and the checkpoint work as in `ApprovalGraph`. `apply` is
split at its awaits: the decision is persisted (`SetApproval`), the stock written
(`WriteStock`, `WriteRaises`), a failure flagged (`FlagFailed`), and the outcome posted
(`Confirm`). The gate of Odoo (`GateOpen`) is evaluated anew in every write, and
`execute_kw` repeats a call that Odoo answered with an error. A proposal is a stock write
or none; `apply_inventory_patch` and `push_inventory_to_shopify` stand behind the same
gate and are one action here. Their quantities are in `Stock`.

`Buttons` are the decisions a manager can send to a run. The message that `notify` posts
has none, so in the program as it is deployed the set is empty, and the run
`reconciliation_stuck` shows what follows. `runtime.resume` accepts decisions of a
reconciliation, and its tests send them; the run `reconciliation` checks that path with both.

`WriteGate` is the abstract specification: who answered what, what Odoo holds, and writes
that need both an approval of the run and an approval of the task. It does
not say that an approval is used once: the gate only reads it. What keeps a redelivered
approval from being applied again is the run's checkpoint, and `AnswersAreObeyed` says how far:
a run whose executions did not overlap writes at most twice (the call and its repetition by
`execute_kw`) for its last execution, and twice for each that was cut short before. A run whose
executions overlapped may write as often as it is resumed.

That a model which is offered no tools calls none is an assumption, and the code's own
(`reconciliation_graph.py:339`): `route_investigation` would follow such a call, and
`InvestigationEnds` would then rest on LangGraph's recursion limit, which is not modelled.

### Stock

`Stock` is one product: Odoo's quants, the `stock.move` journal that Odoo keeps of
them, Shopify's level in each of its locations, the setting that names the location
that feeds Shopify, and one investigation with its write. Odoo's own part
(validated moves, counts, and code that writes a quant past the journal) is
external. What the repository computes is a definition each: `Kind`
(`_move_kind`), `WarehouseMoves` with its search domain, limit and later filter,
`ExpectedFromMoves` and `Balanced` (`ledger_check`), `OnHand` and `Ambiguous`
(`_odoo_on_hand_for_shopify`), `Available`, `Rounded`, and the two writes.

Everybody works on between `Gather` and the write; `fresh` records whether anything
changed. Quantities are in halves of a unit, so that the rounding of the push shows. The
model may propose any quantity to either system (`Propose`), positive or negative, warned or
not, and the write takes it. That it pushes Odoo's on-hand, and writes nothing after a
warning about the scope, is what its prompt asks of it; no code checks either.

What the properties of this module leave open, because the code does:

- A push of any other quantity than the on-hand that was compared, or after a warning, offers
  what the model wrote. `OversellingIsExplained` is about the pushes the prompt allows
  (`PushesCompared`), and says for which reasons they may still offer more than the shop
  has. The first is that something changed between the investigation and the push. The others
  are the next two points.
- A push sets the first of Shopify's levels, and `get_available_inventory` sums them
  all: what the others hold comes on top.
- With no location configured and all the stock in one back warehouse there is no
  warning, and a push offers that stock. The code takes the totals for comparable in this case
  (`ai_ops_inventory.py:610-612` and `653-656`), which they are only if that location feeds
  Shopify.
- `warehouse_moves` finds adjustments and scraps behind any number of other moves, but
  transfers, receipts and shipments only among the newest: `FlaggedMovesAreFound` is
  about the former.
- A location has one quant here. `apply_inventory_patch` sets the first of several (lots,
  packages, owners), so the correction of such a location does not make its on-hand the
  counted one.

## The runs

| Run | Instance | Checks | States |
|---|---|---|---|
| gatekeeper | a `pending` and a `high` verdict, 2 workers, 2 tasks, 1 run, cron for ever | `TypeOK`, `EscalationRecorded`, `CancelJustified`, `OpenTasksExpire`, `UniqueReview`, `ReviewsEnd` | 332,126 |
| gatekeeper_decided | 1 worker, 2 tasks, 3 runs | `DecidedIsTerminal` is violated | |
| approval | 2 clicks, 2 executions at a time, 2 receives, 1 abort | `TypeOK`, `SerialDecisionsAgree`, `CardAgrees`, `ClicksAreUsed`, `OverForGood`, `HonoursContract`, `PausedRunIsDecided` | 564,172 |
| approval_double | 2 clicks, 2 executions, no abort | `SecondDecisionIsNoOp` is violated | |
| orders | 1 webhook sent at most twice, 2 receives, 2 transactions | `TypeOK`, `AcknowledgedIsQueued`, `HandledIsImported`, `ImportedOnce`, `CatalogTidy`, `AcknowledgedIsSettled` | 170,469 |
| orders_lost | 1 message received twice, 2 SKUs | `NeverLosesAnOrder` is violated | |
| reconciliation | 1 run, both answers, 2 executions at a time, 2 deliveries, 1 abort, 2 tool turns | `TypeOK`, `AnswersAreObeyed`, `ReplyIsTrue`, `WritesAreGated`, `InvestigationEnds` | 106,008 |
| reconciliation_stuck | 1 run, no buttons | `ApprovalIsApplied` is violated | |
| stock | a shop, a back warehouse and a cage outside both, 2 levels in Shopify, 2 moves, 1 direct write | `TypeOK`, `LedgerTells`, `KindsAddUp`, `FlaggedMovesAreFound`, `OversellingIsExplained`, `CorrectionIsMade` | 2,836,608 |
| stock_elsewhere | the same, the back warehouse being the first | `ConfiguredCorrectionIsMade` is violated | |
| sqs | 2 replicas, a webhook and a malformed body, 2 receives | `TypeOK`, `OneHandlerAtATime`, `DeliversAtLeastOnce`, `MessagesSettle` | 102,256 |
| sqs_dies | 1 replica, 1 message | `PollsContinuously` is violated | |

Why these bounds are enough to be interesting:

- **gatekeeper.** Everything is per order, so there is one. A benign and a risky verdict
  in parallel need two workers and two tasks. Several runs of one task are in
  `gatekeeper_decided`, and in the proofs.
- **approval.** Two executions are the fewest that overlap. Two receives and one abort give
  every crash a redelivery, and `MaxReceives > MaxAborts` is what
  `PausedRunIsDecided` needs: a click whose every receive is cut short is
  dead-lettered and decides nothing.
- **orders.** Two attempts and two receives give an order up to four deliveries, of which Odoo
  begins two: the fewest of which one can find, miss or overlap the other. Orders that
  share a customer and products, and several SKUs, are in the proofs.
- **reconciliation.** `MaxToolLoops` is 2 instead of 6, which takes the loop through a turn
  with tools, a last turn with tools, and one without. A second run of the task, which an
  approval left behind by the first could open the gate for, is in the proofs.
- **stock.** Two moves are the fewest of which one can hide the other from a search with a
  limit of one, or take away what the other brought. Amounts of half a unit and counts of
  one and a half meet both directions of the rounding.
- **sqs.** Two replicas and two receives are the fewest in which one message is handled
  twice at once and may then be exhausted; a malformed body takes the other branch.
- Handlers are symmetric in `approval_double`, which checks safety only; runs with a
  liveness property use no symmetry.

Deadlock is checked in the sqs runs, where a replica can always act. The other
models stop when their bounded supply of tasks, runs, clicks, deliveries or moves is used up.

### Fairness

- **gatekeeper:** only the cron. Odoo's scheduler runs it hourly and it takes every
  task whose last write is old. A task that is written again and again is young, but
  weak fairness of `ExpireStaleTasks({t})` still applies, because writes to one task are
  bounded by the runs and buttons. Nothing is assumed of the agent, of managers or of
  Shopify, so `ReviewsEnd` holds although each may be silent for ever.
- **approval:** an event loop runs every execution on (`Step`), LangGraph writes its
  checkpoint (`SaveDecision`), and the workers deliver what is receivable
  (`Deliver`), which is what `SqsWorker` shows. Nothing is assumed of managers.
- **orders:** the workers poll, which is what `SqsWorker` shows, and the agent's HTTP
  client has a timeout. Nothing is assumed of Odoo, of AWS or of the senders, so
  `AcknowledgedIsSettled` holds although Odoo may never answer.
- **reconciliation, reconciliation_stuck:** the event loop runs every execution on,
  and LangGraph writes its checkpoint. Nothing is assumed of managers or of deliveries.
- **sqs, sqs_dies:** every call in a handler has a timeout, a replica told to stop
  exits (`lifespan` waits 30 s), and ECS replaces it. Visibility timeouts run out. Strong
  fairness of receiving a message is what SQS gives a queue that is polled for ever:
  receiving is disabled and enabled again as the loop handles batches.

## What is proved

The modules `...Proofs` hold for every value of the constants: any sets of orders,
verdicts, workers, messages, replicas, executions and clicks, and every bound. Each proves
an inductive invariant `IInv`, with one lemma per action or per group of
actions that change the same things, and draws the theorems from it. TLC checked each
`IInv` on the instances above before it was proved.

**Gatekeeper** (assumptions: `Orders` and `Verdicts` are not empty, the bounds are
naturals, `AutoReject` is a Boolean):
`TypeCorrect`, `ReviewIsUnique`, `EscalationsAreRecorded`,
`CancellationsAreJustified`, `NoTaskIsForgotten`.

None of the properties is inductive. The invariant rests on one observation: the
tasks of an order that can block are those that record a risky verdict
(`RiskyTasks`), and that set only grows. The strengthening says it in parts.

- `RiskyRowsBlock`, `RowsOK`: a committed risky task blocks or has failed, and an order
  with a failed task is `flawed`; a benign one is done and undecided for ever, and
  no row stays queued.
- `SecondTaskConflicts`: why can a second worker that saw no task of the order not
  commit one? An open transaction that inserts a risky task for an order in good standing
  wrote the sale.order, and is stale unless there is no risky task yet: the first
  to commit wrote the level on the same row, and `Commit` marks everyone else who did.
  This is why orders that were evaluated before their import must be excluded:
  there is then no row to conflict on, and two reviews may start.
- `OneRiskyTask`: hence there is at most one such task, which gives `UniqueReview`.
- `Witnessed`: a level on the sale.order, an answered verdict and an open transaction that
  skipped a duplicate each imply a risky task. It gives `EscalationRecorded`.
- `TxOK`, `NewRowOK`, `DistinctIds`, `RunsOK`: what open transactions and
  runs can look like: an inserted row has an id nobody else has, so a commit
  overwrites nothing.

There is one lemma per action. Actions on existing rows (`SetApproval`, `Redispatch`,
the cron, `RunNotifies`) share `RowStep`: such a step changes neither the identity
nor the risk of a row, and either fails it (and flaws its order) or leaves a risky one blocking.

**SqsWorker** (`Malformed` is a subset of `Messages`; `MaxReceives` and `MaxBatch` are
positive): `TypeCorrect`, `HandlersAreExclusive` and `ImplementsDelivery`,
from an invariant in which a message somebody holds in time is in the queue *and* hidden
(`HeldIsHidden`), so that nobody else can receive it, and what is being deleted was
handled or is malformed (`HeldWasReceived`). The refinement proof maps each step of
`SqsWorker` to a step of `Delivery` or a stutter.

**ApprovalGraph** (`Orders` and `Handlers` are not empty, the bounds are naturals):
`SerialDecisions`, `CardsAgree`, `ClicksUsed`, `OverStaysOver`, `TypeCorrect` and
`ContractHonoured`, which closes the circle: what Gatekeeper assumes of a run is what a run
does. The properties speak of decisions that Odoo committed, and nothing in the
checkpoint is written in the same step as those. The invariant relates the two as
long as executions do not overlap (`Alone`). `ExecOK` says how far the checkpoint
is behind the execution under way. `Committed(d)` says that a decision that was sent
to Odoo is in the checkpoint of a decided thread, or in the hands of an execution that
has called Odoo and not yet been checkpointed (`Pending`), or that the checkpoint has
expired and nobody can resume. An execution cut short in between loses it; `Abort` records
that in `disturbed`. `Quiet` covers what happens before the first card: nobody can click,
so there is one execution. It is what makes the thread's loss before the pause
final.

**Reconciliation** (the bounds are naturals, `Buttons` is a set of decisions): `WritesGated`,
`AnswersObeyed`, `RepliesAreTrue` and `TypeCorrect`. `WritesGated` is a refinement: any
number of runs of one task, their executions, redeliveries and the retries of
`execute_kw`, with Odoo's gate, implement `WriteGate`. The invariant has one part for
each run (`RunOK`) and one for each execution, and the same relation between checkpoint and
execution as above, refined by where `apply` stands. `AnswersObeyed` adds an account of the
writes (`CountInv`): before an execution of an undisturbed run calls a write, the run has
written at most twice for every execution that was cut short (`SpentOK`), and when none is past
the decision, it has either ended or written no more than that (`UsedOK`). A step of one
execution disturbs no other account (`CountStep`), because executions of one run that
overlap make it disturbed.

**OrderPipeline** (the bounds are naturals, `MaxReceives` is positive): `AcknowledgedIsInQueue`,
`ForwardedIsImported`, `OrdersImportedOnce`, `CatalogStaysTidy` and `TypeCorrect`. A
transaction counts as done while it is open (`MadeSale`, `MadePartner`, `MadeProduct`): who
begins after its commit finds its rows, and who begins before it overlaps it. That invariant
is what "deliveries that do not overlap" needs, and it does not
mention in which order transactions commit. `ImportOK` says that an answer of 200 leaves a
committed order behind, though not always a whole one.

**Stock** (the locations of Odoo and of Shopify are finitely many, and none is
called "loss"; no partner's usage is "internal"; `Main` and `Feeds` lie in the tree of
a warehouse; amounts are positive, counts, units and targets naturals, `MaxLimit` is positive):
`TypeCorrect`, `GapIsExact`, `LedgerIsTruthful`, `KindsAccount`, `FlaggedFound`,
`SearchIsBounded`, `SearchIsComplete`, `OversellingHasReasons` and `CorrectionMade`, for any
locations, partners and amounts, and any number of moves and direct writes.

The properties are about sums over moves and quants, and the sums are folds: recursive
functions on sets that choose an element at each step. `StockSums` proves what they compute: that
such a function exists and is unique, what adding a member, a disjoint union, a change of one
value or a renumbering of the set does to the sum. Each needs an induction, and the induction theorems of the
library take a predicate as a parameter, which the provers cannot instantiate. `StockSums`
takes a least counterexample instead: `LeastNatural` and `MinimalSet` draw it
from the well-foundedness of `<` and of the strict subsets of a finite set, which are
facts about sets.

The invariant has three parts besides the types.

- `GapIsTampered`: quants = ledger + what was written past it. `LedgerTells` says only when
  the gap is zero, and that is not inductive: two direct writes may cancel out. One lemma per
  action shows it kept: a validated move is removed and appended, so the sum is
  renumbered (`ExpectedAfterRemoval`), and changes two quants or one.
- `MovesAreShaped`: an adjustment goes from or to the inventory loss and is never a scrap; a scrap
  leaves an internal location. Without it the flags, which `_move_kind` looks at first, would
  hide a direction (`KindOfMove`), and `KindsAddUp` would not follow.
- `RunIsRight`: while nobody else changes a quantity, what the run read is still so, and so is
  what it wrote. `OversellingHasReasons` and `CorrectionMade` follow with facts about sums of which
  all but one member is zero (`SumAlone`) or none is. The former presumes what the prompt asks of
  the model, as above, and nothing else about what it proposes.

`SearchIsComplete` is the other half of what `FlaggedMovesAreFound` says of adjustments
and scraps: for the kinds that are narrowed after the limit, and for a search without kinds, which filters
nothing, a move is missed only if the ledger has more done moves than the limit.

**Consequences of the refinements.** What an abstract specification promises is proved of it
and carries over by the refinement theorem, without another look at the detailed one:
`NothingIsLost` and `SettledStaysSettled` (from `Delivery`), `EachRunIsApproved` (from
`WriteGate`), `DecisionsAreManagers` (from `AgentRun`).

**Only model-checked:** the liveness properties `ReviewsEnd`, `PausedRunIsDecided`,
`AcknowledgedIsSettled`, `InvestigationEnds` and `MessagesSettle`: liveness under fairness
and ENABLED are out of the prover's reach. Every other property of a passing run is a
theorem.

## What was found

1. **A decided task can be reviewed again** (`gatekeeper_decided`).
   `ai_ops_order_risk.py:121-122` calls a decided task terminal. `register_agent_run`
   writes the state whatever it was: a run that notifies after the decision puts the task
   back to `pending_approval`, the cron fails it, a failed task does not block, and the
   next verdict dispatches another review.
2. **A double click can decide twice** (`approval_double`). `runtime.resume` checks the
   snapshot and invokes the graph in separate awaits; two clicks handled at once both pass,
   although the comment at `runtime.py:162-167` and the test
   `test_llm_and_graph.py:111` say that the second is a no-op. `SerialDecisionsAgree`
   states, and the run `approval` checks, what does hold: clicks that do not overlap never disagree.
3. **An order can lose its items** (`orders_lost`). `ai_ops_order_intake.py:14-16` promises
   never to lose an order, because a hard failure is redelivered. The controller answers
   500 without rolling back, so the `sale.order` that was created before the failure stays;
   the redelivery finds it, answers "duplicate", and the message is deleted.
   `HandledIsImported` states what does hold: this is the only way.
4. **A failed delete ends a worker's poll loop** (`sqs_dies`). `_delete` is outside the
   `try` of `_handle`, and `gather` outside that of `run`. Nothing watches the task and
   `/healthz` stays ok. `MessagesSettle` holds because some other loop survives.
5. **An approved reconciliation is never applied** (`reconciliation_stuck`).
   `docs/Architecture.txt:114` and the docstring of the graph have the agent resume on
   approval and write. The proposal is posted as text without buttons, only a button
   resumes a run, and Approve on the Odoo task resumes nothing: the task ends done and
   approved, and the stock stays as it was.
6. **A correction may be written elsewhere** (`stock_elsewhere`). The investigation compares
   the on-hand of the configured Shopify location; the approved correction is written
   without a location, to the stock location of the company's first warehouse.
   `CorrectionIsMade` states when it is the right one.

A limit the code accepts, and no finding: `finalize` logs a failed
`set_approval` and updates the card all the same, so a card may claim a decision that Odoo never took,
and the thread is over. `CardAgrees` is what holds: Odoo has then taken no *other* decision.

## Where the properties stop

Some hazards are in the code with nothing to prevent them. The properties then say that this
is the only way for the harm to happen, and do not forbid it:

- a click on a card whose run was cut short before its pause was checkpointed posts the card
  again and is used up (`ClicksAreUsed`);
- a message whose handling outlasts the visibility timeout is handled twice at once
  (`OneHandlerAtATime`); what it does to the queue is in `DeliversAtLeastOnce`;
- deliveries of an order that overlap may import it, its customer or its products twice
  (`ImportedOnce`, `CatalogTidy`);
- executions of one run that overlap, or one that is cut short between its call to Odoo and its
  checkpoint (`disturbed`), may decide or write twice, or differently (`SerialDecisionsAgree`,
  `CardAgrees`, `AnswersAreObeyed`, the second half of `ReplyIsTrue`);
- a webhook that the Lambda refuses, for an empty cached secret or any other reason, is not
  acknowledged: how long its sender repeats it is outside the code.

## Not modelled

- **PII redaction** (`services/pii.py`): a sequential rewriting of text by regular
  expressions, without state. Its properties are about characters, and its tests enumerate
  them.
- **`sync_webhooks`** (`services/shopify_client.py`): a button that creates or updates
  subscriptions one by one. A failure half-way is repaired by pressing it again; a stale
  subscription beside a good one makes duplicates, which `ImportedOnce` covers.
- **Readers of `ai.ops.inventory`** that answer rows for the model to read
  (orders, receipts, quants): they change nothing and promise nothing but their domain.
- **The callback controller** in `controllers/webhook.py` that nothing in the repository calls.
- **Deployment** (`terraform`, `templates`): start-up and provisioning scripts run once, by one task
  at a time (the Odoo service has a desired count of 1), and check for what they
  create. What matters to the models, the redrive policy and the replacement of tasks, is a
  parameter or a fairness assumption of `SqsWorker`.
- **Operator scripts, telemetry, the LLM factory, request schemas, the bearer check, the health
  route, forms and layout**: no state that a property depends on.
- **Liveness of imports**: that an acknowledged order is imported in the end needs an Odoo that
  answers in time, which nothing in the code provides for; `AcknowledgedIsSettled` says that it
  is imported or in the dead-letter queue, where an operator finds it.

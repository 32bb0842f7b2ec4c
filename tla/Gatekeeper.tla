----------------------------- MODULE Gatekeeper -----------------------------
(***************************************************************************)
(* Odoo's fraud gatekeeper and the life of a fraud review.                 *)
(*                                                                         *)
(* Risk webhooks reach process_webhook (ai_ops_order_risk.py) at least once *)
(* and in parallel: each call is a database transaction of one of several  *)
(* Odoo workers, so Evaluate (the snapshot it reads, the branch it takes,   *)
(* the calls it makes to Shopify and the agent) and Commit are two steps.   *)
(* Odoo runs its transactions at REPEATABLE READ: a transaction that wrote  *)
(* a sale.order row another one committed meanwhile is rolled back, but a   *)
(* request it sent is not.                                                  *)
(*                                                                         *)
(* The agent's side is what Odoo can observe of it: a run it accepted       *)
(* registers (or dies), a manager clicks its Slack card and the run calls   *)
(* ai_ops_set_approval.  ApprovalGraph models that side in detail, and      *)
(* AgentRun states what the two have in common.                             *)
(***************************************************************************)
EXTENDS AiOpsTask, Naturals, FiniteSets

CONSTANTS Verdicts,     \* risk_level values a webhook may carry
          Workers,      \* Odoo HTTP workers
          MaxTasks,     \* bound: ids the task table hands out
          MaxRuns,      \* bound: runs the agent accepts
          AutoReject    \* odoo_ai_ops.auto_reject_enabled

ASSUME GatekeeperAssumption ==
    /\ Verdicts # {}
    /\ MaxTasks \in Nat
    /\ MaxRuns \in Nat
    /\ AutoReject \in BOOLEAN

TaskIds == 1..MaxTasks
RunIds == 1..MaxRuns

VARIABLES
    sale,      \* the sale.order imported for each Shopify order
    shop,      \* whether Shopify still has the order open
    sent,      \* risk verdicts Shopify has sent; each may arrive any number of
               \* times (Shopify retries, SQS redelivers), so none is removed
    task,      \* committed rows of ai.ops.task
    nextTask,  \* next value of the id sequence (not transactional)
    tx,        \* the webhook transaction each Odoo worker has open
    run,       \* the runs the agent accepted
    nextRun,
    \* History, read by the properties only:
    answered,  \* orders for which such a verdict was answered with 200
    vetoed,    \* orders a manager rejected, on a card or in Odoo
    flawed     \* orders evaluated before their import, or with a failed task

vars == <<sale, shop, sent, task, nextTask, tx, run, nextRun,
          answered, vetoed, flawed>>

-----------------------------------------------------------------------------
RiskyLevels == {"medium", "high"}

\* Mutant: the value is taken as it came.
VerdictAsIs(v) == v

\* _normalize_risk: a pending assessment is no verdict yet, and neither is an
\* unknown value.
Normalize(v) == IF v \in Levels THEN v ELSE "none"

SaleOrder == [imported: BOOLEAN, cheap: BOOLEAN, state: {"open", "cancel"},
              level: Levels \cup {"unset"}]

\* A worker's transaction: the row it inserts (row, with id; 0 when none), the
\* level and the cancellation it writes on the sale.order, whether that row
\* changed under it (stale), and its HTTP answer.
Tx == [open: BOOLEAN, order: Orders, verdict: Verdicts, id: 0..MaxTasks,
       row: Task, wrote: BOOLEAN, cancels: BOOLEAN, stale: BOOLEAN,
       ok: BOOLEAN, early: BOOLEAN]

\* A run the agent accepted: analyzing, waiting with its card in Slack, or over.
Run == [task: 0..MaxTasks, order: Orders,
        pc: {"none", "analyzing", "waiting", "over"}]

NoTx == [open |-> FALSE, order |-> CHOOSE o \in Orders : TRUE,
         verdict |-> CHOOSE v \in Verdicts : TRUE, id |-> 0, row |-> NoTask,
         wrote |-> FALSE, cancels |-> FALSE, stale |-> FALSE, ok |-> FALSE,
         early |-> FALSE]

NoRun == [task |-> 0, order |-> CHOOSE o \in Orders : TRUE, pc |-> "none"]

Init ==
    /\ sale = [o \in Orders |-> [imported |-> FALSE, cheap |-> FALSE,
                                 state |-> "open", level |-> "unset"]]
    /\ shop = [o \in Orders |-> "open"]
    /\ sent = {}
    /\ task = [t \in TaskIds |-> NoTask]
    /\ nextTask = 1
    /\ tx = [w \in Workers |-> NoTx]
    /\ run = [r \in RunIds |-> NoRun]
    /\ nextRun = 1
    /\ answered = {} /\ vetoed = {} /\ flawed = {}

history == <<answered, vetoed, flawed>>

-----------------------------------------------------------------------------
(* The world outside: Shopify, and the orders/create intake. *)

\* Shopify sends orders/risk_assessment_changed.
ShopifyAssesses(o, v) ==
    /\ <<o, v>> \notin sent
    /\ sent' = sent \cup {<<o, v>>}
    /\ UNCHANGED <<sale, shop, task, nextTask, tx, run, nextRun, history>>

\* ai.ops.order.intake imports the order (module OrderIntake in detail); cheap
\* is its total compared with odoo_ai_ops.bypass_threshold.
OrderImported(o, cheap) ==
    /\ ~sale[o].imported
    /\ sale' = [sale EXCEPT ![o].imported = TRUE, ![o].cheap = cheap]
    /\ UNCHANGED <<shop, sent, task, nextTask, tx, run, nextRun, history>>

-----------------------------------------------------------------------------
(* process_webhook *)

\* The rows the dedup guard finds, and those of them that block.
Prior(o) ==
    {t \in TaskIds : /\ Exists(task[t])
                     /\ task[t].order = o
                     /\ task[t].state # "failed"}

Blocks(t) == \/ t.state \in InFlight \cup {"bypassed"}
             \/ t.decision \in Decisions

Blocking(o) == {t \in Prior(o) : Blocks(task[t])}

\* Mutant: a benign task blocks a risky verdict as well.
HandledByAnyPrior(o, level) == Prior(o) # {}

Handled(o, level) ==
    \/ Blocking(o) # {}
    \/ Prior(o) # {} /\ level \notin RiskyLevels

\* Mutant: an unknown total, 0.0, counts as cheap.
UnknownIsCheap(o) == sale[o].imported => sale[o].cheap

\* Only a known total can be below the threshold.
IsCheap(o) == sale[o].imported /\ sale[o].cheap

\* Mutant: the level is not kept on the order.
WritesNoLevel(o, level) == FALSE

\* The correlated sale.order gets the level; a write of the same value is none.
WritesLevel(o, level) == sale[o].imported /\ sale[o].level # level

\* Worker w keeps what the transaction will commit.
Open(w, m, newId, newRow, cancelsOrder, isOk) ==
    tx' = [tx EXCEPT ![w] =
              [open |-> TRUE, order |-> m[1], verdict |-> m[2], id |-> newId,
               row |-> newRow,
               wrote |-> WritesLevel(m[1], Normalize(m[2])) \/ cancelsOrder,
               cancels |-> cancelsOrder, stale |-> FALSE, ok |-> isOk,
               early |-> ~sale[m[1]].imported]]

\* _cancel_in_shopify: the call may fail, or time out having cancelled.
CancelInShopify(o) ==
    \/ shop' = [shop EXCEPT ![o] = "cancelled"]
    \/ UNCHANGED shop

SkipDuplicate(w, m) ==
    /\ ~tx[w].open /\ m \in sent
    /\ Handled(m[1], Normalize(m[2]))
    /\ Open(w, m, 0, NoTask, FALSE, TRUE)
    /\ UNCHANGED <<sale, shop, sent, task, nextTask, run, nextRun, history>>

\* A fresh verdict: no row blocks it, and it takes an id.
Fresh(w, m) ==
    /\ ~tx[w].open /\ m \in sent
    /\ ~Handled(m[1], Normalize(m[2]))
    /\ nextTask \in TaskIds
    /\ nextTask' = nextTask + 1

TakesCheapPath(o, level) ==
    AutoReject /\ IsCheap(o) /\ level \in RiskyLevels

\* Path A.  Shopify is called before the commit; action_cancel may raise.
AutoRejectOrder(w, m) ==
    LET o == m[1]
        level == Normalize(m[2])
    IN  /\ Fresh(w, m)
        /\ TakesCheapPath(o, level)
        /\ CancelInShopify(o)
        /\ \E odooOk \in BOOLEAN :
              Open(w, m, nextTask, NewTask(o, level, "bypassed", TRUE),
                   odooOk /\ sale[o].state = "open", TRUE)
        /\ UNCHANGED <<sale, sent, task, run, nextRun, history>>

\* Path B.
RecordBenign(w, m) ==
    LET o == m[1]
        level == Normalize(m[2])
    IN  /\ Fresh(w, m)
        /\ level \notin RiskyLevels
        /\ Open(w, m, nextTask, NewTask(o, level, "done", sale[o].imported),
                FALSE, TRUE)
        /\ UNCHANGED <<sale, shop, sent, task, run, nextRun, history>>

\* The POST to the agent: it accepts and answers, accepts and the answer is
\* lost (a timeout), or does not accept.
Outcomes == {"accepted", "lost", "refused"}

PostToAgent(outcome, id, o) ==
    IF outcome = "refused"
    THEN UNCHANGED <<run, nextRun>>
    ELSE /\ nextRun \in RunIds
         /\ run' = [run EXCEPT ![nextRun] =
                       [task |-> id, order |-> o, pc |-> "analyzing"]]
         /\ nextRun' = nextRun + 1

\* Path C.  A dispatch that raises leaves the task failed, and the controller
\* turns the exception into a 500 answer: the transaction commits all the same.
Escalate(w, m) ==
    LET o == m[1]
        level == Normalize(m[2])
    IN  /\ Fresh(w, m)
        /\ level \in RiskyLevels
        /\ ~TakesCheapPath(o, level)
        /\ \E outcome \in Outcomes :
              /\ PostToAgent(outcome, nextTask, o)
              /\ Open(w, m, nextTask,
                      DispatchedTask(NewTask(o, level, "queued",
                                             sale[o].imported),
                                     outcome = "accepted"),
                      FALSE, outcome = "accepted")
        /\ UNCHANGED <<sale, shop, sent, task, history>>

\* The rows of o change under every other transaction that is open on it.
Touch(o, txs) ==
    [w \in Workers |-> IF txs[w].wrote /\ txs[w].order = o
                       THEN [txs[w] EXCEPT !.stale = TRUE]
                       ELSE txs[w]]

\* The transaction commits and the agent gets its answer; a 200 makes it delete
\* the message.
Commit(w) ==
    LET x == tx[w]
        o == x.order
        closed == [tx EXCEPT ![w] = NoTx]
    IN  /\ x.open
        /\ x.wrote => ~x.stale
        /\ task' = IF x.id = 0 THEN task ELSE [task EXCEPT ![x.id] = x.row]
        /\ sale' = IF x.wrote
                   THEN [sale EXCEPT ![o].level = Normalize(x.verdict),
                                     ![o].state = IF x.cancels THEN "cancel"
                                                  ELSE @]
                   ELSE sale
        /\ tx' = IF x.wrote THEN Touch(o, closed) ELSE closed
        /\ answered' = IF x.ok /\ Normalize(x.verdict) \in RiskyLevels
                       THEN answered \cup {o} ELSE answered
        /\ flawed' = IF x.row.state = "failed" \/ x.early
                     THEN flawed \cup {o} ELSE flawed
        /\ UNCHANGED <<shop, sent, nextTask, run, nextRun, vetoed>>

\* A write conflict (Odoo then runs the request again) or a worker that dies.
Rollback(w) ==
    /\ tx[w].open
    /\ tx' = [tx EXCEPT ![w] = NoTx]
    /\ UNCHANGED <<sale, shop, sent, task, nextTask, run, nextRun, history>>

-----------------------------------------------------------------------------
(* ai.ops.task: agent callbacks, buttons, housekeeping *)

\* ai_ops_set_approval on task t; a linked open order may fail to cancel.
SetApproval(t, d) ==
    LET o == task[t].order
        cancelsOrder == /\ d = "reject"
                        /\ task[t].linked
                        /\ sale[o].state = "open"
    IN  /\ task' = [task EXCEPT ![t] = DecidedTask(@, d)]
        /\ IF d = "reject" THEN CancelInShopify(o) ELSE UNCHANGED shop
        /\ \/ /\ cancelsOrder
              /\ sale' = [sale EXCEPT ![o].state = "cancel"]
              /\ tx' = Touch(o, tx)
           \/ UNCHANGED <<sale, tx>>

\* The call fails and is rolled back, after Shopify cancelled the order or before.
DecisionLost(t, d) ==
    /\ \/ /\ d = "reject" /\ Exists(task[t])
          /\ shop' = [shop EXCEPT ![task[t].order] = "cancelled"]
       \/ UNCHANGED shop
    /\ UNCHANGED <<task, sale, tx>>

\* action_approve and action_reject: the form shows them in pending_approval.
OdooDecides(t, d) ==
    /\ task[t].state = "pending_approval"
    /\ SetApproval(t, d) \/ DecisionLost(t, d)
    /\ vetoed' = IF d = "reject" THEN vetoed \cup {task[t].order} ELSE vetoed
    /\ UNCHANGED <<sent, nextTask, run, nextRun, answered, flawed>>

\* Re-dispatch to Agent, shown in queued and failed.  An AgentError raises
\* out of the button's request, which undoes its write.
Redispatch(t) ==
    /\ task[t].state \in {"queued", "failed"}
    /\ \E outcome \in Outcomes :
          /\ PostToAgent(outcome, t, task[t].order)
          /\ task' = IF outcome = "accepted"
                     THEN [task EXCEPT ![t] = DispatchedTask(@, TRUE)]
                     ELSE task
    /\ UNCHANGED <<sale, shop, sent, nextTask, tx, history>>

\* The cron: any set of expirable tasks may be older than the limit.
ExpireStaleTasks(stale) ==
    /\ stale # {}
    /\ \A t \in stale : Expirable(task[t])
    /\ task' = [t \in TaskIds |-> IF t \in stale THEN ExpiredTask(task[t])
                                  ELSE task[t]]
    /\ flawed' = flawed \cup {task[t].order : t \in stale}
    /\ UNCHANGED <<sale, shop, sent, nextTask, tx, run, nextRun,
                   answered, vetoed>>

-----------------------------------------------------------------------------
(* The agent, as Odoo sees it *)

\* notify: register_agent_run fails on a task that was rolled back, and may
\* fail anyway; the graph goes on and posts the card.  A run that was cut short
\* after its card and before its pause was checkpointed notifies again.
RunNotifies(r) ==
    LET t == run[r].task
    IN  /\ run[r].pc \in {"analyzing", "waiting"}
        /\ run' = [run EXCEPT ![r].pc = "waiting"]
        /\ \/ /\ Exists(task[t])
              /\ task' = [task EXCEPT ![t] = RegisteredTask(@)]
           \/ UNCHANGED task
        /\ UNCHANGED <<sale, shop, sent, nextTask, tx, nextRun, history>>

\* The model call raises, the replica stops, Slack is down so that nobody can
\* ever click, or the checkpoint expires.
RunDies(r) ==
    /\ run[r].pc \in {"analyzing", "waiting"}
    /\ run' = [run EXCEPT ![r].pc = "over"]
    /\ UNCHANGED <<sale, shop, sent, task, nextTask, tx, nextRun, history>>

\* A manager clicks the card and finalize calls ai_ops_set_approval; a call that
\* fails is logged and forgotten.  Until the run's last checkpoint is written
\* another click passes resume's check as well, so the run may wait on.
RunDecides(r, d) ==
    LET t == run[r].task
    IN  /\ run[r].pc = "waiting"
        /\ \/ run' = [run EXCEPT ![r].pc = "over"]
           \/ UNCHANGED run
        /\ \/ Exists(task[t]) /\ SetApproval(t, d)
           \/ DecisionLost(t, d)
        /\ vetoed' = IF d = "reject" THEN vetoed \cup {run[r].order} ELSE vetoed
        /\ UNCHANGED <<sent, nextTask, nextRun, answered, flawed>>

-----------------------------------------------------------------------------
Evaluate(w, m) ==
    \/ SkipDuplicate(w, m)
    \/ AutoRejectOrder(w, m)
    \/ RecordBenign(w, m)
    \/ Escalate(w, m)

Next ==
    \/ \E o \in Orders, v \in Verdicts : ShopifyAssesses(o, v)
    \/ \E o \in Orders, cheap \in BOOLEAN : OrderImported(o, cheap)
    \/ \E w \in Workers, m \in Orders \X Verdicts : Evaluate(w, m)
    \/ \E w \in Workers : Commit(w) \/ Rollback(w)
    \/ \E t \in TaskIds, d \in Decisions : OdooDecides(t, d)
    \/ \E t \in TaskIds : Redispatch(t)
    \/ \E stale \in SUBSET TaskIds : ExpireStaleTasks(stale)
    \/ \E r \in RunIds : RunNotifies(r) \/ RunDies(r)
    \/ \E r \in RunIds, d \in Decisions : RunDecides(r, d)

Spec == Init /\ [][Next]_vars

\* The scheduler runs the cron for ever, and it takes every task that is old.
FairSpec == Spec /\ \A t \in TaskIds : WF_vars(ExpireStaleTasks({t}))
-----------------------------------------------------------------------------
(* Properties *)

\* Type invariant.
TypeOK ==
    /\ sale \in [Orders -> SaleOrder]
    /\ shop \in [Orders -> {"open", "cancelled"}]
    /\ sent \in SUBSET (Orders \X Verdicts)
    /\ task \in [TaskIds -> Task]
    /\ nextTask \in 1..(MaxTasks + 1)
    /\ tx \in [Workers -> Tx]
    /\ run \in [RunIds -> Run]
    /\ \A r \in RunIds : run[r].pc # "none" => run[r].task \in TaskIds
    /\ nextRun \in 1..(MaxRuns + 1)
    /\ answered \in SUBSET Orders
    /\ vetoed \in SUBSET Orders
    /\ flawed \in SUBSET Orders

\* "We must not cancel/dispatch twice" (ai_ops_order_risk.py:118-123), as far
\* as the code achieves it: while no task of an order has failed and the order
\* was imported before its verdicts arrived, at most one task of it blocks,
\* however many deliveries of its verdicts run in parallel.  It rests on the
\* level written on the sale.order, over which parallel transactions conflict.
UniqueReview ==
    \A o \in Orders \ flawed :
        \A s, t \in Blocking(o) : s = t

\* "we MUST still act if a later assessment escalates a previously benign
\* order" (ai_ops_order_risk.py:120-123): once a risky verdict has been
\* answered with 200, and its message can be deleted, a task that records a
\* risky verdict for the order is committed.
EscalationRecorded ==
    \A o \in answered : \E t \in TaskIds : /\ Exists(task[t])
                                          /\ task[t].order = o
                                          /\ task[t].risk \in RiskyLevels

\* No order is cancelled, in Shopify or in Odoo, without cause: a manager
\* rejected it, or it is known to be cheap and Shopify assessed it risky
\* ("a missing total must not be read as cheap", ai_ops_order_risk.py:174-175).
AssessedRisky(o) ==
    \E v \in Verdicts : <<o, v>> \in sent /\ Normalize(v) \in RiskyLevels

CancelJustified ==
    \A o \in Orders :
        shop[o] = "cancelled" \/ sale[o].state = "cancel" =>
            \/ o \in vetoed
            \/ /\ AutoReject
               /\ sale[o].imported /\ sale[o].cheap
               /\ AssessedRisky(o)

\* A committed task that still waits for somebody is one the cron may close
\* (ai_ops_task.py:443-464 looks at running and pending_approval only): a lost
\* answer, a refused POST or a dead run leaves no task queued, approved or
\* rejected.  ReviewsEnd rests on it.
OpenTasksExpire ==
    \A t \in TaskIds :
        task[t].state \in States \ {"bypassed", "done", "failed"} =>
            task[t].state \in {"running", "pending_approval"}

\* No review waits for ever: whatever became of the POST, the run, its card or
\* the manager, a task that waits for one of them is closed in the end.
ReviewsEnd == \A t \in TaskIds :
    task[t].state \in InFlight ~> task[t].state \notin InFlight

\* "a task that is in-flight, already auto-cancelled, or already decided is
\* terminal (skip)" (ai_ops_order_risk.py:121-122): process_webhook opens no
\* review of an order once a committed task of it holds a manager's decision.
DecidedIsTerminal ==
    [][\A w \in Workers, t \in TaskIds :
          /\ ~tx[w].open /\ tx'[w].open
          /\ tx'[w].row.state = "running"
          /\ task[t].order = tx'[w].order
          => task[t].decision \notin Decisions]_vars
=============================================================================

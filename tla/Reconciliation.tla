--------------------------- MODULE Reconciliation ---------------------------
(***************************************************************************)
(* One reconciliation task, the runs of the reconciliation graph that were  *)
(* started for it (agent/app/graph/reconciliation_graph.py), and the gate   *)
(* and the writes of ai.ops.inventory that the runs end in.                 *)
(*                                                                         *)
(* A run gathers evidence, lets the model call read-only tools a bounded    *)
(* number of times, posts its proposal and pauses.  When it is resumed it   *)
(* records the decision in Odoo, writes the stock, flags the task when that *)
(* failed, and confirms the outcome in Slack.  Each of these calls may fail *)
(* before or after it took effect, and an execution may be cut short        *)
(* between any two of them.                                                *)
(*                                                                         *)
(* As in ApprovalGraph, LangGraph's checkpoints are external and taken as   *)
(* runtime.py uses them.  The evidence, the quantities and the model's      *)
(* reasoning are left out: a proposal is a kind of write, or none.          *)
(***************************************************************************)
EXTENDS Naturals, FiniteSets

CONSTANTS MaxRuns,        \* bound: runs started for the task
          Handlers,       \* slots for executions, over all replicas
          MaxToolLoops,   \* MAX_TOOL_LOOPS
          Buttons,        \* the decisions a manager can send to a run; the
                          \* message that is posted has no buttons, so none,
                          \* but runtime.resume and its tests take both
          MaxAborts,      \* bound: executions cut short
          MaxDeliveries   \* bound: deliveries of managers' answers

AiOps == INSTANCE AiOpsTask WITH Orders <- {"none"}

Decisions == AiOps!Decisions

ASSUME ReconciliationAssumption ==
    /\ MaxRuns \in Nat /\ MaxToolLoops \in Nat /\ MaxAborts \in Nat
    /\ MaxDeliveries \in Nat
    /\ Buttons \subseteq Decisions

Runs == 1..MaxRuns

VARIABLES
    task,       \* the row of ai.ops.task: its state and its decision
    nextRun,    \* the run the agent accepts next
    thread,     \* the last checkpoint of each run
    posted,     \* runs whose proposal is in Slack
    answers,    \* the decisions managers sent to each run
    reply,      \* the outcome last confirmed under each proposal
    writes,     \* how often each run wrote stock, in Odoo or in Shopify
    exec,       \* the executions of the graph
    aborts,
    deliveries,
    \* History, read by the properties only:
    disturbed   \* runs of which executions overlapped, or one was cut short
                \* after it called Odoo and before its decision was checkpointed

vars == <<task, nextRun, thread, posted, answers, reply, writes, exec, aborts,
          deliveries, disturbed>>

TaskRow == [state: AiOps!States \cup {"absent"},
            decision: Decisions \cup {"undecided"}]

\* push_inventory_to_shopify or apply_inventory_patch, which stand behind the
\* same gate, or an action that is left to a human.
Proposals == {"stock_write", "no_write"}

\* The next node ("none" without a checkpoint) and the state channels: loops is
\* tool_loops.
Thread == [next: {"none", "gather", "investigate", "tools", "propose", "notify",
                  "await_decision", "apply", "end"},
           loops: 0..(MaxToolLoops + 1),
           proposal: Proposals,
           decision: Decisions \cup {"undecided"}]

NoThread == [next |-> "none", loops |-> 0, proposal |-> "no_write",
             decision |-> "undecided"]

Outcomes == {"none", "applied", "recorded", "failed", "rejected"}

\* An execution: its run, where it is, the decision it was resumed with, whether
\* that decision is checkpointed, and the outcome it will confirm.
Exec == [pc: {"idle", "gather", "investigate", "tools", "propose", "notify",
              "post", "noted", "checked", "apply", "write", "retry", "flag",
              "confirm", "closing"},
         run: Runs \cup {0},
         decision: Decisions \cup {"undecided"},
         saved: BOOLEAN,
         outcome: Outcomes]

Idle == [pc |-> "idle", run |-> 0, decision |-> "undecided", saved |-> FALSE,
         outcome |-> "none"]

\* The task is created with the product's button, or in its own form before.
Init ==
    /\ task \in [state: {"absent", "draft"}, decision: {"undecided"}]
    /\ nextRun = 1
    /\ thread = [r \in Runs |-> NoThread]
    /\ posted = {}
    /\ answers = [r \in Runs |-> {}]
    /\ reply = [r \in Runs |-> "none"]
    /\ writes = [r \in Runs |-> 0]
    /\ exec = [h \in Handlers |-> Idle]
    /\ aborts = 0 /\ deliveries = 0
    /\ disturbed = {}

slack == <<posted, answers, reply>>
odooVars == <<task, nextRun, writes>>
history == <<aborts, deliveries, disturbed>>

ExecutionsOf(r) == {h \in Handlers : exec[h].pc # "idle" /\ exec[h].run = r}

At(h, node) == exec[h].pc = node

GoTo(h, node) == exec' = [exec EXCEPT ![h].pc = node]

-----------------------------------------------------------------------------
(* Odoo: dispatch, form, housekeeping *)

\* POST /v1/tasks/reconciliation was accepted: the workflow is spawned.
Launch(h) ==
    /\ nextRun \in Runs /\ At(h, "idle")
    /\ nextRun' = nextRun + 1
    /\ exec' = [exec EXCEPT ![h] = [Idle EXCEPT !.pc = "gather",
                                                !.run = nextRun]]

\* start_reconciliation_for_product: the agent is called before the transaction
\* that creates the task commits.
StartForProduct(h) ==
    /\ nextRun = 1 /\ task.state = "absent"
    /\ Launch(h)
    /\ UNCHANGED <<task, thread, slack, writes, history>>

\* It commits when the POST was answered.  When the answer was lost the
\* UserError undoes the task, and the run works for none: no commit follows.
CommitTask ==
    /\ task.state = "absent" /\ nextRun > 1
    /\ task' = [state |-> "running", decision |-> "undecided"]
    /\ UNCHANGED <<nextRun, thread, slack, writes, exec, history>>

\* The Start Reconciliation button; the answer of its POST may be lost, and the
\* UserError undoes its write.
StartAgain(h) ==
    /\ task.state \in {"draft", "queued", "failed"}
    /\ Launch(h)
    /\ task' \in {task, AiOps!DispatchedTask(task, TRUE)}
    /\ UNCHANGED <<thread, slack, writes, history>>

\* action_approve and action_reject: they decide the task and tell no run.
OdooDecides(d) ==
    /\ task.state = "pending_approval"
    /\ task' = AiOps!DecidedTask(task, d)
    /\ UNCHANGED <<nextRun, thread, slack, writes, exec, history>>

\* _cron_expire_stale_tasks.
ExpireStaleTask ==
    /\ AiOps!Expirable(task)
    /\ task' = AiOps!ExpiredTask(task)
    /\ UNCHANGED <<nextRun, thread, slack, writes, exec, history>>

-----------------------------------------------------------------------------
(* The nodes up to the pause *)

\* The checkpoint of a node that has returned.
Checkpoint(h, state) == thread' = [thread EXCEPT ![exec[h].run] = state]

\* gather: a failed discrepancy_context leaves the evidence empty.
Gather(h) ==
    /\ At(h, "gather")
    /\ GoTo(h, "investigate")
    /\ Checkpoint(h, [NoThread EXCEPT !.next = "investigate"])
    /\ UNCHANGED <<odooVars, slack, history>>

\* Mutant: the last turns have tools as well.
AlwaysOffered(loops) == TRUE

\* Tools are bound to the model until the budget is spent.
Offered(loops) == loops < MaxToolLoops

\* Mutant: the turn is not counted.
NotCounted(loops) == loops

Counted(loops) == loops + 1

\* investigate and route_investigation: the model asks for tools, if it has any,
\* or concludes.
Investigate(h) ==
    LET t == thread[exec[h].run]
    IN  /\ At(h, "investigate")
        /\ \E asks \in BOOLEAN :
              LET node == IF asks THEN "tools" ELSE "propose"
              IN  /\ asks => Offered(t.loops)
                  /\ GoTo(h, node)
                  /\ Checkpoint(h, [t EXCEPT !.next = node, !.loops = Counted(@)])
        /\ UNCHANGED <<odooVars, slack, history>>

\* The tool node: each tool answers, be it with an error.
CallTools(h) ==
    /\ At(h, "tools")
    /\ GoTo(h, "investigate")
    /\ Checkpoint(h, [thread[exec[h].run] EXCEPT !.next = "investigate"])
    /\ UNCHANGED <<odooVars, slack, history>>

\* propose: an action without its quantity writes nothing.
Propose(h) ==
    /\ At(h, "propose")
    /\ GoTo(h, "notify")
    /\ \E p \in Proposals :
          Checkpoint(h, [thread[exec[h].run] EXCEPT !.next = "notify",
                                                    !.proposal = p])
    /\ UNCHANGED <<odooVars, slack, history>>

\* notify: register_agent_run fails on a task that is not committed, or fails
\* anyway, maybe after it took effect.
Register(h) ==
    /\ At(h, "notify")
    /\ GoTo(h, "post")
    /\ \/ task.state # "absent" /\ task' = AiOps!RegisteredTask(task)
       \/ UNCHANGED task
    /\ UNCHANGED <<nextRun, thread, slack, writes, history>>

\* notify: the proposal is posted, as text, or Slack fails.
PostProposal(h) ==
    /\ At(h, "post")
    /\ GoTo(h, "noted")
    /\ posted' \in {posted, posted \cup {exec[h].run}}
    /\ UNCHANGED <<odooVars, thread, answers, reply, history>>

\* await_decision interrupts, and the invocation returns.
Pause(h) ==
    /\ At(h, "noted")
    /\ exec' = [exec EXCEPT ![h] = Idle]
    /\ Checkpoint(h, [thread[exec[h].run] EXCEPT !.next = "await_decision",
                                                 !.decision = "undecided"])
    /\ UNCHANGED <<odooVars, slack, history>>

-----------------------------------------------------------------------------
(* The decision *)

\* A manager answers a proposal.
ManagerAnswers(r, d) ==
    /\ r \in posted /\ d \in Buttons
    /\ answers' = [answers EXCEPT ![r] = @ \cup {d}]
    /\ UNCHANGED <<odooVars, thread, posted, reply, exec, history>>

\* Mutant: the action_id is read the other way round.
OtherDecision(d) == CHOOSE e \in Decisions : e # d

\* handle_slack_interaction: the decision of the action_id.
ClickDecision(d) == d

\* resume finds the thread paused.  An answer is delivered at least once, and
\* may be while another execution of the run is under way.
Resume(h, r, d) ==
    /\ At(h, "idle") /\ d \in answers[r]
    /\ deliveries < MaxDeliveries
    /\ deliveries' = deliveries + 1
    /\ thread[r].next \notin {"none", "end"}
    /\ exec' = [exec EXCEPT ![h] = [Idle EXCEPT !.pc = "checked", !.run = r,
                                    !.decision = ClickDecision(d)]]
    /\ disturbed' = IF ExecutionsOf(r) # {} THEN disturbed \cup {r}
                    ELSE disturbed
    /\ UNCHANGED <<odooVars, thread, slack, aborts>>

\* ainvoke loads the checkpoint again.  Before the pause the decision is lost,
\* and the proposal is posted again.
ResumeAtNotify(h) ==
    /\ At(h, "checked") /\ thread[exec[h].run].next = "notify"
    /\ exec' = [exec EXCEPT ![h].pc = "notify", ![h].decision = "undecided"]
    /\ UNCHANGED <<odooVars, thread, slack, history>>

ResumeAtDecision(h) ==
    /\ At(h, "checked") /\ thread[exec[h].run].next = "await_decision"
    /\ GoTo(h, "apply")
    /\ UNCHANGED <<odooVars, thread, slack, history>>

\* Mutant: the decision of the resume replaces the one that was checkpointed.
ResumedDecision(h) == exec[h].decision

StoredDecision(h) == thread[exec[h].run].decision

\* apply was cut short, or another execution finished it since the check.
ResumeAtApply(h) ==
    /\ At(h, "checked") /\ thread[exec[h].run].next \in {"apply", "end"}
    /\ exec' = [exec EXCEPT ![h].pc = "apply",
                            ![h].decision = StoredDecision(h),
                            ![h].saved = TRUE]
    /\ UNCHANGED <<odooVars, thread, slack, history>>

ResumeAtEnd(h) ==
    /\ At(h, "checked") /\ thread[exec[h].run].next = "end"
    /\ exec' = [exec EXCEPT ![h] = Idle]
    /\ UNCHANGED <<odooVars, thread, slack, history>>

-----------------------------------------------------------------------------
(* apply *)

Applying == {"apply", "write", "retry", "flag", "confirm", "closing"}

\* The checkpoint of await_decision, written while apply already runs.
SaveDecision(h) ==
    /\ exec[h].pc \in Applying /\ ~exec[h].saved
    /\ Checkpoint(h, [thread[exec[h].run] EXCEPT !.next = "apply",
                                                 !.decision = exec[h].decision])
    /\ exec' = [exec EXCEPT ![h].saved = TRUE]
    /\ UNCHANGED <<odooVars, slack, history>>

\* set_approval returned.
SetApproval(h) ==
    /\ At(h, "apply") /\ task.state # "absent"
    /\ task' = AiOps!DecidedTask(task, exec[h].decision)
    /\ exec' = IF exec[h].decision = "approve"
               THEN [exec EXCEPT ![h].pc = "write"]
               ELSE [exec EXCEPT ![h].pc = "confirm", ![h].outcome = "rejected"]
    /\ UNCHANGED <<nextRun, thread, slack, writes, history>>

\* It raised, maybe after it took effect: apply returns.
SetApprovalRaises(h) ==
    /\ At(h, "apply")
    /\ GoTo(h, "closing")
    /\ \/ task.state # "absent"
          /\ task' = AiOps!DecidedTask(task, exec[h].decision)
       \/ UNCHANGED task
    /\ UNCHANGED <<nextRun, thread, slack, writes, history>>

\* Nothing to write: recorded for a human.
RecordForHuman(h) ==
    /\ At(h, "write") /\ thread[exec[h].run].proposal = "no_write"
    /\ exec' = [exec EXCEPT ![h].pc = "confirm", ![h].outcome = "recorded"]
    /\ UNCHANGED <<odooVars, thread, slack, history>>

\* Mutant: no gate.
AnyTask == TRUE

\* _require_approved_task; the task is always one of this type and product.
\* The transaction of a write takes effect where it read the decision.
GateOpen == task.state # "absent" /\ task.decision = "approve"

WriteCalled(h) ==
    \/ At(h, "write") /\ thread[exec[h].run].proposal # "no_write"
    \/ At(h, "retry")

StockWritten(h) == writes' = [writes EXCEPT ![exec[h].run] = @ + 1]

\* push_inventory_to_shopify or apply_inventory_patch returned.
WriteStock(h) ==
    /\ WriteCalled(h) /\ GateOpen
    /\ StockWritten(h)
    /\ exec' = [exec EXCEPT ![h].pc = "confirm", ![h].outcome = "applied"]
    /\ UNCHANGED <<task, nextRun, thread, slack, history>>

\* Mutant: the outcome is set before the call.
ReportedAsApplied == "applied"

FailedOutcome == "failed"

\* It raised: the gate refused, the transaction was rolled back, or its answer
\* was lost.  An error that Odoo answered (a Shopify timeout after Shopify took
\* the quantity is one) makes execute_kw call it once more; any other, and the
\* second one, makes apply flag the task.
WriteRaises(h) ==
    /\ WriteCalled(h)
    /\ \/ GateOpen /\ StockWritten(h)
       \/ UNCHANGED writes
    /\ \/ At(h, "write") /\ GoTo(h, "retry")
       \/ exec' = [exec EXCEPT ![h].pc = "flag", ![h].outcome = FailedOutcome]
    /\ UNCHANGED <<task, nextRun, thread, slack, history>>

\* register_agent_run(state="failed"), which may fail as well.
FlagFailed(h) ==
    /\ At(h, "flag")
    /\ GoTo(h, "confirm")
    /\ \/ task' = [task EXCEPT !.state = "failed"]
       \/ UNCHANGED task
    /\ UNCHANGED <<nextRun, thread, slack, writes, history>>

\* The reply under the proposal, if that was posted and Slack answers.
Confirm(h) ==
    /\ At(h, "confirm")
    /\ exec' = [exec EXCEPT ![h].pc = "closing", ![h].outcome = "none"]
    /\ \/ /\ exec[h].run \in posted
          /\ reply' = [reply EXCEPT ![exec[h].run] = exec[h].outcome]
       \/ UNCHANGED reply
    /\ UNCHANGED <<odooVars, thread, posted, answers, history>>

Finish(h) ==
    /\ At(h, "closing") /\ exec[h].saved
    /\ Checkpoint(h, [thread[exec[h].run] EXCEPT !.next = "end",
                                                 !.decision = exec[h].decision])
    /\ exec' = [exec EXCEPT ![h] = Idle]
    /\ UNCHANGED <<odooVars, slack, history>>

-----------------------------------------------------------------------------
(* Failures and time *)

\* The replica stops, a model call raises, or Valkey does not answer in time.
Abort(h) ==
    /\ ~At(h, "idle") /\ aborts < MaxAborts
    /\ aborts' = aborts + 1
    /\ exec' = [exec EXCEPT ![h] = Idle]
    /\ disturbed' = IF exec[h].pc \in Applying \ {"apply"} /\ ~exec[h].saved
                    THEN disturbed \cup {exec[h].run} ELSE disturbed
    /\ UNCHANGED <<odooVars, thread, slack, deliveries>>

\* The TTL of Valkey: days after the last write, when nothing is under way.
CheckpointExpires(r) ==
    /\ ExecutionsOf(r) = {} /\ thread[r].next # "none"
    /\ thread' = [thread EXCEPT ![r] = NoThread]
    /\ UNCHANGED <<odooVars, slack, exec, history>>

Step(h) ==
    \/ Gather(h) \/ Investigate(h) \/ CallTools(h) \/ Propose(h)
    \/ Register(h) \/ PostProposal(h) \/ Pause(h)
    \/ ResumeAtNotify(h) \/ ResumeAtDecision(h) \/ ResumeAtApply(h)
    \/ ResumeAtEnd(h)
    \/ SaveDecision(h) \/ SetApproval(h) \/ SetApprovalRaises(h)
    \/ RecordForHuman(h) \/ WriteStock(h) \/ WriteRaises(h) \/ FlagFailed(h)
    \/ Confirm(h) \/ Finish(h)

Next ==
    \/ \E h \in Handlers : \/ StartForProduct(h) \/ StartAgain(h)
                           \/ Step(h) \/ Abort(h)
    \/ \E h \in Handlers, r \in Runs, d \in Decisions : Resume(h, r, d)
    \/ \E r \in Runs, d \in Decisions : ManagerAnswers(r, d)
    \/ \E r \in Runs : CheckpointExpires(r)
    \/ \E d \in Decisions : OdooDecides(d)
    \/ CommitTask \/ ExpireStaleTask

Spec == Init /\ [][Next]_vars

\* The event loop of a live replica runs every execution on.
Fairness == \A h \in Handlers : WF_vars(Step(h)) /\ WF_vars(SaveDecision(h))

FairSpec == Spec /\ Fairness
-----------------------------------------------------------------------------
(* Properties *)

\* Type invariant.  Of tool_loops it says that the model is asked at most once
\* after its budget is spent.
TypeOK ==
    /\ task \in TaskRow
    /\ nextRun \in 1..(MaxRuns + 1)
    /\ thread \in [Runs -> Thread]
    /\ posted \in SUBSET Runs
    /\ answers \in [Runs -> SUBSET Buttons]
    /\ reply \in [Runs -> Outcomes]
    /\ writes \in [Runs -> Nat]
    /\ exec \in [Handlers -> Exec]
    /\ aborts \in 0..MaxAborts /\ deliveries \in 0..MaxDeliveries
    /\ disturbed \in SUBSET Runs

\* "The LangGraph workflow only reaches the write nodes after a manager approved"
\* and "require a matching ai.ops.task that carries a persisted approve decision"
\* (ai_ops_inventory.py:168-176), of every write of every run: retried,
\* executed again after a crash, of a task that was decided otherwise in the
\* meantime, or whose earlier run left an approval behind.
Gate == INSTANCE WriteGate WITH decision <- task.decision

WritesAreGated == Gate!Spec

\* The gate does not use an approval up (_require_approved_task only reads it):
\* what keeps an approval from being applied again and again is the run.  Answers
\* handled one after the other, however often they are delivered, make it write
\* nothing once it holds a rejection; and what was approved at most once in an
\* execution, and once more if execute_kw repeats the call.  Only after one that
\* was cut short is there another execution that writes.
AnswersAreObeyed == \A r \in Runs \ disturbed :
    writes[r] <= IF thread[r].decision = "reject" THEN 0 ELSE 2 * (aborts + 1)

\* The reply under a proposal is true: "applied" of a run that wrote, and "no
\* changes applied" (reconciliation_graph.py:519) of one that did not.
ReplyIsTrue ==
    \A r \in Runs : /\ reply[r] = "applied" => writes[r] > 0
                    /\ r \notin disturbed /\ reply[r] = "rejected" => writes[r] = 0

\* The budget of MAX_TOOL_LOOPS "guards against a loop that keeps re-querying
\* instead of committing to a diagnosis" (reconciliation_graph.py:57-60): every
\* investigation ends, with its proposal posted or cut short.
Investigating == {"gather", "investigate", "tools", "propose"}

InvestigationEnds == \A h \in Handlers :
    exec[h].pc \in Investigating ~> exec[h].pc \notin Investigating

\* "apply - on approval, execute the recommended action"
\* (reconciliation_graph.py:21-22), where without Slack approvals "only exist on
\* the Odoo task" (README.md:213): a run that waits with a proposed write, and
\* whose task a manager has approved, writes, or the task says it failed.
ApprovalIsApplied == \A r \in Runs :
    (/\ thread[r].next = "await_decision"
     /\ thread[r].proposal # "no_write"
     /\ task.state = "done" /\ task.decision = "approve")
    ~> (writes[r] > 0 \/ task.state = "failed")
=============================================================================

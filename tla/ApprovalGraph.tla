--------------------------- MODULE ApprovalGraph ---------------------------
(***************************************************************************)
(* One run of the agent's fraud graph (agent/app/graph/fraud_graph.py) and   *)
(* the clicks that resume it (agent/app/runtime.py).                        *)
(*                                                                         *)
(* The run is a LangGraph thread whose checkpoint in Valkey outlives the     *)
(* process: triage, analyze and notify run in a background task, then the    *)
(* graph pauses.  Each click on its Slack card is a message of the queue;    *)
(* whoever receives it resumes the thread, so several executions of the same *)
(* thread may be under way, on one replica or on several.                   *)
(*                                                                         *)
(* Valkey, LangGraph and Slack are external, and taken as runtime.py and     *)
(* checkpointer.py use them: an invocation starts at the node the last       *)
(* checkpoint names, and checkpoints are written while the next node runs.   *)
(***************************************************************************)
EXTENDS AiOpsTask, Naturals, FiniteSets

CONSTANTS Handlers,      \* slots for executions, over all replicas
          MaxClicks,     \* bound: clicks made
          MaxReceives,   \* the queue's maxReceiveCount
          MaxAborts      \* bound: executions cut short

ASSUME ApprovalAssumption ==
    /\ Handlers # {}
    /\ MaxClicks \in Nat /\ MaxReceives \in Nat /\ MaxAborts \in Nat

Clicks == 1..MaxClicks

VARIABLES
    task,       \* the run's row of ai.ops.task
    thread,     \* the last checkpoint: the next node, the decision it holds
    card,       \* "none", "buttons", or the outcome the card shows
    click,      \* the decision of each click made
    queue,      \* clicks whose message is not deleted
    received,   \* how often each message was received
    exec,       \* the executions of the graph
    aborts,
    \* History, read by the properties only:
    applied,    \* the decisions of this run that Odoo committed
    disturbed   \* executions overlapped, or one was cut short after finalize
                \* called Odoo and before the decision was checkpointed

vars == <<task, thread, card, click, queue, received, exec, aborts,
          applied, disturbed>>

NoClick == 0

\* An execution: where it is, the click it handles, the decision its state
\* holds and whether that state is checkpointed.
Exec == [pc: {"idle", "analyze", "notify", "card", "noted",
              "checked", "finalize", "wrote", "closing"},
         click: {NoClick} \cup Clicks,
         decision: Decisions \cup {"undecided"},
         saved: BOOLEAN]

Idle == [pc |-> "idle", click |-> NoClick, decision |-> "undecided",
         saved |-> FALSE]

Active == {e \in Handlers : exec[e].pc # "idle"}

\* The nodes a checkpoint may name; "notify" stands for any node before the
\* pause, "none" for a thread that has no checkpoint yet or has lost it.
Thread == [next: {"none", "notify", "await_decision", "finalize", "end"},
           decision: Decisions \cup {"undecided"}]

\* POST /v1/tasks/fraud was accepted: the workflow is spawned.
Init ==
    /\ task = NoTask
    /\ thread = [next |-> "none", decision |-> "undecided"]
    /\ card = "none"
    /\ click = [c \in Clicks |-> "undecided"]
    /\ queue = {}
    /\ received = [c \in Clicks |-> 0]
    /\ \E e \in Handlers :
          exec = [h \in Handlers |-> IF h = e THEN [Idle EXCEPT !.pc = "analyze"]
                                     ELSE Idle]
    /\ aborts = 0
    /\ applied = {} /\ disturbed = FALSE

clicksVars == <<click, received, aborts>>

\* The execution is over, and the message it handled is deleted.
Done(e) ==
    /\ exec' = [exec EXCEPT ![e] = Idle]
    /\ queue' = queue \ {exec[e].click}

GoTo(e, from, to) ==
    /\ exec[e].pc = from
    /\ exec' = [exec EXCEPT ![e].pc = to]

-----------------------------------------------------------------------------
(* The nodes up to the pause *)

\* triage and analyze.
Analyze(e) ==
    /\ GoTo(e, "analyze", "notify")
    /\ thread' = [thread EXCEPT !.next = "notify"]
    /\ UNCHANGED <<task, card, queue, clicksVars, applied, disturbed>>

\* notify: register_agent_run; an error is logged, and may hide a success.
Register(e) ==
    /\ GoTo(e, "notify", "card")
    /\ \/ Exists(task) /\ task' = RegisteredTask(task)
       \/ UNCHANGED task
    /\ UNCHANGED <<thread, card, queue, clicksVars, applied, disturbed>>

\* notify: the card is posted, or Slack fails and the graph goes on without.
PostCard(e) ==
    /\ GoTo(e, "card", "noted")
    /\ card' \in {card, "buttons"}
    /\ UNCHANGED <<task, thread, queue, clicksVars, applied, disturbed>>

\* await_decision interrupts: the checkpoint is written, the invocation returns.
Pause(e) ==
    /\ exec[e].pc = "noted"
    /\ thread' = [next |-> "await_decision", decision |-> "undecided"]
    /\ Done(e)
    /\ UNCHANGED <<task, card, clicksVars, applied, disturbed>>

-----------------------------------------------------------------------------
(* Clicks *)

\* A manager clicks a card: its buttons may be shown after they have gone.
ManagerClicks(c, d) ==
    /\ card # "none"
    /\ click[c] = "undecided"
    /\ click' = [click EXCEPT ![c] = d]
    /\ queue' = queue \cup {c}
    /\ UNCHANGED <<task, thread, card, received, exec, aborts, applied,
                   disturbed>>

\* Mutant: a message is received for ever.
NeverDeadLettered(c) == c \in queue

\* A message received maxReceiveCount times is moved to the dead-letter queue.
Receivable(c) == c \in queue /\ received[c] < MaxReceives

\* Mutant: resume does not look at the thread first.
AnyThread == TRUE

\* snapshot.next is not empty.
Paused == thread.next \notin {"none", "end"}

\* A handler receives a click, maybe one that another one still handles, and
\* resume finds the thread paused.
Resume(e, c) ==
    /\ exec[e].pc = "idle"
    /\ Receivable(c)
    /\ received' = [received EXCEPT ![c] = @ + 1]
    /\ Paused
    /\ exec' = [exec EXCEPT ![e] = [Idle EXCEPT !.pc = "checked", !.click = c]]
    /\ disturbed' = (disturbed \/ Active # {})
    /\ UNCHANGED <<task, thread, card, click, queue, aborts, applied>>

\* No paused workflow: the clicker is told, and the message deleted.
RefuseResume(c) ==
    /\ Receivable(c)
    /\ received' = [received EXCEPT ![c] = @ + 1]
    /\ ~Paused
    /\ queue' = queue \ {c}
    /\ UNCHANGED <<task, thread, card, click, exec, aborts, applied, disturbed>>

\* ainvoke(Command(resume=...)) loads the checkpoint again, and starts there.
\* Before the pause: the resume value is lost, the card is posted again.
ResumeAtNotify(e) ==
    /\ thread.next = "notify"
    /\ GoTo(e, "checked", "notify")
    /\ UNCHANGED <<task, thread, card, queue, clicksVars, applied, disturbed>>

\* Mutant: the button's action_id is read the other way round.
OtherDecision(c) == CHOOSE d \in Decisions : d # click[c]

\* handle_slack_interaction: the decision of the button that was clicked.
ClickDecision(c) == click[c]

\* At the pause: await_decision returns the click's decision.
ResumeAtDecision(e) ==
    /\ exec[e].pc = "checked" /\ thread.next = "await_decision"
    /\ exec' = [exec EXCEPT ![e].pc = "finalize",
                            ![e].decision = ClickDecision(exec[e].click)]
    /\ UNCHANGED <<task, thread, card, queue, clicksVars, applied, disturbed>>

\* Mutant: the click's decision replaces the one that was checkpointed.
LatestDecision(e) == click[exec[e].click]

\* A thread that was decided goes on with the decision it holds.
StoredDecision(e) == thread.decision

\* After the pause: finalize was cut short.  Another execution may also have
\* finished the thread since the check; what the invocation then does, nothing
\* or the final node again (runtime.py:165-166), is left open.
ResumeAtFinalize(e) ==
    /\ exec[e].pc = "checked" /\ thread.next \in {"finalize", "end"}
    /\ exec' = [exec EXCEPT ![e].pc = "finalize",
                            ![e].decision = StoredDecision(e),
                            ![e].saved = TRUE]
    /\ UNCHANGED <<task, thread, card, queue, clicksVars, applied, disturbed>>

ResumeAtEnd(e) ==
    /\ exec[e].pc = "checked" /\ thread.next = "end"
    /\ Done(e)
    /\ UNCHANGED <<task, thread, card, clicksVars, applied, disturbed>>

-----------------------------------------------------------------------------
(* finalize *)

\* The checkpoint of await_decision, written while finalize already runs.
SaveDecision(e) ==
    /\ exec[e].pc \in {"finalize", "wrote", "closing"} /\ ~exec[e].saved
    /\ thread' = [next |-> "finalize", decision |-> exec[e].decision]
    /\ exec' = [exec EXCEPT ![e].saved = TRUE]
    /\ UNCHANGED <<task, card, queue, clicksVars, applied, disturbed>>

\* ai_ops_set_approval; an error is logged, and may hide a success.
WriteApproval(e) ==
    /\ GoTo(e, "finalize", "wrote")
    /\ \/ /\ Exists(task)
          /\ task' = DecidedTask(task, exec[e].decision)
          /\ applied' = applied \cup {exec[e].decision}
       \/ UNCHANGED <<task, applied>>
    /\ UNCHANGED <<thread, card, queue, clicksVars, disturbed>>

\* The card shows the outcome in place of its buttons; an error is logged.
UpdateCard(e) ==
    /\ GoTo(e, "wrote", "closing")
    /\ \/ card # "none" /\ card' = exec[e].decision
       \/ UNCHANGED card
    /\ UNCHANGED <<task, thread, queue, clicksVars, applied, disturbed>>

Finish(e) ==
    /\ exec[e].pc = "closing" /\ exec[e].saved
    /\ thread' = [next |-> "end", decision |-> exec[e].decision]
    /\ Done(e)
    /\ UNCHANGED <<task, card, clicksVars, applied, disturbed>>

-----------------------------------------------------------------------------
(* Failures, time, and Odoo *)

\* Mutant: the message is deleted whatever became of its handling.
DeletedAnyway(e) == queue' = queue \ {exec[e].click}

\* A message is left for retry when its handling raised or its replica died.
LeftForRetry(e) == UNCHANGED queue

\* The replica stops, the model call raises, or Valkey does not answer in time.
Abort(e) ==
    /\ exec[e].pc # "idle" /\ aborts < MaxAborts
    /\ exec' = [exec EXCEPT ![e] = Idle]
    /\ aborts' = aborts + 1
    /\ LeftForRetry(e)
    /\ disturbed' = (disturbed \/ /\ exec[e].pc \in {"wrote", "closing"}
                                  /\ ~exec[e].saved)
    /\ UNCHANGED <<task, thread, card, click, received, applied>>

\* The TTL: days after the last write, when nothing is under way.
CheckpointExpires ==
    /\ Active = {} /\ thread.next # "none"
    /\ thread' = [next |-> "none", decision |-> "undecided"]
    /\ UNCHANGED <<task, card, exec, queue, clicksVars, applied, disturbed>>

\* As in AgentRun: the commit of the task, the buttons of its form, the cron.
\* What another run of the same task then does is left to Gatekeeper.
OdooStep ==
    /\ \/ /\ ~Exists(task)
          /\ \E o \in Orders, answered \in BOOLEAN :
                task' = DispatchedTask(NewTask(o, "high", "queued", TRUE),
                                       answered)
       \/ /\ task.state = "pending_approval"
          /\ \E d \in Decisions : task' = DecidedTask(task, d)
       \/ /\ Expirable(task)
          /\ task' = ExpiredTask(task)
       \/ /\ task.state \in {"queued", "failed"}
          /\ task' = DispatchedTask(task, TRUE)
    /\ UNCHANGED <<thread, card, exec, queue, clicksVars, applied, disturbed>>

\* What an execution does next.
Step(e) ==
    \/ Analyze(e) \/ Register(e) \/ PostCard(e) \/ Pause(e)
    \/ ResumeAtNotify(e) \/ ResumeAtDecision(e)
    \/ ResumeAtFinalize(e) \/ ResumeAtEnd(e)
    \/ SaveDecision(e) \/ WriteApproval(e) \/ UpdateCard(e) \/ Finish(e)

Deliver(c) == RefuseResume(c) \/ \E e \in Handlers : Resume(e, c)

Next ==
    \/ \E e \in Handlers : Step(e) \/ Abort(e)
    \/ \E c \in Clicks : Deliver(c)
    \/ \E c \in Clicks, d \in Decisions : ManagerClicks(c, d)
    \/ CheckpointExpires \/ OdooStep

Spec == Init /\ [][Next]_vars

\* The event loop of a live replica runs every execution on, and the workers
\* poll the queue for ever.
Fairness ==
    /\ \A e \in Handlers : WF_vars(Step(e))
    /\ \A e \in Handlers : WF_vars(SaveDecision(e))
    /\ \A c \in Clicks : WF_vars(Deliver(c))

FairSpec == Spec /\ Fairness
-----------------------------------------------------------------------------
(* Properties *)

\* Type invariant.
TypeOK ==
    /\ task \in Task
    /\ thread \in Thread
    /\ card \in {"none", "buttons"} \cup Decisions
    /\ click \in [Clicks -> Decisions \cup {"undecided"}]
    /\ queue \in SUBSET Clicks
    /\ received \in [Clicks -> 0..MaxReceives]
    /\ exec \in [Handlers -> Exec]
    /\ aborts \in 0..MaxAborts
    /\ applied \in SUBSET Decisions
    /\ disturbed \in BOOLEAN

\* The double-resume guard (runtime.py:162-167) as far as it goes: clicks
\* handled one after the other never give Odoo two different decisions of a
\* run, however often messages are redelivered and executions are cut short,
\* unless one was cut short between its call to Odoo and its checkpoint.
SerialDecisionsAgree == ~disturbed => Cardinality(applied) <= 1

\* "*Rejected* ... - order cancelled in Shopify and Odoo" (slack_client.py:108):
\* finalize updates the card also when set_approval failed, so Odoo may have taken
\* no decision; but with clicks handled one after the other and executions cut
\* short, it has never taken another one than the card shows.
CardAgrees == ~disturbed /\ card \in Decisions => applied \subseteq {card}

\* A thread that was never checkpointed, has expired or was decided.
Closed == thread.next \in {"none", "end"}

\* "Returns True if the workflow was actually resumed" (runtime.py:162), and
\* "messages are deleted only after successful handling" (sqs_worker.py:6): a
\* click's message is deleted only when the run holds a decision or can no
\* longer take one, or had not paused and posts its card again.
ClicksAreUsed ==
    [][\A c \in queue \ queue' :
          \/ thread'.decision # "undecided"
          \/ Closed
          \/ \E e \in Handlers : exec[e].click = c /\ exec[e].pc = "noted"]_vars

\* Nothing can happen to the run any more: nothing executes, and no click finds
\* a paused thread.
Over ==
    /\ Active = {}
    /\ card = "none" \/ Closed

\* A click on a card of a run that is over, decided or expired, changes nothing:
\* the run never starts again and never writes to Odoo again.
OverForGood == [][Over => Over' /\ UNCHANGED applied]_vars

\* The run is what Odoo expects of it.
Contract == INSTANCE AgentRun WITH
    pc <- IF Over THEN "over"
          ELSE IF card = "none" /\ \E e \in Handlers :
                                      exec[e].pc \in {"analyze", "notify"}
               THEN "analyzing"
               ELSE "waiting",
    clicked <- {click[c] : c \in Clicks} \ {"undecided"}

HonoursContract == Contract!Spec

\* A run that is paused with a click in the queue is decided in the end (or
\* outlives its checkpoint), provided that a message is received more often than
\* executions are cut short.
RePosting == \E e \in Handlers : exec[e].pc \in {"notify", "card", "noted"}

PausedRunIsDecided ==
    (thread.next = "await_decision" /\ queue # {} /\ ~RePosting)
        ~> (thread.next \in {"end", "none"})

\* "a second decision (double click / SQS redelivery) must be a no-op"
\* (agent/tests/test_llm_and_graph.py:111).
SecondDecisionIsNoOp == Cardinality(applied) <= 1
=============================================================================

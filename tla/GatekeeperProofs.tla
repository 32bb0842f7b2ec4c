-------------------------- MODULE GatekeeperProofs --------------------------
(***************************************************************************)
(* Proofs about Gatekeeper for any orders, verdicts, workers and bounds.   *)
(*                                                                         *)
(* The invariant rests on one observation: the tasks of an order that can   *)
(* block are exactly those that record a risky verdict (RiskyTasks), and    *)
(* that set only grows.  So a level on the sale.order, an answered verdict  *)
(* and a transaction that skipped a duplicate all witness a risky task; and *)
(* a transaction that is about to commit a risky task either sees none      *)
(* committed, or wrote a sale.order that changed under it.                  *)
(***************************************************************************)
EXTENDS Gatekeeper, TLAPS

RiskyTasks(o) ==
    {t \in TaskIds : /\ Exists(task[t])
                     /\ task[t].order = o
                     /\ task[t].risk \in RiskyLevels}

\* What a committed task can look like.
RowsOK ==
    \A t \in TaskIds : Exists(task[t]) =>
        /\ t < nextTask
        /\ task[t].state \in {"bypassed", "done", "running",
                              "pending_approval", "failed"}
        /\ task[t].risk \notin RiskyLevels => /\ task[t].state = "done"
                                              /\ task[t].decision = "undecided"
        /\ task[t].state = "failed" => task[t].order \in flawed

\* A risky committed task blocks, or has failed.
RiskyRowsBlock ==
    \A t \in TaskIds : Exists(task[t]) /\ task[t].risk \in RiskyLevels =>
        Blocks(task[t]) \/ task[t].state = "failed"

\* What an open transaction can look like.
TxOK ==
    \A w \in Workers : tx[w].open =>
        /\ <<tx[w].order, tx[w].verdict>> \in sent
        /\ tx[w].id < nextTask
        /\ tx[w].wrote => sale[tx[w].order].imported
        /\ tx[w].cancels => /\ AutoReject
                            /\ sale[tx[w].order].imported
                            /\ sale[tx[w].order].cheap
                            /\ Normalize(tx[w].verdict) \in RiskyLevels
        /\ tx[w].id = 0 => tx[w].row = NoTask

\* The row it will insert.
NewRowOK ==
    \A w \in Workers : tx[w].open /\ tx[w].id # 0 =>
        /\ ~Exists(task[tx[w].id])
        /\ Exists(tx[w].row)
        /\ tx[w].row.order = tx[w].order
        /\ tx[w].row.risk = Normalize(tx[w].verdict)
        /\ tx[w].row.decision = "undecided"
        /\ IF Normalize(tx[w].verdict) \in RiskyLevels
           THEN tx[w].row.state \in {"bypassed", "running", "failed"}
           ELSE tx[w].row.state = "done"

DistinctIds ==
    \A w, v \in Workers : /\ tx[w].open /\ tx[v].open
                          /\ tx[w].id # 0 /\ tx[w].id = tx[v].id
                          => w = v

\* A run belongs to a risky task, committed, about to be, or rolled back.
RunsOK ==
    \A r \in RunIds : run[r].pc # "none" =>
        /\ run[r].task \in TaskIds /\ run[r].task < nextTask
        /\ Exists(task[run[r].task]) =>
              /\ task[run[r].task].order = run[r].order
              /\ task[run[r].task].risk \in RiskyLevels
        /\ \A w \in Workers : tx[w].open /\ tx[w].id = run[r].task =>
              /\ tx[w].order = run[r].order
              /\ Normalize(tx[w].verdict) \in RiskyLevels

\* Whatever says that a verdict was dealt with is backed by a task.
Witnessed ==
    /\ \A o \in Orders : sale[o].level \in RiskyLevels => RiskyTasks(o) # {}
    /\ \A o \in answered : RiskyTasks(o) # {}
    /\ \A w \in Workers, o \in Orders :
          /\ tx[w].open /\ tx[w].id = 0 /\ tx[w].order = o
          /\ Normalize(tx[w].verdict) \in RiskyLevels
          => RiskyTasks(o) # {}

OneRiskyTask ==
    \A o \in Orders \ flawed : \A s, t \in RiskyTasks(o) : s = t

\* A transaction about to add a risky task to an order in good standing wrote
\* its sale.order, and can commit only if no risky task was added meanwhile.
SecondTaskConflicts ==
    \A w \in Workers, o \in Orders \ flawed :
        /\ tx[w].open /\ tx[w].id # 0 /\ tx[w].order = o /\ ~tx[w].early
        /\ Normalize(tx[w].verdict) \in RiskyLevels
        => tx[w].wrote /\ (tx[w].stale \/ RiskyTasks(o) = {})

IInv ==
    /\ TypeOK
    /\ RowsOK /\ RiskyRowsBlock
    /\ TxOK /\ NewRowOK /\ DistinctIds
    /\ RunsOK
    /\ Witnessed
    /\ OneRiskyTask /\ SecondTaskConflicts
    /\ CancelJustified

-----------------------------------------------------------------------------
(* Type correctness *)

\* The records that stand for no task, no transaction and no run are well-typed.
LEMMA NullRecords ==
    /\ NoTask \in Task
    /\ NoTx \in Tx
    /\ NoRun \in Run
    /\ ~Exists(NoTask)
<1>1. (CHOOSE o \in Orders : TRUE) \in Orders
    BY OrdersAssumption
<1>2. (CHOOSE v \in Verdicts : TRUE) \in Verdicts
    BY GatekeeperAssumption
<1>3. NoTask \in Task /\ ~Exists(NoTask)
    BY <1>1 DEF NoTask, Task, States, Levels, Decisions, Exists
<1>4. NoTx \in Tx
    BY <1>1, <1>2, <1>3, GatekeeperAssumption DEF NoTx, Tx
<1>5. NoRun \in Run
    BY <1>1, GatekeeperAssumption DEF NoRun, Run
<1> QED BY <1>3, <1>4, <1>5

\* _normalize_risk always answers one of the four levels.
LEMMA NormalizeType ==
    ASSUME NEW v PROVE Normalize(v) \in Levels
BY DEF Normalize, Levels

\* The operators on one row keep its type, its order and its risk level.
LEMMA DispatchedRow ==
    ASSUME NEW x \in Task, NEW b \in BOOLEAN
    PROVE  /\ DispatchedTask(x, b) \in Task
           /\ DispatchedTask(x, b).order = x.order
           /\ DispatchedTask(x, b).risk = x.risk
           /\ DispatchedTask(x, b).decision = x.decision
           /\ DispatchedTask(x, b).state = IF b THEN "running" ELSE "failed"
BY DEF DispatchedTask, Task, States

\* register_agent_run writes the state only.
LEMMA RegisteredRow ==
    ASSUME NEW x \in Task
    PROVE  /\ RegisteredTask(x) \in Task
           /\ RegisteredTask(x).order = x.order
           /\ RegisteredTask(x).risk = x.risk
           /\ RegisteredTask(x).decision = x.decision
           /\ RegisteredTask(x).state = "pending_approval"
BY DEF RegisteredTask, Task, States

\* ai_ops_set_approval writes the decision and the state.
LEMMA DecidedRow ==
    ASSUME NEW x \in Task, NEW d \in Decisions
    PROVE  /\ DecidedTask(x, d) \in Task
           /\ DecidedTask(x, d).order = x.order
           /\ DecidedTask(x, d).risk = x.risk
           /\ DecidedTask(x, d).decision = d
           /\ DecidedTask(x, d).state = "done"
BY DEF DecidedTask, Task, States, Decisions

\* The cron writes the state only.
LEMMA ExpiredRow ==
    ASSUME NEW x \in Task
    PROVE  /\ ExpiredTask(x) \in Task
           /\ ExpiredTask(x).order = x.order
           /\ ExpiredTask(x).risk = x.risk
           /\ ExpiredTask(x).decision = x.decision
           /\ ExpiredTask(x).state = "failed"
BY DEF ExpiredTask, Task, States

\* The rows process_webhook inserts, dispatched or not, are tasks.
LEMMA NewTaskType ==
    ASSUME NEW o \in Orders, NEW level \in Levels, NEW st \in States,
           NEW b \in BOOLEAN
    PROVE  /\ NewTask(o, level, st, b) \in Task
           /\ NewTask(o, level, st, b).order = o
           /\ NewTask(o, level, st, b).risk = level
           /\ NewTask(o, level, st, b).state = st
           /\ NewTask(o, level, st, b).decision = "undecided"
BY DEF NewTask, Task

\* A conflicting write keeps the shape of the open transactions.
LEMMA TouchType ==
    ASSUME NEW o \in Orders, NEW txs \in [Workers -> Tx]
    PROVE  Touch(o, txs) \in [Workers -> Tx]
BY DEF Touch, Tx

\* What Open keeps of an evaluation is a transaction.
LEMMA OpenType ==
    ASSUME TypeOK, NEW w \in Workers, NEW m \in Orders \X Verdicts,
           NEW id \in 0..MaxTasks, NEW row \in Task, NEW b \in BOOLEAN,
           NEW ok \in BOOLEAN, Open(w, m, id, row, b, ok)
    PROVE  tx' \in [Workers -> Tx]
<1>1. m[1] \in Orders /\ m[2] \in Verdicts
    OBVIOUS
<1>2. (WritesLevel(m[1], Normalize(m[2])) \/ b) \in BOOLEAN
    OBVIOUS
<1>3. (~sale[m[1]].imported) \in BOOLEAN
    OBVIOUS
<1> DEFINE x == [open |-> TRUE, order |-> m[1], verdict |-> m[2], id |-> id,
               row |-> row,
               wrote |-> WritesLevel(m[1], Normalize(m[2])) \/ b,
               cancels |-> b, stale |-> FALSE, ok |-> ok,
               early |-> ~sale[m[1]].imported]
<1>4. x \in Tx
    BY <1>1, <1>2, <1>3 DEF Tx
<1> HIDE DEF x
<1>5. tx' = [tx EXCEPT ![w] = x]
    BY DEF Open, x
<1> QED BY <1>4, <1>5 DEF TypeOK


\* The initial state has its types.
LEMMA InitType == Init => TypeOK
<1> SUFFICES ASSUME Init PROVE TypeOK
    OBVIOUS
<1>1. sale \in [Orders -> SaleOrder] /\ shop \in [Orders -> {"open", "cancelled"}]
    BY DEF Init, SaleOrder
<1>2. /\ task \in [TaskIds -> Task]
      /\ tx \in [Workers -> Tx]
      /\ run \in [RunIds -> Run]
    BY NullRecords DEF Init
<1>3. nextTask \in 1..(MaxTasks + 1) /\ nextRun \in 1..(MaxRuns + 1)
    BY GatekeeperAssumption DEF Init
<1>4. \A r \in RunIds : run[r].pc = "none"
    BY DEF Init, NoRun
<1> QED BY <1>1, <1>2, <1>3, <1>4 DEF Init, TypeOK

\* The POST to the agent hands out the next run, or none.
LEMMA PostType ==
    ASSUME TypeOK, NEW outcome, NEW id \in TaskIds, NEW o \in Orders,
           PostToAgent(outcome, id, o)
    PROVE  /\ run' \in [RunIds -> Run]
           /\ \A r \in RunIds : run'[r].pc # "none" => run'[r].task \in TaskIds
           /\ nextRun' \in 1..(MaxRuns + 1)
<1>0. id \in 0..MaxTasks
    BY GatekeeperAssumption DEF TaskIds
<1>1. CASE outcome = "refused"
    BY <1>1 DEF PostToAgent, TypeOK
<1>2. CASE outcome # "refused"
    <2>1. [task |-> id, order |-> o, pc |-> "analyzing"] \in Run
        BY <1>0 DEF Run
    <2>2. nextRun \in RunIds /\ nextRun' \in 1..(MaxRuns + 1)
        BY <1>2, GatekeeperAssumption DEF PostToAgent, TypeOK, RunIds
    <2>3. run' = [run EXCEPT ![nextRun] =
                     [task |-> id, order |-> o, pc |-> "analyzing"]]
        BY <1>2 DEF PostToAgent
    <2>4. run' \in [RunIds -> Run]
        BY <2>1, <2>3 DEF TypeOK
    <2>5. \A r \in RunIds : run'[r].pc # "none" => run'[r].task \in TaskIds
        BY <2>3 DEF TypeOK
    <2> QED BY <2>2, <2>4, <2>5
<1> QED BY <1>1, <1>2

\* A run that only moves on stays well-typed.
LEMMA RunStepType ==
    ASSUME TypeOK, NEW r \in RunIds, NEW pc \in {"waiting", "over"},
           run[r].pc # "none", run' = [run EXCEPT ![r].pc = pc]
    PROVE  /\ run' \in [RunIds -> Run]
           /\ \A q \in RunIds : run'[q].pc # "none" => run'[q].task \in TaskIds
BY DEF TypeOK, Run

\* A decision keeps the types of the table, the orders and the transactions.
LEMMA SetApprovalType ==
    ASSUME TypeOK, NEW t \in TaskIds, NEW d \in Decisions, SetApproval(t, d)
    PROVE  /\ task' \in [TaskIds -> Task]
           /\ shop' \in [Orders -> {"open", "cancelled"}]
           /\ sale' \in [Orders -> SaleOrder]
           /\ tx' \in [Workers -> Tx]
<1> DEFINE o == task[t].order
<1>1. o \in Orders
    BY DEF TypeOK, Task
<1>2. task' \in [TaskIds -> Task]
    <2>1. DecidedTask(task[t], d) \in Task
        BY DecidedRow DEF TypeOK
    <2> QED BY <2>1 DEF SetApproval, TypeOK
<1>3. shop' \in [Orders -> {"open", "cancelled"}]
    BY DEF SetApproval, CancelInShopify, TypeOK
<1>4. sale' \in [Orders -> SaleOrder] /\ tx' \in [Workers -> Tx]
    <2>1. Touch(o, tx) \in [Workers -> Tx]
        BY <1>1, TouchType DEF TypeOK
    <2>2. [sale EXCEPT ![o].state = "cancel"] \in [Orders -> SaleOrder]
        BY <1>1 DEF TypeOK, SaleOrder
    <2> QED BY <2>1, <2>2 DEF SetApproval, TypeOK
<1> QED BY <1>2, <1>3, <1>4

\* Every step keeps the types, one action at a time.
LEMMA NextType == TypeOK /\ [Next]_vars => TypeOK'
<1> SUFFICES ASSUME TypeOK, [Next]_vars PROVE TypeOK'
    OBVIOUS
<1>1. ASSUME NEW o \in Orders, NEW v \in Verdicts, ShopifyAssesses(o, v)
      PROVE  TypeOK'
    BY <1>1 DEF ShopifyAssesses, TypeOK, history
<1>2. ASSUME NEW o \in Orders, NEW cheap \in BOOLEAN, OrderImported(o, cheap)
      PROVE  TypeOK'
    <2>1. sale' \in [Orders -> SaleOrder]
        BY <1>2 DEF OrderImported, TypeOK, SaleOrder
    <2> QED BY <1>2, <2>1 DEF OrderImported, TypeOK, history
<1>3. ASSUME NEW w \in Workers, NEW m \in Orders \X Verdicts, Evaluate(w, m)
      PROVE  TypeOK'
    <2> DEFINE o == m[1]
               level == Normalize(m[2])
    <2>1. o \in Orders /\ level \in Levels
        BY NormalizeType
    <2>3. CASE SkipDuplicate(w, m)
        <3>1. tx' \in [Workers -> Tx]
            <4>1. Open(w, m, 0, NoTask, FALSE, TRUE)
                BY <2>3 DEF SkipDuplicate
            <4>2. 0 \in 0..MaxTasks
                BY GatekeeperAssumption
            <4> QED BY <4>1, <4>2, OpenType, NullRecords
        <3> QED BY <2>3, <3>1 DEF SkipDuplicate, TypeOK, history
    <2>4. CASE AutoRejectOrder(w, m)
        <3>1. /\ nextTask \in 0..MaxTasks /\ nextTask \in TaskIds
              /\ nextTask' \in 1..(MaxTasks + 1)
            BY <2>4, GatekeeperAssumption
            DEF AutoRejectOrder, Fresh, TaskIds, TypeOK
        <3>2. NewTask(o, level, "bypassed", TRUE) \in Task
            BY <2>1, NewTaskType DEF States
        <3>3. PICK odooOk \in BOOLEAN :
                 Open(w, m, nextTask, NewTask(o, level, "bypassed", TRUE),
                      odooOk /\ sale[o].state = "open", TRUE)
            BY <2>4 DEF AutoRejectOrder
        <3>4. tx' \in [Workers -> Tx]
            BY <3>1, <3>2, <3>3, OpenType
        <3>5. shop' \in [Orders -> {"open", "cancelled"}]
            BY <2>4 DEF AutoRejectOrder, CancelInShopify, TypeOK
        <3> QED BY <2>4, <3>1, <3>4, <3>5 DEF AutoRejectOrder, TypeOK, history
    <2>5. CASE RecordBenign(w, m)
        <3>1. /\ nextTask \in 0..MaxTasks /\ nextTask \in TaskIds
              /\ nextTask' \in 1..(MaxTasks + 1)
            BY <2>5, GatekeeperAssumption
            DEF RecordBenign, Fresh, TaskIds, TypeOK
        <3>2. NewTask(o, level, "done", sale[o].imported) \in Task
            BY <2>1, NewTaskType DEF States, TypeOK, SaleOrder
        <3>3. tx' \in [Workers -> Tx]
            BY <2>5, <3>1, <3>2, OpenType DEF RecordBenign
        <3> QED BY <2>5, <3>1, <3>3 DEF RecordBenign, TypeOK, history
    <2>6. CASE Escalate(w, m)
        <3>1. /\ nextTask \in 0..MaxTasks /\ nextTask \in TaskIds
              /\ nextTask' \in 1..(MaxTasks + 1)
            BY <2>6, GatekeeperAssumption
            DEF Escalate, Fresh, TaskIds, TypeOK
        <3> DEFINE new == NewTask(o, level, "queued", sale[o].imported)
        <3>2. new \in Task
            BY <2>1, NewTaskType DEF States, TypeOK, SaleOrder
        <3> HIDE DEF new
        <3>3. PICK outcome \in Outcomes :
                 /\ PostToAgent(outcome, nextTask, o)
                 /\ Open(w, m, nextTask,
                         DispatchedTask(new, outcome = "accepted"),
                         FALSE, outcome = "accepted")
            BY <2>6 DEF Escalate, new
        <3>4. DispatchedTask(new, outcome = "accepted") \in Task
            BY <3>2 DEF DispatchedTask, Task, States
        <3>5. tx' \in [Workers -> Tx]
            BY <3>1, <3>3, <3>4, OpenType
        <3>6. /\ run' \in [RunIds -> Run]
              /\ \A r \in RunIds : run'[r].pc # "none" => run'[r].task \in TaskIds
              /\ nextRun' \in 1..(MaxRuns + 1)
            BY <2>1, <3>1, <3>3, PostType
        <3> QED BY <2>6, <3>1, <3>5, <3>6 DEF Escalate, TypeOK, history
    <2> QED BY <1>3, <2>3, <2>4, <2>5, <2>6 DEF Evaluate
<1>4. ASSUME NEW w \in Workers, Commit(w)
      PROVE  TypeOK'
    <2>1. tx[w] \in Tx /\ tx[w].order \in Orders /\ tx[w].row \in Task
        BY DEF TypeOK, Tx
    <2>2. [tx EXCEPT ![w] = NoTx] \in [Workers -> Tx]
        BY NullRecords DEF TypeOK
    <2>3. tx' \in [Workers -> Tx]
        BY <1>4, <2>1, <2>2, TouchType DEF Commit
    <2>4. task' \in [TaskIds -> Task]
        BY <1>4, <2>1 DEF Commit, TypeOK
    <2>5. sale' \in [Orders -> SaleOrder]
        BY <1>4, <2>1, NormalizeType DEF Commit, TypeOK, SaleOrder
    <2>6. answered' \in SUBSET Orders /\ flawed' \in SUBSET Orders
        BY <1>4, <2>1 DEF Commit, TypeOK
    <2> QED BY <1>4, <2>3, <2>4, <2>5, <2>6 DEF Commit, TypeOK
<1>5. ASSUME NEW w \in Workers, Rollback(w)
      PROVE  TypeOK'
    BY <1>5, NullRecords DEF Rollback, TypeOK, history
<1>6. ASSUME NEW t \in TaskIds, NEW d \in Decisions, OdooDecides(t, d)
      PROVE  TypeOK'
    <2>1. task[t].order \in Orders
        BY DEF TypeOK, Task
    <2>2. CASE SetApproval(t, d)
        BY <1>6, <2>1, <2>2, SetApprovalType DEF OdooDecides, TypeOK
    <2>3. CASE DecisionLost(t, d)
        BY <1>6, <2>1, <2>3 DEF OdooDecides, DecisionLost, TypeOK
    <2> QED BY <1>6, <2>2, <2>3 DEF OdooDecides
<1>7. ASSUME NEW t \in TaskIds, Redispatch(t)
      PROVE  TypeOK'
    <2>1. task[t] \in Task /\ task[t].order \in Orders /\ t \in 0..MaxTasks
        BY GatekeeperAssumption DEF TypeOK, Task, TaskIds
    <2>2. DispatchedTask(task[t], TRUE) \in Task
        BY <2>1, DispatchedRow
    <2>3. PICK outcome \in Outcomes :
             /\ PostToAgent(outcome, t, task[t].order)
             /\ task' = IF outcome = "accepted"
                        THEN [task EXCEPT ![t] = DispatchedTask(@, TRUE)]
                        ELSE task
        BY <1>7 DEF Redispatch
    <2>4. /\ run' \in [RunIds -> Run]
          /\ \A r \in RunIds : run'[r].pc # "none" => run'[r].task \in TaskIds
          /\ nextRun' \in 1..(MaxRuns + 1)
        BY <2>1, <2>3, PostType
    <2>5. task' \in [TaskIds -> Task]
        BY <2>2, <2>3 DEF TypeOK
    <2> QED BY <1>7, <2>4, <2>5 DEF Redispatch, TypeOK, history
<1>8. ASSUME NEW stale \in SUBSET TaskIds, ExpireStaleTasks(stale)
      PROVE  TypeOK'
    <2>1. task' \in [TaskIds -> Task]
        BY <1>8, ExpiredRow DEF ExpireStaleTasks, TypeOK
    <2>2. flawed' \in SUBSET Orders
        BY <1>8 DEF ExpireStaleTasks, TypeOK, Task
    <2> QED BY <1>8, <2>1, <2>2 DEF ExpireStaleTasks, TypeOK
<1>9. ASSUME NEW r \in RunIds, RunNotifies(r)
      PROVE  TypeOK'
    <2>1. task' \in [TaskIds -> Task]
        <3>1. RegisteredTask(task[run[r].task]) \in Task
            BY <1>9, RegisteredRow DEF RunNotifies, TypeOK
        <3> QED BY <1>9, <3>1 DEF RunNotifies, TypeOK
    <2>2. run' = [run EXCEPT ![r].pc = "waiting"] /\ run[r].pc # "none"
        BY <1>9 DEF RunNotifies
    <2>3. /\ run' \in [RunIds -> Run]
          /\ \A q \in RunIds : run'[q].pc # "none" => run'[q].task \in TaskIds
        BY <2>2, RunStepType
    <2> QED BY <1>9, <2>1, <2>3 DEF RunNotifies, TypeOK, history
<1>10. ASSUME NEW r \in RunIds, RunDies(r)
       PROVE  TypeOK'
    <2>1. run' = [run EXCEPT ![r].pc = "over"] /\ run[r].pc # "none"
        BY <1>10 DEF RunDies
    <2>2. /\ run' \in [RunIds -> Run]
          /\ \A q \in RunIds : run'[q].pc # "none" => run'[q].task \in TaskIds
        BY <2>1, RunStepType
    <2> QED BY <1>10, <2>2 DEF RunDies, TypeOK, history
<1>11. ASSUME NEW r \in RunIds, NEW d \in Decisions, RunDecides(r, d)
       PROVE  TypeOK'
    <2> DEFINE t == run[r].task
    <2>1. run[r] \in Run /\ run[r].order \in Orders
        BY DEF TypeOK, Run
    <2>2. /\ run' \in [RunIds -> Run]
          /\ \A q \in RunIds : run'[q].pc # "none" => run'[q].task \in TaskIds
        <3>1. CASE run' = [run EXCEPT ![r].pc = "over"]
            BY <1>11, <3>1, RunStepType DEF RunDecides
        <3>2. CASE UNCHANGED run
            BY <3>2 DEF TypeOK
        <3> QED BY <1>11, <3>1, <3>2 DEF RunDecides
    <2>3. CASE Exists(task[t]) /\ SetApproval(t, d)
        <3>1. t \in TaskIds
            BY <1>11 DEF RunDecides, TypeOK
        <3> QED BY <1>11, <2>1, <2>2, <2>3, <3>1, SetApprovalType
                DEF RunDecides, TypeOK
    <2>4. CASE DecisionLost(t, d)
        BY <1>11, <2>1, <2>2, <2>4 DEF RunDecides, DecisionLost, TypeOK
    <2> QED BY <1>11, <2>3, <2>4 DEF RunDecides
<1>12. CASE UNCHANGED vars
    BY <1>12 DEF vars, TypeOK
<1> QED
    BY <1>1, <1>2, <1>3, <1>4, <1>5, <1>6, <1>7, <1>8, <1>9, <1>10, <1>11, <1>12
    DEF Next

\* Every reachable state is well typed.
THEOREM TypeCorrect == Spec => []TypeOK
<1> QED BY InitType, NextType, PTL DEF Spec

-----------------------------------------------------------------------------
(* The invariant *)

\* The initial state satisfies the inductive invariant: there is no task and no
\* open transaction.
LEMMA InitIInv == Init => IInv
<1> SUFFICES ASSUME Init PROVE IInv
    OBVIOUS
<1>1. \A t \in TaskIds : ~Exists(task[t])
    BY NullRecords DEF Init
<1>2. \A w \in Workers : tx[w].open = FALSE
    BY DEF Init, NoTx
<1>3. \A r \in RunIds : run[r].pc = "none"
    BY DEF Init, NoRun
<1>4. \A o \in Orders : RiskyTasks(o) = {}
    BY <1>1 DEF RiskyTasks
<1>5. \A o \in Orders : sale[o].level \notin RiskyLevels
    BY DEF Init, RiskyLevels
<1>6. CancelJustified
    BY DEF Init, CancelJustified
<1>7. TypeOK
    BY InitType
<1>8. RowsOK /\ RiskyRowsBlock
    BY <1>1 DEF RowsOK, RiskyRowsBlock
<1>9. TxOK /\ NewRowOK /\ DistinctIds /\ SecondTaskConflicts
    BY <1>2 DEF TxOK, NewRowOK, DistinctIds, SecondTaskConflicts
<1>10. RunsOK
    BY <1>3 DEF RunsOK
<1>11. answered = {}
    BY DEF Init
<1>12. Witnessed /\ OneRiskyTask
    BY <1>2, <1>4, <1>5, <1>11 DEF Witnessed, OneRiskyTask
<1> QED BY <1>6, <1>7, <1>8, <1>9, <1>10, <1>12 DEF IInv

\* What all steps but Evaluate and Commit have in common: rows are neither
\* added nor removed, and keep their order and risk; open transactions only
\* close or become stale; a sale.order keeps its level, and what its import set.
RowsKept ==
    \A t \in TaskIds : /\ Exists(task'[t]) <=> Exists(task[t])
                       /\ task'[t].order = task[t].order
                       /\ task'[t].risk = task[t].risk

TxKept ==
    \A w \in Workers : tx'[w].open =>
        /\ tx[w].open
        /\ tx'[w].order = tx[w].order
        /\ tx'[w].verdict = tx[w].verdict
        /\ tx'[w].id = tx[w].id
        /\ tx'[w].row = tx[w].row
        /\ tx'[w].wrote <=> tx[w].wrote
        /\ tx'[w].cancels <=> tx[w].cancels
        /\ tx'[w].early <=> tx[w].early
        /\ tx[w].stale => tx'[w].stale

SaleKept ==
    \A o \in Orders : /\ sale[o].imported => /\ sale'[o].imported
                                             /\ sale'[o].cheap <=> sale[o].cheap
                      /\ sale'[o].level = sale[o].level

RowStep ==
    /\ RowsKept /\ TxKept /\ SaleKept
    /\ UNCHANGED <<nextTask, answered>>
    /\ sent \subseteq sent'
    /\ flawed \subseteq flawed'

\* Such a step preserves all that does not speak of a row's state.
LEMMA RowStepInv ==
    ASSUME IInv, RowStep
    PROVE  /\ TxOK' /\ NewRowOK' /\ DistinctIds'
           /\ Witnessed' /\ OneRiskyTask' /\ SecondTaskConflicts'
<1>1. \A o \in Orders : RiskyTasks(o)' = RiskyTasks(o)
    BY DEF RiskyTasks, RowStep, RowsKept
<1>2. TypeOK
    BY DEF IInv
<1>3. \A w \in Workers : tx[w].order \in Orders /\ tx[w].id \in 0..MaxTasks
    BY <1>2 DEF TypeOK, Tx
<1>4. TxOK'
    BY <1>3 DEF IInv, TxOK, RowStep, TxKept, SaleKept
<1>5. NewRowOK'
    <2>1. \A w \in Workers : tx[w].id # 0 => tx[w].id \in TaskIds
        BY <1>3, GatekeeperAssumption DEF TaskIds
    <2> QED BY <2>1 DEF IInv, NewRowOK, RowStep, TxKept, RowsKept
<1>6. DistinctIds'
    BY DEF IInv, DistinctIds, RowStep, TxKept
<1>7. Witnessed'
    <2>1. \A o \in Orders : sale'[o].level \in RiskyLevels => RiskyTasks(o)' # {}
        BY <1>1 DEF IInv, Witnessed, RowStep, SaleKept
    <2>2. \A o \in answered' : RiskyTasks(o)' # {}
        BY <1>1, <1>2 DEF IInv, Witnessed, RowStep, TypeOK
    <2>3. \A w \in Workers, o \in Orders :
             /\ tx'[w].open /\ tx'[w].id = 0 /\ tx'[w].order = o
             /\ Normalize(tx'[w].verdict) \in RiskyLevels
             => RiskyTasks(o)' # {}
        BY <1>1, <1>3 DEF IInv, Witnessed, RowStep, TxKept
    <2> QED BY <2>1, <2>2, <2>3 DEF Witnessed
<1>8. OneRiskyTask'
    BY <1>1 DEF IInv, OneRiskyTask, RowStep
<1>9. SecondTaskConflicts'
    BY <1>1, <1>3 DEF IInv, SecondTaskConflicts, RowStep, TxKept
<1> QED BY <1>4, <1>5, <1>6, <1>7, <1>8, <1>9

RunsKept ==
    \A r \in RunIds : run'[r].pc # "none" => /\ run[r].pc # "none"
                                             /\ run'[r].task = run[r].task
                                             /\ run'[r].order = run[r].order

\* A step that starts no run, and keeps the rows, keeps what is known of the runs.
LEMMA RunsKeptInv ==
    ASSUME IInv, RowStep, RunsKept
    PROVE  RunsOK'
<1>1. TypeOK
    BY DEF IInv
<1>2. \A r \in RunIds : run'[r].pc # "none" =>
          /\ run'[r].task \in TaskIds /\ run'[r].task < nextTask'
          /\ Exists(task'[run'[r].task]) =>
                /\ task'[run'[r].task].order = run'[r].order
                /\ task'[run'[r].task].risk \in RiskyLevels
    BY DEF IInv, RunsOK, RowStep, RowsKept, RunsKept
<1>3. \A r \in RunIds : run'[r].pc # "none" =>
          \A w \in Workers : tx'[w].open /\ tx'[w].id = run'[r].task =>
              /\ tx'[w].order = run'[r].order
              /\ Normalize(tx'[w].verdict) \in RiskyLevels
    BY DEF IInv, RunsOK, RowStep, TxKept, RunsKept
<1> QED BY <1>2, <1>3 DEF RunsOK

\* A conflicting write only marks open transactions stale.
LEMMA TouchKeeps ==
    ASSUME TypeOK, NEW o, tx' = Touch(o, tx)
    PROVE  TxKept
<1> SUFFICES ASSUME NEW w \in Workers
             PROVE  /\ tx'[w].open <=> tx[w].open
                    /\ tx'[w].order = tx[w].order
                    /\ tx'[w].verdict = tx[w].verdict
                    /\ tx'[w].id = tx[w].id
                    /\ tx'[w].row = tx[w].row
                    /\ tx'[w].wrote <=> tx[w].wrote
                    /\ tx'[w].cancels <=> tx[w].cancels
                    /\ tx'[w].early <=> tx[w].early
                    /\ tx[w].stale => tx'[w].stale
    BY DEF TxKept
<1>1. tx[w] \in Tx
    BY DEF TypeOK
<1>2. CASE tx[w].wrote /\ tx[w].order = o
    <2>1. tx'[w] = [tx[w] EXCEPT !.stale = TRUE]
        BY <1>2 DEF Touch
    <2> QED BY <1>1, <2>1 DEF Tx
<1>3. CASE ~(tx[w].wrote /\ tx[w].order = o)
    BY <1>3 DEF Touch
<1> QED BY <1>2, <1>3

\* ai_ops_set_approval on a risky task, when the manager's rejection is noted.
LEMMA SetApprovalInv ==
    ASSUME IInv, NEW t \in TaskIds, NEW d \in Decisions, SetApproval(t, d),
           Exists(task[t]), task[t].risk \in RiskyLevels,
           UNCHANGED <<sent, nextTask, answered, flawed>>,
           vetoed \subseteq vetoed',
           d = "reject" => task[t].order \in vetoed'
    PROVE  RowStep /\ RowsOK' /\ RiskyRowsBlock' /\ CancelJustified'
<1> DEFINE o == task[t].order
<1>1. TypeOK
    BY DEF IInv
<1>2. task[t] \in Task /\ o \in Orders
    BY <1>1 DEF TypeOK, Task
<1>3. task' = [task EXCEPT ![t] = DecidedTask(task[t], d)]
    BY DEF SetApproval
<1>4. /\ task'[t].order = o
      /\ task'[t].risk = task[t].risk
      /\ task'[t].decision = d
      /\ task'[t].state = "done"
    BY <1>1, <1>2, <1>3, DecidedRow DEF TypeOK
<1>5. \A s \in TaskIds \ {t} : task'[s] = task[s]
    BY <1>1, <1>3 DEF TypeOK
<1>6. RowsKept
    BY <1>4, <1>5 DEF RowsKept, Exists
<1>7. TxKept
    <2>1. CASE UNCHANGED tx
        BY <2>1 DEF TxKept
    <2>2. CASE tx' = Touch(o, tx)
        BY <2>2, <1>1, TouchKeeps
    <2> QED BY <2>1, <2>2 DEF SetApproval
<1>8. \/ UNCHANGED sale
      \/ d = "reject" /\ sale' = [sale EXCEPT ![o].state = "cancel"]
    BY DEF SetApproval
<1>9. SaleKept
    BY <1>1, <1>2, <1>8 DEF SaleKept, TypeOK, SaleOrder
<1>10. RowStep
    BY <1>6, <1>7, <1>9 DEF RowStep
<1>11. RowsOK'
    BY <1>4, <1>5, <1>6 DEF IInv, RowsOK, RowsKept
<1>12. RiskyRowsBlock'
    BY <1>4, <1>5, <1>6 DEF IInv, RiskyRowsBlock, RowsKept, Blocks
<1>13. CancelJustified'
    <2> SUFFICES ASSUME NEW p \in Orders,
                        shop'[p] = "cancelled" \/ sale'[p].state = "cancel"
                 PROVE  \/ p \in vetoed'
                        \/ /\ AutoReject
                           /\ sale'[p].imported /\ sale'[p].cheap
                           /\ AssessedRisky(p)'
        BY DEF CancelJustified
    <2>1. CASE p = o /\ d = "reject"
        BY <2>1
    <2>2. CASE ~(p = o /\ d = "reject")
        <3>1. shop'[p] = shop[p]
            BY <1>1, <2>2 DEF SetApproval, CancelInShopify, TypeOK
        <3>2. sale'[p].state = sale[p].state
            BY <1>1, <1>8, <2>2 DEF TypeOK, SaleOrder
        <3>3. AssessedRisky(p)' <=> AssessedRisky(p)
            BY DEF AssessedRisky
        <3> QED BY <1>9, <3>1, <3>2, <3>3
                DEF IInv, CancelJustified, SaleKept
    <2> QED BY <2>1, <2>2
<1> QED BY <1>10, <1>11, <1>12, <1>13

\* A decision that is lost cancels an order that a manager rejected, or nothing.
LEMMA DecisionLostInv ==
    ASSUME IInv, NEW t \in TaskIds, NEW d \in Decisions, DecisionLost(t, d),
           UNCHANGED <<sent, nextTask, answered, flawed>>,
           vetoed \subseteq vetoed',
           d = "reject" /\ Exists(task[t]) => task[t].order \in vetoed'
    PROVE  RowStep /\ RowsOK' /\ RiskyRowsBlock' /\ CancelJustified'
<1>1. UNCHANGED <<task, sale, tx>>
    BY DEF DecisionLost
<1>2. RowStep
    BY <1>1 DEF RowStep, RowsKept, TxKept, SaleKept
<1>3. RowsOK' /\ RiskyRowsBlock'
    BY <1>1 DEF IInv, RowsOK, RiskyRowsBlock
<1>4. \A o \in Orders : AssessedRisky(o)' <=> AssessedRisky(o)
    BY DEF AssessedRisky
<1>5. \A o \in Orders : shop'[o] = "cancelled" =>
          shop[o] = "cancelled" \/ o \in vetoed'
    BY DEF DecisionLost, IInv, TypeOK
<1>6. CancelJustified'
    BY <1>1, <1>4, <1>5 DEF IInv, CancelJustified
<1> QED BY <1>2, <1>3, <1>6

\* The Approve and Reject buttons.
LEMMA OdooDecidesInv ==
    ASSUME IInv, TypeOK', NEW t \in TaskIds, NEW d \in Decisions,
           OdooDecides(t, d)
    PROVE  IInv'
<1>1. Exists(task[t]) /\ task[t].risk \in RiskyLevels
    BY DEF IInv, RowsOK, OdooDecides, Exists
<1>2. /\ SetApproval(t, d) \/ DecisionLost(t, d)
      /\ UNCHANGED <<sent, nextTask, run, nextRun, answered, flawed>>
      /\ vetoed \subseteq vetoed'
      /\ d = "reject" => task[t].order \in vetoed'
    BY DEF OdooDecides
<1>3. RowStep /\ RowsOK' /\ RiskyRowsBlock' /\ CancelJustified'
    BY <1>1, <1>2, SetApprovalInv, DecisionLostInv
<1>4. RunsOK'
    BY <1>2, <1>3, RunsKeptInv DEF RunsKept
<1> QED BY <1>3, <1>4, RowStepInv DEF IInv

\* A step that leaves sale, shop and vetoed alone cancels nothing.
LEMMA NothingCancelled ==
    ASSUME IInv, UNCHANGED <<sale, shop, vetoed>>, sent \subseteq sent'
    PROVE  CancelJustified'
<1>1. \A o \in Orders : AssessedRisky(o) => AssessedRisky(o)'
    BY DEF AssessedRisky
<1> QED BY <1>1 DEF IInv, CancelJustified

\* A row that changes its state to newState, and keeps the rest.
LEMMA RowChanges ==
    ASSUME IInv, NEW t \in TaskIds, NEW row,
           task' = [task EXCEPT ![t] = row],
           Exists(task[t]), task[t].risk \in RiskyLevels,
           row.order = task[t].order, row.risk = task[t].risk,
           row.decision = task[t].decision,
           row.state \in {"running", "pending_approval"},
           UNCHANGED <<sale, shop, sent, nextTask, tx, answered, vetoed, flawed>>
    PROVE  RowStep /\ RowsOK' /\ RiskyRowsBlock' /\ CancelJustified'
<1>1. TypeOK
    BY DEF IInv
<1>2. task'[t] = row /\ \A s \in TaskIds \ {t} : task'[s] = task[s]
    BY <1>1 DEF TypeOK
<1>3. RowsKept
    BY <1>2 DEF RowsKept, Exists
<1>4. RowStep
    BY <1>3 DEF RowStep, TxKept, SaleKept
<1>5. RowsOK'
    BY <1>2, <1>3 DEF IInv, RowsOK, RowsKept
<1>6. RiskyRowsBlock'
    BY <1>2, <1>3 DEF IInv, RiskyRowsBlock, RowsKept, Blocks, InFlight
<1> QED BY <1>4, <1>5, <1>6, NothingCancelled

\* A step that leaves the rows, the orders and the transactions alone keeps them.
LEMMA StutterRowStep ==
    ASSUME IInv,
           UNCHANGED <<sale, shop, sent, task, nextTask, tx, answered, vetoed,
                       flawed>>
    PROVE  RowStep /\ RowsOK' /\ RiskyRowsBlock' /\ CancelJustified'
<1>1. RowStep
    BY DEF RowStep, RowsKept, TxKept, SaleKept
<1>2. RowsOK' /\ RiskyRowsBlock'
    BY DEF IInv, RowsOK, RiskyRowsBlock
<1> QED BY <1>1, <1>2, NothingCancelled

\* register_agent_run, called by a run's notify.
LEMMA RunNotifiesInv ==
    ASSUME IInv, TypeOK', NEW r \in RunIds, RunNotifies(r)
    PROVE  IInv'
<1> DEFINE t == run[r].task
<1>1. TypeOK
    BY DEF IInv
<1>2. run[r].pc # "none" /\ t \in TaskIds
    BY <1>1 DEF RunNotifies, TypeOK
<1>3. UNCHANGED <<sale, shop, sent, nextTask, tx, answered, vetoed, flawed>>
    BY DEF RunNotifies, history
<1>4. RowStep /\ RowsOK' /\ RiskyRowsBlock' /\ CancelJustified'
    <2>1. CASE Exists(task[t]) /\ task' = [task EXCEPT ![t] = RegisteredTask(@)]
        <3>1. task[t].risk \in RiskyLevels
            BY <1>2, <2>1 DEF IInv, RunsOK
        <3>2. task[t] \in Task
            BY <1>1, <1>2 DEF TypeOK
        <3> DEFINE row == RegisteredTask(task[t])
        <3>3. /\ row.order = task[t].order /\ row.risk = task[t].risk
              /\ row.decision = task[t].decision
              /\ row.state \in {"running", "pending_approval"}
            BY <3>2, RegisteredRow
        <3>4. task' = [task EXCEPT ![t] = row]
            BY <2>1
        <3> HIDE DEF row
        <3> QED BY <1>2, <1>3, <2>1, <3>1, <3>3, <3>4, RowChanges
    <2>2. CASE UNCHANGED task
        BY <1>3, <2>2, StutterRowStep
    <2> QED BY <2>1, <2>2 DEF RunNotifies
<1>5. RunsKept
    <2>1. run' = [run EXCEPT ![r].pc = "waiting"]
        BY DEF RunNotifies
    <2> QED BY <1>1, <1>2, <2>1 DEF RunsKept, TypeOK, Run
<1>6. RunsOK'
    BY <1>4, <1>5, RunsKeptInv
<1> QED BY <1>4, <1>6, RowStepInv DEF IInv

\* A run that ends without a decision.
LEMMA RunDiesInv ==
    ASSUME IInv, TypeOK', NEW r \in RunIds, RunDies(r)
    PROVE  IInv'
<1>1. TypeOK
    BY DEF IInv
<1>2. RowStep /\ RowsOK' /\ RiskyRowsBlock' /\ CancelJustified'
    BY StutterRowStep DEF RunDies, history
<1>3. RunsKept
    <2>1. run' = [run EXCEPT ![r].pc = "over"] /\ run[r].pc # "none"
        BY DEF RunDies
    <2> QED BY <1>1, <2>1 DEF RunsKept, TypeOK, Run
<1>4. RunsOK'
    BY <1>2, <1>3, RunsKeptInv
<1> QED BY <1>2, <1>4, RowStepInv DEF IInv

\* ai_ops_set_approval, called by a run's finalize.
LEMMA RunDecidesInv ==
    ASSUME IInv, TypeOK', NEW r \in RunIds, NEW d \in Decisions, RunDecides(r, d)
    PROVE  IInv'
<1> DEFINE t == run[r].task
<1>1. TypeOK
    BY DEF IInv
<1>2. run[r].pc # "none" /\ t \in TaskIds
    BY <1>1 DEF RunDecides, TypeOK
<1>3. /\ UNCHANGED <<sent, nextTask, answered, flawed>>
      /\ vetoed \subseteq vetoed'
      /\ d = "reject" => run[r].order \in vetoed'
    BY DEF RunDecides
<1>4. RowStep /\ RowsOK' /\ RiskyRowsBlock' /\ CancelJustified'
    <2>1. CASE Exists(task[t]) /\ SetApproval(t, d)
        <3>1. task[t].risk \in RiskyLevels /\ task[t].order = run[r].order
            BY <1>2, <2>1 DEF IInv, RunsOK
        <3> QED BY <1>2, <1>3, <2>1, <3>1, SetApprovalInv
    <2>2. CASE DecisionLost(t, d)
        <3>1. Exists(task[t]) => task[t].order = run[r].order
            BY <1>2 DEF IInv, RunsOK
        <3> QED BY <1>2, <1>3, <2>2, <3>1, DecisionLostInv
    <2> QED BY <2>1, <2>2 DEF RunDecides
<1>5. RunsKept
    <2>1. run' = [run EXCEPT ![r].pc = "over"] \/ UNCHANGED run
        BY DEF RunDecides
    <2> QED BY <1>1, <1>2, <2>1 DEF RunsKept, TypeOK, Run
<1>6. RunsOK'
    BY <1>4, <1>5, RunsKeptInv
<1> QED BY <1>4, <1>6, RowStepInv DEF IInv

\* The cron: an order whose task it fails is flawed.
LEMMA ExpireInv ==
    ASSUME IInv, TypeOK', NEW stale \in SUBSET TaskIds, ExpireStaleTasks(stale)
    PROVE  IInv'
<1>1. TypeOK
    BY DEF IInv
<1>2. \A t \in TaskIds :
         /\ t \in stale => /\ task'[t].order = task[t].order
                           /\ task'[t].risk = task[t].risk
                           /\ task'[t].decision = task[t].decision
                           /\ task'[t].state = "failed"
                           /\ task[t].state \in {"running", "pending_approval"}
                           /\ task[t].order \in flawed'
         /\ t \notin stale => task'[t] = task[t]
    BY <1>1, ExpiredRow DEF ExpireStaleTasks, Expirable, TypeOK
<1>3. /\ UNCHANGED <<sale, shop, sent, nextTask, tx, run, answered, vetoed>>
      /\ flawed \subseteq flawed'
    BY DEF ExpireStaleTasks
<1>4. RowsKept
    BY <1>2 DEF RowsKept, Exists
<1>5. RowStep
    BY <1>3, <1>4 DEF RowStep, TxKept, SaleKept
<1>6. RowsOK'
    BY <1>2, <1>3, <1>4 DEF IInv, RowsOK, RowsKept, Exists
<1>7. RiskyRowsBlock'
    BY <1>2, <1>4 DEF IInv, RiskyRowsBlock, RowsKept, Blocks
<1>8. CancelJustified'
    BY <1>3, NothingCancelled
<1>9. RunsOK'
    BY <1>3, <1>5, RunsKeptInv DEF RunsKept
<1> QED BY <1>5, <1>6, <1>7, <1>8, <1>9, RowStepInv DEF IInv

\* The Re-dispatch button.
LEMMA RedispatchInv ==
    ASSUME IInv, TypeOK', NEW t \in TaskIds, Redispatch(t)
    PROVE  IInv'
<1>1. TypeOK /\ task[t] \in Task
    BY DEF IInv, TypeOK
<1>2. Exists(task[t]) /\ task[t].risk \in RiskyLevels /\ t < nextTask
    BY DEF IInv, RowsOK, Redispatch, Exists
<1>3. PICK outcome \in Outcomes :
         /\ PostToAgent(outcome, t, task[t].order)
         /\ task' = IF outcome = "accepted"
                    THEN [task EXCEPT ![t] = DispatchedTask(@, TRUE)]
                    ELSE task
    BY DEF Redispatch
<1>4. UNCHANGED <<sale, shop, sent, nextTask, tx, answered, vetoed, flawed>>
    BY DEF Redispatch, history
<1>5. RowStep /\ RowsOK' /\ RiskyRowsBlock' /\ CancelJustified'
    <2>1. CASE outcome = "accepted"
        <3> DEFINE row == DispatchedTask(task[t], TRUE)
        <3>1. /\ row.order = task[t].order /\ row.risk = task[t].risk
              /\ row.decision = task[t].decision
              /\ row.state \in {"running", "pending_approval"}
            BY <1>1, DispatchedRow
        <3>2. task' = [task EXCEPT ![t] = row]
            BY <1>3, <2>1
        <3> HIDE DEF row
        <3> QED BY <1>2, <1>4, <3>1, <3>2, RowChanges
    <2>2. CASE outcome # "accepted"
        BY <1>3, <1>4, <2>2, StutterRowStep
    <2> QED BY <2>1, <2>2
<1>6. RunsOK'
    <2>1. CASE outcome = "refused"
        BY <1>3, <1>5, <2>1, RunsKeptInv DEF PostToAgent, RunsKept
    <2>2. CASE outcome # "refused"
        <3>1. /\ nextRun \in RunIds
              /\ run' = [run EXCEPT ![nextRun] =
                            [task |-> t, order |-> task[t].order,
                             pc |-> "analyzing"]]
            BY <1>3, <2>2 DEF PostToAgent
        <3>2. \A r \in RunIds \ {nextRun} : run'[r] = run[r]
            BY <1>1, <3>1 DEF TypeOK
        <3>3. run'[nextRun].task = t /\ run'[nextRun].order = task[t].order
            BY <1>1, <3>1 DEF TypeOK
        <3>4. \A w \in Workers : tx[w].open => tx[w].id # t
            <4>1. t # 0
                BY GatekeeperAssumption DEF TaskIds
            <4> QED BY <1>2, <4>1 DEF IInv, NewRowOK
        <3>5. ASSUME NEW r \in RunIds, run'[r].pc # "none"
              PROVE  /\ run'[r].task \in TaskIds /\ run'[r].task < nextTask'
                     /\ Exists(task'[run'[r].task]) =>
                           /\ task'[run'[r].task].order = run'[r].order
                           /\ task'[run'[r].task].risk \in RiskyLevels
                     /\ \A w \in Workers :
                           tx'[w].open /\ tx'[w].id = run'[r].task =>
                              /\ tx'[w].order = run'[r].order
                              /\ Normalize(tx'[w].verdict) \in RiskyLevels
            <4>1. CASE r = nextRun
                BY <1>2, <1>4, <1>5, <3>3, <3>4, <4>1 DEF RowStep, RowsKept
            <4>2. CASE r # nextRun
                BY <1>4, <1>5, <3>2, <3>5, <4>2
                DEF IInv, RunsOK, RowStep, RowsKept
            <4> QED BY <4>1, <4>2
        <3> QED BY <3>5 DEF RunsOK
    <2> QED BY <2>1, <2>2
<1> QED BY <1>5, <1>6, RowStepInv DEF IInv

\* A transaction that is rolled back leaves nothing.
LEMMA RollbackInv ==
    ASSUME IInv, TypeOK', NEW w \in Workers, Rollback(w)
    PROVE  IInv'
<1>1. TypeOK
    BY DEF IInv
<1>2. /\ tx'[w].open = FALSE
      /\ \A v \in Workers \ {w} : tx'[v] = tx[v]
    BY <1>1 DEF Rollback, TypeOK, NoTx
<1>3. UNCHANGED <<sale, shop, sent, task, nextTask, run, answered, vetoed,
                  flawed>>
    BY DEF Rollback, history
<1>4. RowStep
    BY <1>2, <1>3 DEF RowStep, RowsKept, TxKept, SaleKept
<1>5. RowsOK' /\ RiskyRowsBlock'
    BY <1>3 DEF IInv, RowsOK, RiskyRowsBlock
<1>6. RunsOK'
    BY <1>3, <1>4, RunsKeptInv DEF RunsKept
<1>7. CancelJustified'
    BY <1>3, NothingCancelled
<1> QED BY <1>4, <1>5, <1>6, <1>7, RowStepInv DEF IInv

\* Another verdict is sent.
LEMMA ShopifyAssessesInv ==
    ASSUME IInv, TypeOK', NEW o \in Orders, NEW v \in Verdicts,
           ShopifyAssesses(o, v)
    PROVE  IInv'
<1>1. /\ UNCHANGED <<sale, shop, task, nextTask, tx, run, answered, vetoed,
                     flawed>>
      /\ sent \subseteq sent'
    BY DEF ShopifyAssesses, history
<1>2. RowStep
    BY <1>1 DEF RowStep, RowsKept, TxKept, SaleKept
<1>3. RowsOK' /\ RiskyRowsBlock'
    BY <1>1 DEF IInv, RowsOK, RiskyRowsBlock
<1>4. RunsOK'
    BY <1>1, <1>2, RunsKeptInv DEF RunsKept
<1>5. CancelJustified'
    BY <1>1, NothingCancelled
<1> QED BY <1>2, <1>3, <1>4, <1>5, RowStepInv DEF IInv

\* An order is imported: the transactions opened before are early.
LEMMA OrderImportedInv ==
    ASSUME IInv, TypeOK', NEW o \in Orders, NEW cheap \in BOOLEAN,
           OrderImported(o, cheap)
    PROVE  IInv'
<1>1. TypeOK
    BY DEF IInv
<1>2. /\ UNCHANGED <<shop, sent, task, nextTask, tx, run, answered, vetoed,
                     flawed>>
      /\ ~sale[o].imported
      /\ sale' = [sale EXCEPT ![o].imported = TRUE, ![o].cheap = cheap]
    BY DEF OrderImported, history
<1>3. /\ \A p \in Orders \ {o} : sale'[p] = sale[p]
      /\ sale'[o].imported
      /\ \A p \in Orders : /\ sale'[p].level = sale[p].level
                           /\ sale'[p].state = sale[p].state
    BY <1>1, <1>2 DEF TypeOK, SaleOrder
<1>4. RowStep
    BY <1>2, <1>3 DEF RowStep, RowsKept, TxKept, SaleKept
<1>5. RowsOK' /\ RiskyRowsBlock'
    BY <1>2 DEF IInv, RowsOK, RiskyRowsBlock
<1>6. RunsOK'
    BY <1>2, <1>4, RunsKeptInv DEF RunsKept
<1>7. CancelJustified'
    <2>1. \A p \in Orders : AssessedRisky(p)' <=> AssessedRisky(p)
        BY <1>2 DEF AssessedRisky
    <2> QED BY <1>2, <1>3, <2>1 DEF IInv, CancelJustified
<1> QED BY <1>4, <1>5, <1>6, <1>7, RowStepInv DEF IInv

\* What every branch of process_webhook leaves in worker w's transaction.
NewTx(w, m) ==
    /\ m \in sent
    /\ \A v \in Workers \ {w} : tx'[v] = tx[v]
    /\ tx'[w].order = m[1] /\ tx'[w].verdict = m[2]
    /\ tx'[w].early <=> ~sale[m[1]].imported
    /\ tx'[w].wrote <=> WritesLevel(m[1], Normalize(m[2])) \/ tx'[w].cancels
    /\ tx'[w].cancels => TakesCheapPath(m[1], Normalize(m[2]))
    /\ UNCHANGED <<sale, sent, task, answered, vetoed, flawed>>

SkipTx(w, m) ==
    /\ tx'[w].id = 0 /\ tx'[w].row = NoTask
    /\ Handled(m[1], Normalize(m[2]))
    /\ nextTask' = nextTask

FreshTx(w, m) ==
    /\ ~Handled(m[1], Normalize(m[2]))
    /\ nextTask \in TaskIds
    /\ nextTask' = nextTask + 1
    /\ tx'[w].id = nextTask
    /\ tx'[w].row.order = m[1]
    /\ tx'[w].row.risk = Normalize(m[2])
    /\ tx'[w].row.decision = "undecided"
    /\ IF Normalize(m[2]) \in RiskyLevels
       THEN tx'[w].row.state \in {"bypassed", "running", "failed"}
       ELSE tx'[w].row.state = "done"

\* With a risky verdict the dedup guard finds a risky task, and otherwise an
\* order in good standing has none: a risky task blocks unless it has failed.
LEMMA GuardSeesRisky ==
    ASSUME IInv, NEW o \in Orders, NEW level \in RiskyLevels
    PROVE  /\ Handled(o, level) => RiskyTasks(o) # {}
           /\ ~Handled(o, level) /\ o \notin flawed => RiskyTasks(o) = {}
<1>1. ASSUME NEW t \in Blocking(o)
      PROVE  t \in RiskyTasks(o)
    BY <1>1 DEF Blocking, Prior, Blocks, RiskyTasks, IInv, RowsOK, InFlight,
                Decisions
<1>2. ASSUME NEW t \in RiskyTasks(o), o \notin flawed
      PROVE  t \in Blocking(o)
    BY <1>2 DEF Blocking, Prior, RiskyTasks, IInv, RowsOK, RiskyRowsBlock
<1> QED BY <1>1, <1>2 DEF Handled

\* Opening a transaction that inserts nothing, or a row under a fresh id, keeps
\* every conjunct but the ones about runs and cancellations.
LEMMA NewTxInv ==
    ASSUME IInv, TypeOK', NEW w \in Workers, NEW m \in Orders \X Verdicts,
           NewTx(w, m), SkipTx(w, m) \/ FreshTx(w, m)
    PROVE  /\ RowsOK' /\ RiskyRowsBlock'
           /\ TxOK' /\ NewRowOK' /\ DistinctIds'
           /\ Witnessed' /\ OneRiskyTask' /\ SecondTaskConflicts'
<1> DEFINE o == m[1]
           level == Normalize(m[2])
<1>1. TypeOK /\ o \in Orders
    BY DEF IInv
<1>2. UNCHANGED <<sale, sent, task, answered, flawed>>
    BY DEF NewTx
<1>3. nextTask \in Nat /\ nextTask' \in Nat /\ nextTask <= nextTask'
    BY <1>1, GatekeeperAssumption DEF SkipTx, FreshTx, TypeOK
<1>4. \A v \in Workers \ {w} : tx'[v] = tx[v]
    BY DEF NewTx
<1>5. \A v \in Workers : tx[v].id \in Nat
    BY <1>1, GatekeeperAssumption DEF TypeOK, Tx
<1>6. tx'[w].order = o /\ tx'[w].verdict = m[2]
    BY DEF NewTx
<1>7. \A p \in Orders : RiskyTasks(p)' = RiskyTasks(p)
    BY <1>2 DEF RiskyTasks
<1>8. RowsOK'
    <2>1. \A t \in TaskIds : t < nextTask => t < nextTask'
        BY <1>3, GatekeeperAssumption DEF TaskIds
    <2> QED BY <1>2, <2>1 DEF IInv, RowsOK
<1>9. RiskyRowsBlock'
    BY <1>2 DEF IInv, RiskyRowsBlock
<1>10. TxOK'
    <2>1. m = <<tx'[w].order, tx'[w].verdict>> /\ m \in sent
        BY <1>6 DEF NewTx
    <2>2. tx'[w].id < nextTask'
        BY <1>1, <1>3, GatekeeperAssumption DEF SkipTx, FreshTx, TypeOK
    <2>3. tx'[w].wrote => sale[o].imported
        BY DEF NewTx, WritesLevel, TakesCheapPath, IsCheap
    <2>4. tx'[w].cancels => /\ AutoReject
                            /\ sale[o].imported
                            /\ sale[o].cheap
                            /\ level \in RiskyLevels
        BY DEF NewTx, TakesCheapPath, IsCheap
    <2>5. tx'[w].id = 0 => tx'[w].row = NoTask
        BY GatekeeperAssumption DEF SkipTx, FreshTx, TaskIds
    <2>6. ASSUME NEW v \in Workers \ {w}, tx[v].open
          PROVE  /\ <<tx[v].order, tx[v].verdict>> \in sent
                 /\ tx[v].id < nextTask'
                 /\ tx[v].wrote => sale[tx[v].order].imported
                 /\ tx[v].cancels => /\ AutoReject
                                     /\ sale[tx[v].order].imported
                                     /\ sale[tx[v].order].cheap
                                     /\ Normalize(tx[v].verdict) \in RiskyLevels
                 /\ tx[v].id = 0 => tx[v].row = NoTask
        <3>1. nextTask' \in Nat
            BY <1>3 DEF SkipTx, FreshTx
        <3> QED BY <1>3, <1>5, <2>6, <3>1 DEF IInv, TxOK
    <2> QED BY <1>2, <1>4, <1>6, <2>1, <2>2, <2>3, <2>4, <2>5, <2>6 DEF TxOK
<1>11. NewRowOK'
    <2>1. tx'[w].id # 0 =>
             /\ ~Exists(task[tx'[w].id])
             /\ Exists(tx'[w].row)
             /\ tx'[w].row.order = tx'[w].order
             /\ tx'[w].row.risk = level
             /\ tx'[w].row.decision = "undecided"
             /\ IF level \in RiskyLevels
                THEN tx'[w].row.state \in {"bypassed", "running", "failed"}
                ELSE tx'[w].row.state = "done"
        <3>1. CASE SkipTx(w, m)
            BY <3>1 DEF SkipTx
        <3>2. CASE FreshTx(w, m)
            <4>1. ~Exists(task[nextTask])
                BY <1>3, <3>2 DEF FreshTx, IInv, RowsOK
            <4> QED BY <1>6, <3>2, <4>1 DEF FreshTx, Exists
        <3> QED BY <3>1, <3>2
    <2> QED BY <1>2, <1>4, <1>6, <2>1 DEF IInv, NewRowOK
<1>12. DistinctIds'
    <2>1. \A v \in Workers \ {w} : tx'[v].open /\ tx'[w].id # 0 =>
             tx'[v].id # tx'[w].id
        <3>1. \A v \in Workers \ {w} : tx[v].open => tx[v].id # nextTask
            <4>1. \A v \in Workers : tx[v].open => tx[v].id < nextTask
                BY DEF IInv, TxOK
            <4> QED BY <1>3, <1>5, <4>1
        <3> QED BY <1>4, <3>1 DEF SkipTx, FreshTx
    <2>2. ASSUME NEW u \in Workers, NEW v \in Workers,
                 tx'[u].open, tx'[v].open, tx'[u].id # 0, tx'[u].id = tx'[v].id
          PROVE  u = v
        <3>1. CASE u # w /\ v # w
            BY <1>4, <2>2, <3>1 DEF IInv, DistinctIds
        <3>2. CASE u = w \/ v = w
            BY <2>1, <2>2, <3>2
        <3> QED BY <3>1, <3>2
    <2> QED BY <2>2 DEF DistinctIds
<1>13. Witnessed'
    <2>1. \A p \in Orders : sale'[p].level \in RiskyLevels => RiskyTasks(p)' # {}
        BY <1>2, <1>7 DEF IInv, Witnessed
    <2>2. \A p \in answered' : RiskyTasks(p)' # {}
        BY <1>1, <1>2, <1>7 DEF IInv, Witnessed, TypeOK
    <2>3. tx'[w].id = 0 /\ level \in RiskyLevels => RiskyTasks(o) # {}
        <3>1. tx'[w].id = 0 => Handled(o, level)
            BY GatekeeperAssumption DEF SkipTx, FreshTx, TaskIds
        <3> QED BY <1>1, <3>1, GuardSeesRisky
    <2>4. ASSUME NEW v \in Workers, NEW p \in Orders,
                 tx'[v].open, tx'[v].id = 0, tx'[v].order = p,
                 Normalize(tx'[v].verdict) \in RiskyLevels
          PROVE  RiskyTasks(p)' # {}
        <3>1. CASE v = w
            BY <1>6, <1>7, <2>3, <2>4, <3>1
        <3>2. CASE v # w
            BY <1>4, <1>7, <2>4, <3>2 DEF IInv, Witnessed
        <3> QED BY <3>1, <3>2
    <2> QED BY <2>1, <2>2, <2>4 DEF Witnessed
<1>14. OneRiskyTask'
    BY <1>2, <1>7 DEF IInv, OneRiskyTask
<1>15. SecondTaskConflicts'
    <2>1. tx'[w].id # 0 /\ ~tx'[w].early /\ level \in RiskyLevels
             /\ o \notin flawed
          => tx'[w].wrote /\ RiskyTasks(o) = {}
        <3> SUFFICES ASSUME tx'[w].id # 0, ~tx'[w].early,
                            level \in RiskyLevels, o \notin flawed
                     PROVE  tx'[w].wrote /\ RiskyTasks(o) = {}
            OBVIOUS
        <3>1. ~Handled(o, level) /\ sale[o].imported
            BY DEF SkipTx, FreshTx, NewTx
        <3>2. RiskyTasks(o) = {}
            BY <1>1, <3>1, GuardSeesRisky
        <3>3. sale[o].level # level
            BY <1>1, <3>2 DEF IInv, Witnessed
        <3> QED BY <3>1, <3>2, <3>3 DEF NewTx, WritesLevel
    <2>2. ASSUME NEW v \in Workers, NEW p \in Orders \ flawed',
                 tx'[v].open, tx'[v].id # 0, tx'[v].order = p, ~tx'[v].early,
                 Normalize(tx'[v].verdict) \in RiskyLevels
          PROVE  tx'[v].wrote /\ (tx'[v].stale \/ RiskyTasks(p)' = {})
        <3>1. CASE v = w
            BY <1>2, <1>6, <1>7, <2>1, <2>2, <3>1
        <3>2. CASE v # w
            BY <1>2, <1>4, <1>7, <2>2, <3>2 DEF IInv, SecondTaskConflicts
        <3> QED BY <3>1, <3>2
    <2> QED BY <2>2 DEF SecondTaskConflicts
<1> QED BY <1>8, <1>9, <1>10, <1>11, <1>12, <1>13, <1>14, <1>15

Opened(w, m, id, row, b) ==
    /\ \A v \in Workers \ {w} : tx'[v] = tx[v]
    /\ tx'[w].order = m[1] /\ tx'[w].verdict = m[2]
    /\ tx'[w].id = id /\ tx'[w].row = row
    /\ tx'[w].cancels <=> b
    /\ tx'[w].early <=> ~sale[m[1]].imported
    /\ tx'[w].wrote <=> WritesLevel(m[1], Normalize(m[2])) \/ b

\* What Open says of the transaction it opens and of the others.
LEMMA OpenFacts ==
    ASSUME TypeOK, NEW w \in Workers, NEW m, NEW id, NEW row, NEW b \in BOOLEAN,
           NEW ok, Open(w, m, id, row, b, ok)
    PROVE  Opened(w, m, id, row, b)
<1> DEFINE x == [open |-> TRUE, order |-> m[1], verdict |-> m[2], id |-> id,
               row |-> row,
               wrote |-> WritesLevel(m[1], Normalize(m[2])) \/ b,
               cancels |-> b, stale |-> FALSE, ok |-> ok,
               early |-> ~sale[m[1]].imported]
<1>1. tx' = [tx EXCEPT ![w] = x]
    BY DEF Open
<1>2. tx'[w] = x /\ \A v \in Workers \ {w} : tx'[v] = tx[v]
    <2> HIDE DEF x
    <2> QED BY <1>1 DEF TypeOK
<1>3. /\ x.order = m[1] /\ x.verdict = m[2]
      /\ x.id = id /\ x.row = row /\ x.cancels = b
    BY DEF x
<1>4. x.early = ~sale[m[1]].imported
    BY DEF x
<1>5. x.wrote = (WritesLevel(m[1], Normalize(m[2])) \/ b)
    BY DEF x
<1> HIDE DEF x
<1> QED BY <1>2, <1>3, <1>4, <1>5 DEF Opened

\* A branch that sends nothing to the agent keeps the runs, whose tasks have
\* older ids than the new row.
LEMMA NewTxRuns ==
    ASSUME IInv, TypeOK', NEW w \in Workers, NEW m \in Orders \X Verdicts,
           NewTx(w, m), SkipTx(w, m) \/ FreshTx(w, m),
           NEW r \in RunIds, run[r].pc # "none"
    PROVE  /\ run[r].task \in TaskIds /\ run[r].task < nextTask'
           /\ Exists(task'[run[r].task]) =>
                 /\ task'[run[r].task].order = run[r].order
                 /\ task'[run[r].task].risk \in RiskyLevels
           /\ \A v \in Workers : tx'[v].open /\ tx'[v].id = run[r].task =>
                 /\ tx'[v].order = run[r].order
                 /\ Normalize(tx'[v].verdict) \in RiskyLevels
<1>1. TypeOK
    BY DEF IInv
<1>2. run[r].task \in TaskIds /\ run[r].task < nextTask
    BY DEF IInv, RunsOK
<1>3. /\ run[r].task < nextTask'
      /\ tx'[w].id # run[r].task
    BY <1>1, <1>2, GatekeeperAssumption DEF SkipTx, FreshTx, TypeOK, TaskIds
<1>4. UNCHANGED task /\ \A v \in Workers \ {w} : tx'[v] = tx[v]
    BY DEF NewTx
<1> QED BY <1>2, <1>3, <1>4 DEF IInv, RunsOK

\* A duplicate: a risky task witnesses it, when its verdict was risky.
LEMMA SkipDuplicateInv ==
    ASSUME IInv, TypeOK', NEW w \in Workers, NEW m \in Orders \X Verdicts,
           SkipDuplicate(w, m)
    PROVE  IInv'
<1>1. TypeOK
    BY DEF IInv
<1>2. Open(w, m, 0, NoTask, FALSE, TRUE)
    BY DEF SkipDuplicate
<1>3. NewTx(w, m) /\ SkipTx(w, m)
    <2>1. Opened(w, m, 0, NoTask, FALSE)
        BY <1>1, <1>2, OpenFacts
    <2> QED BY <2>1 DEF Opened, NewTx, SkipTx, SkipDuplicate, history
<1>4. UNCHANGED run
    BY DEF SkipDuplicate
<1>5. RunsOK'
    BY <1>3, <1>4, NewTxRuns DEF RunsOK
<1>6. CancelJustified'
    BY NothingCancelled DEF SkipDuplicate, history
<1> QED BY <1>3, <1>5, <1>6, NewTxInv DEF IInv

\* Path B.
LEMMA RecordBenignInv ==
    ASSUME IInv, TypeOK', NEW w \in Workers, NEW m \in Orders \X Verdicts,
           RecordBenign(w, m)
    PROVE  IInv'
<1> DEFINE row == NewTask(m[1], Normalize(m[2]), "done", sale[m[1]].imported)
<1>1. TypeOK
    BY DEF IInv
<1>2. /\ row.order = m[1] /\ row.risk = Normalize(m[2])
      /\ row.state = "done" /\ row.decision = "undecided"
    BY DEF NewTask
<1>3. Opened(w, m, nextTask, row, FALSE)
    <2>1. Open(w, m, nextTask, row, FALSE, TRUE)
        BY DEF RecordBenign
    <2> HIDE DEF row
    <2> QED BY <1>1, <2>1, OpenFacts
<1> HIDE DEF row
<1>4. NewTx(w, m)
    BY <1>3 DEF Opened, NewTx, RecordBenign, Fresh, history
<1>5. FreshTx(w, m)
    <2>1. tx'[w].id = nextTask /\ tx'[w].row = row
        BY <1>3 DEF Opened
    <2>2. /\ ~Handled(m[1], Normalize(m[2]))
          /\ nextTask \in TaskIds
          /\ nextTask' = nextTask + 1
          /\ Normalize(m[2]) \notin RiskyLevels
        BY DEF RecordBenign, Fresh
    <2> QED BY <1>2, <2>1, <2>2 DEF FreshTx
<1>6. UNCHANGED run
    BY DEF RecordBenign
<1>7. RunsOK'
    BY <1>4, <1>5, <1>6, NewTxRuns DEF RunsOK
<1>8. CancelJustified'
    BY NothingCancelled DEF RecordBenign, history
<1> QED BY <1>4, <1>5, <1>7, <1>8, NewTxInv DEF IInv

\* Path A: the order it cancels is known to be cheap and was assessed risky.
LEMMA AutoRejectInv ==
    ASSUME IInv, TypeOK', NEW w \in Workers, NEW m \in Orders \X Verdicts,
           AutoRejectOrder(w, m)
    PROVE  IInv'
<1> DEFINE o == m[1]
           level == Normalize(m[2])
           row == NewTask(o, level, "bypassed", TRUE)
<1>1. TypeOK
    BY DEF IInv
<1>2. /\ row.order = o /\ row.risk = level
      /\ row.state = "bypassed" /\ row.decision = "undecided"
    BY DEF NewTask
<1>3. PICK b \in BOOLEAN : Opened(w, m, nextTask, row, b)
    <2>1. PICK odooOk \in BOOLEAN :
             Open(w, m, nextTask, row, odooOk /\ sale[o].state = "open", TRUE)
        BY DEF AutoRejectOrder
    <2>2. (odooOk /\ sale[o].state = "open") \in BOOLEAN
        OBVIOUS
    <2> HIDE DEF row
    <2> QED BY <1>1, <2>1, <2>2, OpenFacts
<1> HIDE DEF row
<1>4. /\ TakesCheapPath(o, level) /\ m \in sent
      /\ ~Handled(o, level)
      /\ nextTask \in TaskIds
      /\ nextTask' = nextTask + 1
      /\ UNCHANGED <<sale, sent, task, run, answered, vetoed, flawed>>
    BY DEF AutoRejectOrder, Fresh, history
<1>5. NewTx(w, m)
    BY <1>3, <1>4 DEF Opened, NewTx
<1>6. FreshTx(w, m)
    <2>1. tx'[w].id = nextTask /\ tx'[w].row = row
        BY <1>3 DEF Opened
    <2>2. level \in RiskyLevels
        BY <1>4 DEF TakesCheapPath
    <2> QED BY <1>2, <1>4, <2>1, <2>2 DEF FreshTx
<1>7. RunsOK'
    BY <1>4, <1>5, <1>6, NewTxRuns DEF RunsOK
<1>8. CancelJustified'
    <2>1. AssessedRisky(o)
        <3>1. m = <<o, m[2]>> /\ m[2] \in Verdicts
            OBVIOUS
        <3> QED BY <1>4, <3>1 DEF AssessedRisky, TakesCheapPath
    <2>2. AutoReject /\ sale[o].imported /\ sale[o].cheap
        BY <1>4 DEF TakesCheapPath, IsCheap
    <2>3. \A p \in Orders : p # o => shop'[p] = shop[p]
        BY <1>1 DEF AutoRejectOrder, CancelInShopify, TypeOK
    <2>4. \A p \in Orders : AssessedRisky(p)' <=> AssessedRisky(p)
        BY <1>4 DEF AssessedRisky
    <2> QED BY <1>4, <2>1, <2>2, <2>3, <2>4 DEF IInv, CancelJustified
<1> QED BY <1>5, <1>6, <1>7, <1>8, NewTxInv DEF IInv

\* Path C.
LEMMA EscalateInv ==
    ASSUME IInv, TypeOK', NEW w \in Workers, NEW m \in Orders \X Verdicts,
           Escalate(w, m)
    PROVE  IInv'
<1> DEFINE o == m[1]
           level == Normalize(m[2])
           new == NewTask(o, level, "queued", sale[o].imported)
<1>1. TypeOK /\ o \in Orders /\ level \in Levels
    BY NormalizeType DEF IInv
<1>2. /\ new \in Task
      /\ new.order = o /\ new.risk = level /\ new.decision = "undecided"
    BY <1>1, NewTaskType DEF States, TypeOK, SaleOrder
<1> HIDE DEF new
<1>3. PICK outcome \in Outcomes :
         /\ PostToAgent(outcome, nextTask, o)
         /\ Open(w, m, nextTask, DispatchedTask(new, outcome = "accepted"),
                 FALSE, outcome = "accepted")
    BY DEF Escalate, new
<1> DEFINE row == DispatchedTask(new, outcome = "accepted")
<1>4. /\ row.order = o /\ row.risk = level /\ row.decision = "undecided"
      /\ row.state \in {"bypassed", "running", "failed"}
    BY <1>2, DispatchedRow
<1> HIDE DEF row
<1>5. /\ m \in sent /\ ~Handled(o, level) /\ level \in RiskyLevels
      /\ nextTask \in TaskIds
      /\ nextTask' = nextTask + 1
      /\ UNCHANGED <<sale, shop, sent, task, answered, vetoed, flawed>>
    BY DEF Escalate, Fresh, history
<1>6. Opened(w, m, nextTask, row, FALSE)
    BY <1>1, <1>3, OpenFacts DEF row
<1>7. NewTx(w, m)
    BY <1>5, <1>6 DEF Opened, NewTx
<1>8. FreshTx(w, m)
    BY <1>4, <1>5, <1>6 DEF Opened, FreshTx
<1>9. RunsOK'
    <2>1. CASE UNCHANGED run
        BY <1>7, <1>8, <2>1, NewTxRuns DEF RunsOK
    <2>2. CASE /\ nextRun \in RunIds
               /\ run' = [run EXCEPT ![nextRun] =
                             [task |-> nextTask, order |-> o,
                              pc |-> "analyzing"]]
        <3>1. /\ \A r \in RunIds \ {nextRun} : run'[r] = run[r]
              /\ run'[nextRun].task = nextTask /\ run'[nextRun].order = o
            BY <1>1, <2>2 DEF TypeOK
        <3>2. ~Exists(task[nextTask])
            BY <1>1, <1>5, GatekeeperAssumption DEF IInv, RowsOK, TypeOK, TaskIds
        <3>3. \A v \in Workers : tx'[v].open /\ tx'[v].id = nextTask => v = w
            <4>1. \A v \in Workers \ {w} : tx[v].open => tx[v].id < nextTask
                BY DEF IInv, TxOK
            <4>2. \A v \in Workers \ {w} : tx'[v] = tx[v]
                BY <1>7 DEF NewTx
            <4>3. \A v \in Workers : tx[v].id \in Nat /\ nextTask \in Nat
                BY <1>1, GatekeeperAssumption DEF TypeOK, Tx
            <4> QED BY <4>1, <4>2, <4>3
        <3>4. nextTask \in TaskIds /\ nextTask < nextTask'
            BY <1>5, GatekeeperAssumption DEF TaskIds
        <3>5. ASSUME NEW r \in RunIds, run'[r].pc # "none"
              PROVE  /\ run'[r].task \in TaskIds /\ run'[r].task < nextTask'
                     /\ Exists(task'[run'[r].task]) =>
                           /\ task'[run'[r].task].order = run'[r].order
                           /\ task'[run'[r].task].risk \in RiskyLevels
                     /\ \A v \in Workers :
                           tx'[v].open /\ tx'[v].id = run'[r].task =>
                              /\ tx'[v].order = run'[r].order
                              /\ Normalize(tx'[v].verdict) \in RiskyLevels
            <4>1. CASE r = nextRun
                BY <1>5, <1>7, <3>1, <3>2, <3>3, <3>4, <4>1 DEF NewTx
            <4>2. CASE r # nextRun
                <5>1. run'[r] = run[r] /\ run[r].pc # "none"
                    BY <3>1, <3>5, <4>2
                <5> QED BY <1>7, <1>8, <5>1, NewTxRuns
            <4> QED BY <4>1, <4>2
        <3> QED BY <3>5 DEF RunsOK
    <2> QED BY <1>3, <2>1, <2>2 DEF PostToAgent
<1>10. CancelJustified'
    BY <1>5, NothingCancelled
<1> QED BY <1>7, <1>8, <1>9, <1>10, NewTxInv DEF IInv

\* A commit adds at most one row, whose id no other transaction holds; if it is
\* a risky row of an order in good standing, the commit finds no other one.
LEMMA CommitInv ==
    ASSUME IInv, TypeOK', NEW w \in Workers, Commit(w)
    PROVE  IInv'
<1> DEFINE x == tx[w]
<1>0. PICK o \in Orders : o = x.order
    BY DEF IInv, TypeOK, Tx
<1> DEFINE risky == Normalize(x.verdict) \in RiskyLevels
           closed == [tx EXCEPT ![w] = NoTx]
<1>1. /\ TypeOK
      /\ x \in Tx /\ o \in Orders /\ x.order = o /\ x.id \in 0..MaxTasks
      /\ x.id # 0 => x.id \in TaskIds
    BY <1>0, GatekeeperAssumption DEF IInv, TypeOK, Tx, TaskIds
<1>2. /\ x.open /\ (x.wrote => ~x.stale)
      /\ task' = IF x.id = 0 THEN task ELSE [task EXCEPT ![x.id] = x.row]
      /\ UNCHANGED <<shop, sent, nextTask, run, vetoed>>
    BY DEF Commit
<1>3. /\ flawed \subseteq flawed'
      /\ x.row.state = "failed" \/ x.early => o \in flawed'
    BY <1>0 DEF Commit
<1>4. \A p \in answered' : p \in answered \/ (p = o /\ risky)
    BY <1>0 DEF Commit
<1>5. /\ tx'[w].open = FALSE
      /\ \A v \in Workers \ {w} :
            \/ tx'[v] = tx[v] /\ (x.wrote /\ tx[v].wrote => tx[v].order # o)
            \/ x.wrote /\ tx'[v] = [tx[v] EXCEPT !.stale = TRUE]
    <2>1. closed[w] = NoTx /\ \A v \in Workers \ {w} : closed[v] = tx[v]
        BY <1>1 DEF TypeOK
    <2>2. NoTx.wrote = FALSE /\ NoTx.open = FALSE
        BY DEF NoTx
    <2>3. tx' = IF x.wrote THEN Touch(o, closed) ELSE closed
        BY <1>0 DEF Commit
    <2> HIDE DEF closed
    <2> QED BY <2>1, <2>2, <2>3 DEF Touch
<1>6. \A v \in Workers \ {w} :
         /\ tx'[v].open <=> tx[v].open
         /\ tx'[v].order = tx[v].order
         /\ tx'[v].verdict = tx[v].verdict
         /\ tx'[v].id = tx[v].id
         /\ tx'[v].row = tx[v].row
         /\ tx'[v].wrote <=> tx[v].wrote
         /\ tx'[v].cancels <=> tx[v].cancels
         /\ tx'[v].early <=> tx[v].early
         /\ tx[v].stale => tx'[v].stale
         /\ x.wrote /\ tx[v].wrote /\ tx[v].order = o => tx'[v].stale
    <2> SUFFICES ASSUME NEW v \in Workers \ {w}
                 PROVE  /\ tx'[v].open <=> tx[v].open
                        /\ tx'[v].order = tx[v].order
                        /\ tx'[v].verdict = tx[v].verdict
                        /\ tx'[v].id = tx[v].id
                        /\ tx'[v].row = tx[v].row
                        /\ tx'[v].wrote <=> tx[v].wrote
                        /\ tx'[v].cancels <=> tx[v].cancels
                        /\ tx'[v].early <=> tx[v].early
                        /\ tx[v].stale => tx'[v].stale
                        /\ x.wrote /\ tx[v].wrote /\ tx[v].order = o
                              => tx'[v].stale
        OBVIOUS
    <2>1. tx[v] \in Tx
        BY <1>1 DEF TypeOK
    <2>2. CASE tx'[v] = tx[v] /\ (x.wrote /\ tx[v].wrote => tx[v].order # o)
        BY <2>2
    <2>3. CASE tx'[v] = [tx[v] EXCEPT !.stale = TRUE]
        BY <2>1, <2>3 DEF Tx
    <2> QED BY <1>5, <2>2, <2>3
<1>7. /\ \A p \in Orders : /\ sale'[p].imported <=> sale[p].imported
                           /\ sale'[p].cheap <=> sale[p].cheap
                           /\ p # o => sale'[p] = sale[p]
      /\ sale'[o].level = sale[o].level \/ sale'[o].level = Normalize(x.verdict)
      /\ sale'[o].state = sale[o].state \/ x.cancels
    BY <1>1 DEF Commit, TypeOK, SaleOrder
<1>8. \A t \in TaskIds \ {x.id} : task'[t] = task[t]
    BY <1>1, <1>2 DEF TypeOK
<1>9. ASSUME x.id # 0
      PROVE  /\ task'[x.id] = x.row
             /\ ~Exists(task[x.id]) /\ Exists(x.row)
             /\ x.row.order = o /\ x.row.risk = Normalize(x.verdict)
             /\ x.row.decision = "undecided"
             /\ risky => x.row.state \in {"bypassed", "running", "failed"}
             /\ ~risky => x.row.state = "done"
             /\ x.id < nextTask
             /\ \A v \in Workers \ {w} : tx[v].open => tx[v].id # x.id
    <2>1. task'[x.id] = x.row
        BY <1>1, <1>2, <1>9 DEF TypeOK
    <2>2. x.id < nextTask
        BY <1>2 DEF IInv, TxOK
    <2>3. \A v \in Workers \ {w} : tx[v].open => tx[v].id # x.id
        BY <1>2, <1>9 DEF IInv, DistinctIds
    <2> QED BY <1>1, <1>2, <1>9, <2>1, <2>2, <2>3 DEF IInv, NewRowOK
<1> HIDE DEF x
<1>10. \A p \in Orders : /\ RiskyTasks(p) \subseteq RiskyTasks(p)'
                         /\ p # o => RiskyTasks(p)' = RiskyTasks(p)
                         /\ x.id = 0 => RiskyTasks(p)' = RiskyTasks(p)
                         /\ ~risky => RiskyTasks(p)' = RiskyTasks(p)
                         /\ RiskyTasks(p)' \subseteq RiskyTasks(p) \cup {x.id}
    <2>1. CASE x.id = 0
        BY <1>2, <2>1 DEF RiskyTasks
    <2>2. CASE x.id # 0
        BY <1>8, <1>9, <2>2 DEF RiskyTasks
    <2> QED BY <2>1, <2>2
<1>11. risky => RiskyTasks(o)' # {}
    <2>1. CASE x.id = 0
        <3>1. risky => RiskyTasks(o) # {}
            BY <1>1, <1>2, <2>1 DEF IInv, Witnessed, x
        <3> QED BY <1>1, <1>10, <3>1
    <2>2. CASE x.id # 0
        <3>1. risky => x.id \in RiskyTasks(o)'
            BY <1>1, <1>9, <2>2 DEF RiskyTasks
        <3> QED BY <3>1
    <2> QED BY <2>1, <2>2
<1>12. RowsOK' /\ RiskyRowsBlock'
    <2>1. CASE x.id = 0
        BY <1>2, <1>3, <2>1 DEF IInv, RowsOK, RiskyRowsBlock
    <2>2. CASE x.id # 0
        <3>1. RowsOK'
            BY <1>2, <1>3, <1>8, <1>9, <2>2 DEF IInv, RowsOK
        <3>2. RiskyRowsBlock'
            BY <1>8, <1>9, <2>2 DEF IInv, RiskyRowsBlock, Blocks, InFlight
        <3> QED BY <3>1, <3>2
    <2> QED BY <2>1, <2>2
<1>13. TxOK'
    <2>1. \A v \in Workers : tx[v].order \in Orders
        BY <1>1 DEF TypeOK, Tx
    <2> QED BY <1>2, <1>5, <1>6, <1>7, <2>1 DEF IInv, TxOK
<1>14. NewRowOK'
    <2>1. \A v \in Workers : tx[v].id # 0 => tx[v].id \in TaskIds
        BY <1>1, GatekeeperAssumption DEF TypeOK, Tx, TaskIds
    <2>2. \A v \in Workers \ {w} : tx[v].open /\ tx[v].id # 0 =>
             task'[tx[v].id] = task[tx[v].id]
        BY <1>8, <1>9, <2>1
    <2> QED BY <1>5, <1>6, <2>2 DEF IInv, NewRowOK
<1>15. DistinctIds'
    BY <1>5, <1>6 DEF IInv, DistinctIds
<1>16. RunsOK'
    <2> SUFFICES ASSUME NEW r \in RunIds, run[r].pc # "none"
                 PROVE  /\ run[r].task \in TaskIds /\ run[r].task < nextTask
                        /\ Exists(task'[run[r].task]) =>
                              /\ task'[run[r].task].order = run[r].order
                              /\ task'[run[r].task].risk \in RiskyLevels
                        /\ \A v \in Workers :
                              tx'[v].open /\ tx'[v].id = run[r].task =>
                                 /\ tx'[v].order = run[r].order
                                 /\ Normalize(tx'[v].verdict) \in RiskyLevels
        BY <1>2 DEF RunsOK
    <2>1. run[r].task \in TaskIds /\ run[r].task < nextTask
        BY DEF IInv, RunsOK
    <2>2. run[r].task # 0
        BY <2>1, GatekeeperAssumption DEF TaskIds
    <2>3. Exists(task'[run[r].task]) =>
              /\ task'[run[r].task].order = run[r].order
              /\ task'[run[r].task].risk \in RiskyLevels
        <3>1. CASE run[r].task = x.id
            <4>1. o = run[r].order /\ risky
                BY <1>1, <1>2, <3>1 DEF IInv, RunsOK, x
            <4> QED BY <1>9, <2>2, <3>1, <4>1
        <3>2. CASE run[r].task # x.id
            BY <1>8, <2>1, <3>2 DEF IInv, RunsOK
        <3> QED BY <3>1, <3>2
    <2>4. \A v \in Workers : tx'[v].open /\ tx'[v].id = run[r].task =>
             /\ tx'[v].order = run[r].order
             /\ Normalize(tx'[v].verdict) \in RiskyLevels
        BY <1>5, <1>6 DEF IInv, RunsOK
    <2> QED BY <2>1, <2>3, <2>4
<1>17. Witnessed'
    <2>1. ASSUME NEW p \in Orders, sale'[p].level \in RiskyLevels
          PROVE  RiskyTasks(p)' # {}
        <3>1. CASE sale'[p].level = sale[p].level
            BY <1>10, <2>1, <3>1 DEF IInv, Witnessed
        <3>2. CASE p = o /\ sale'[o].level = Normalize(x.verdict)
            BY <1>11, <2>1, <3>2
        <3> QED BY <1>7, <3>1, <3>2
    <2>2. ASSUME NEW p \in answered'
          PROVE  RiskyTasks(p)' # {}
        <3>1. p \in answered => p \in Orders
            BY <1>1 DEF TypeOK
        <3> QED BY <1>4, <1>10, <1>11, <2>2, <3>1 DEF IInv, Witnessed
    <2>3. ASSUME NEW v \in Workers, NEW p \in Orders,
                 tx'[v].open, tx'[v].id = 0, tx'[v].order = p,
                 Normalize(tx'[v].verdict) \in RiskyLevels
          PROVE  RiskyTasks(p)' # {}
        <3>1. v # w
            BY <1>5, <2>3
        <3>2. RiskyTasks(p) # {}
            BY <1>6, <2>3, <3>1 DEF IInv, Witnessed
        <3> QED BY <1>10, <3>2
    <2> QED BY <2>1, <2>2, <2>3 DEF Witnessed
<1>18. OneRiskyTask'
    <2> SUFFICES ASSUME NEW p \in Orders, p \notin flawed',
                        NEW s \in RiskyTasks(p)', NEW t \in RiskyTasks(p)'
                 PROVE  s = t
        BY DEF OneRiskyTask
    <2>1. p \notin flawed
        BY <1>3
    <2>2. CASE RiskyTasks(p)' = RiskyTasks(p)
        BY <2>1, <2>2 DEF IInv, OneRiskyTask
    <2>3. CASE p = o /\ x.id # 0 /\ risky
        <3>1. ~x.early
            BY <1>3, <2>3
        <3>2. RiskyTasks(o) = {}
            BY <1>1, <1>2, <2>1, <2>3, <3>1 DEF IInv, SecondTaskConflicts, x
        <3> QED BY <1>10, <2>3, <3>2
    <2> QED BY <1>10, <2>2, <2>3
<1>19. SecondTaskConflicts'
    <2> SUFFICES ASSUME NEW v \in Workers, NEW p \in Orders, p \notin flawed',
                        tx'[v].open, tx'[v].id # 0, tx'[v].order = p,
                        ~tx'[v].early,
                        Normalize(tx'[v].verdict) \in RiskyLevels
                 PROVE  tx'[v].wrote /\ (tx'[v].stale \/ RiskyTasks(p)' = {})
        BY DEF SecondTaskConflicts
    <2>1. p \notin flawed /\ v # w
        BY <1>3, <1>5
    <2>2. tx[v].wrote /\ (tx[v].stale \/ RiskyTasks(p) = {})
        BY <1>6, <2>1 DEF IInv, SecondTaskConflicts
    <2>3. CASE RiskyTasks(p)' = RiskyTasks(p)
        BY <1>6, <2>1, <2>2, <2>3
    <2>4. CASE p = o /\ x.id # 0 /\ risky
        <3>1. ~x.early
            BY <1>3, <2>4
        <3>2. x.wrote
            BY <1>1, <1>2, <2>1, <2>4, <3>1 DEF IInv, SecondTaskConflicts, x
        <3>3. tx'[v].wrote /\ tx'[v].stale
            BY <1>6, <2>1, <2>2, <2>4, <3>2
        <3> QED BY <3>3
    <2> QED BY <1>10, <2>3, <2>4
<1>20. CancelJustified'
    <2>1. \A p \in Orders : AssessedRisky(p)' <=> AssessedRisky(p)
        BY <1>2 DEF AssessedRisky
    <2>2. x.cancels => /\ AutoReject
                       /\ sale[o].imported /\ sale[o].cheap
                       /\ AssessedRisky(o)
        <3>1. <<o, x.verdict>> \in sent /\ x.verdict \in Verdicts
            BY <1>1, <1>2 DEF IInv, TxOK, x, Tx
        <3> QED BY <1>1, <1>2, <3>1 DEF IInv, TxOK, AssessedRisky, x
    <2>3. ASSUME NEW p \in Orders,
                 shop'[p] = "cancelled" \/ sale'[p].state = "cancel"
          PROVE  \/ p \in vetoed'
                 \/ /\ AutoReject
                    /\ sale'[p].imported /\ sale'[p].cheap
                    /\ AssessedRisky(p)'
        <3>1. CASE shop[p] = "cancelled" \/ sale[p].state = "cancel"
            BY <1>2, <1>7, <2>1, <3>1 DEF IInv, CancelJustified
        <3>2. CASE p = o /\ x.cancels
            BY <1>7, <2>1, <2>2, <3>2
        <3> QED BY <1>2, <1>7, <2>3, <3>1, <3>2
    <2> QED BY <2>3 DEF CancelJustified
<1> QED BY <1>12, <1>13, <1>14, <1>15, <1>16, <1>17, <1>18, <1>19, <1>20
        DEF IInv

-----------------------------------------------------------------------------
(* The theorems *)

\* A stuttering step.
LEMMA StutterInv == IInv /\ TypeOK' /\ UNCHANGED vars => IInv'
<1> SUFFICES ASSUME IInv, TypeOK', UNCHANGED vars PROVE IInv'
    OBVIOUS
<1>1. RowStep /\ RowsOK' /\ RiskyRowsBlock' /\ CancelJustified'
    BY StutterRowStep DEF vars
<1>2. RunsOK'
    BY <1>1, RunsKeptInv DEF RunsKept, vars
<1> QED BY <1>1, <1>2, RowStepInv DEF IInv

\* Every step keeps the inductive invariant, one lemma per action.
LEMMA NextIInv == IInv /\ [Next]_vars => IInv'
<1> SUFFICES ASSUME IInv, [Next]_vars PROVE IInv'
    OBVIOUS
<1>1. TypeOK'
    BY NextType DEF IInv
<1>2. ASSUME NEW w \in Workers, NEW m \in Orders \X Verdicts, Evaluate(w, m)
      PROVE  IInv'
    BY <1>1, <1>2, SkipDuplicateInv, AutoRejectInv, RecordBenignInv, EscalateInv
    DEF Evaluate
<1>3. ASSUME NEW w \in Workers, Commit(w) \/ Rollback(w)
      PROVE  IInv'
    BY <1>1, <1>3, CommitInv, RollbackInv
<1>4. ASSUME NEW r \in RunIds, RunNotifies(r) \/ RunDies(r)
      PROVE  IInv'
    BY <1>1, <1>4, RunNotifiesInv, RunDiesInv
<1> QED
    BY <1>1, <1>2, <1>3, <1>4, ShopifyAssessesInv, OrderImportedInv,
       OdooDecidesInv, RedispatchInv, ExpireInv, RunDecidesInv, StutterInv
    DEF Next

\* The inductive invariant holds in every reachable state.
THEOREM Invariance == Spec => []IInv
<1> QED BY InitIInv, NextIInv, PTL DEF Spec

\* However many workers handle the deliveries of an order's verdicts, at most
\* one task of an order in good standing blocks: process_webhook starts no
\* second review and no second cancellation.
THEOREM ReviewIsUnique == Spec => []UniqueReview
<1>1. IInv => UniqueReview
    <2> SUFFICES ASSUME IInv, NEW o \in Orders \ flawed,
                        NEW s \in Blocking(o), NEW t \in Blocking(o)
                 PROVE  s = t
        BY DEF UniqueReview
    <2>1. \A u \in Blocking(o) : u \in RiskyTasks(o)
        BY DEF Blocking, Prior, Blocks, RiskyTasks, IInv, RowsOK, InFlight,
               Decisions
    <2> QED BY <2>1 DEF IInv, OneRiskyTask
<1> QED BY <1>1, Invariance, PTL

\* A risky verdict that was answered with 200 is on record in a committed task.
THEOREM EscalationsAreRecorded == Spec => []EscalationRecorded
<1>1. IInv => EscalationRecorded
    BY DEF IInv, TypeOK, Witnessed, RiskyTasks, EscalationRecorded
<1> QED BY <1>1, Invariance, PTL

\* Every cancelled order was vetoed by a manager, or is cheap and risky.
THEOREM CancellationsAreJustified == Spec => []CancelJustified
<1>1. IInv => CancelJustified
    BY DEF IInv
<1> QED BY <1>1, Invariance, PTL

\* Every open task is one the cron may close.
THEOREM NoTaskIsForgotten == Spec => []OpenTasksExpire
<1>1. IInv => OpenTasksExpire
    BY DEF IInv, RowsOK, OpenTasksExpire, Exists, States
<1> QED BY <1>1, Invariance, PTL
=============================================================================

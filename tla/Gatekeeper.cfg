\* One order whose verdict escalates, two parallel workers, two tasks, one run, and the
\* cron for ever.  No symmetry: a liveness property is checked.
SPECIFICATION FairSpec
CONSTANTS
    Orders = {o1}
    Verdicts = {"pending", "high"}
    Workers = {w1, w2}
    MaxTasks = 2
    MaxRuns = 1
    AutoReject = TRUE
INVARIANTS TypeOK EscalationRecorded CancelJustified OpenTasksExpire UniqueReview
PROPERTY ReviewsEnd
CHECK_DEADLOCK FALSE

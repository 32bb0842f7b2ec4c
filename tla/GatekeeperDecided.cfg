\* As Gatekeeper.cfg, with one worker and a third run: a task may be dispatched
\* again while an earlier run of it is still at work.
SPECIFICATION Spec
CONSTANTS
    Orders = {o1}
    Verdicts = {"high"}
    Workers = {w1}
    MaxTasks = 2
    MaxRuns = 3
    AutoReject = TRUE
PROPERTY DecidedIsTerminal
CHECK_DEADLOCK FALSE

\* One run with both answers, two executions at a time, one of them cut short. No
\* symmetry: a liveness property is checked.
SPECIFICATION FairSpec
CONSTANTS
    MaxRuns = 1
    Handlers = {h1, h2}
    MaxToolLoops = 2
    Buttons = {"approve", "reject"}
    MaxAborts = 1
    MaxDeliveries = 2
INVARIANTS TypeOK AnswersAreObeyed ReplyIsTrue
PROPERTIES WritesAreGated InvestigationEnds
CHECK_DEADLOCK FALSE
